--------------------------- MODULE ImportCopyProofs ---------------------------
(***************************************************************************)
(* What an import does to the file system, proved for any file systems,    *)
(* targets and orders of listing, and any number of restarts.              *)
(***************************************************************************)
EXTENDS ImportCopy, FiniteSetTheorems, SequenceTheorems, TLAPS

CallType == [src : Path, dst : Path]

\* The target is in the content, so that the copy goes on in what it makes.
Inside == IsPrefix(Src, target)

CallsInv ==
  /\ target \in Path
  /\ todo \in Seq(CallType)
  /\ \A i \in 1..Len(todo) :
       IsPrefix(Src, todo[i].src) /\ todo[i].dst = Target(todo[i].src)
  /\ pc = "write" /\ Head(todo).dst \in DOMAIN fs => fs[Head(todo).dst] # "dir"

\* A copy into its own content always has a call to make on a directory that its
\* own destination is in.
EndlessInv ==
  Inside =>
    /\ outcome # "imported"
    /\ pc \in {"copy", "write"} =>
         \E i \in 1..Len(todo) : /\ IsPrefix(todo[i].src, todo[i].dst)
                                 /\ pc = "write" => i # 1

TypeInv == TypeOK /\ CallsInv /\ EndlessInv

\* What was there before is there, or is a file that a file of the content replaced.
KeptInv ==
  \A p \in DOMAIN first \ gone :
    /\ p \in DOMAIN fs
    /\ fs[p] # first[p] =>
         /\ IsPrefix(Dst, p) /\ first[p] # "dir"
         /\ \E q \in Content : p = Target(q)

\* Nothing in the content is new, unless the target is in it.
BelowInv ==
  ~Inside => \A p \in DOMAIN fs : IsPrefix(Src, p) => p \in DOMAIN first /\ fs[p] = first[p]

WriteInv ==
  pc = "write" /\ ~Inside =>
    /\ Head(todo).src \in Content /\ data = first[Head(todo).src]
    /\ Head(todo).dst \in DOMAIN fs

\* What is not in the target yet is still to come.
CoveredInv ==
  ~Inside /\ (pc \in {"copy", "write"} \/ outcome = "imported") =>
    \A p \in Content \ gone :
      \/ Target(p) \in DOMAIN fs /\ fs[Target(p)] = first[p]
      \/ \E i \in 1..Len(todo) : IsPrefix(todo[i].src, p)

CopyInv ==
  /\ FileSystem(first) /\ Apart(first, target)
  /\ KeptInv /\ BelowInv /\ WriteInv /\ CoveredInv


-----------------------------------------------------------------------------
(* Paths. *)

\* A prefix has the names of the path up to where it ends.
LEMMA PrefixIs ==
  ASSUME NEW p \in Path, NEW q \in Path
  PROVE  IsPrefix(p, q) <=> Len(p) <= Len(q) /\ \A i \in 1..Len(p) : p[i] = q[i]
<1>1. Len(p) \in Nat /\ Len(q) \in Nat
  BY LenProperties DEF Path
<1>2. SubSeq(p, 1, Len(p)) = p
  BY SubSeqFull DEF Path
<1>3. CASE Len(p) <= Len(q)
  <2>1. /\ SubSeq(q, 1, Len(p)) \in Path
        /\ Len(SubSeq(q, 1, Len(p))) = Len(p)
        /\ \A i \in 1..Len(p) : SubSeq(q, 1, Len(p))[i] = q[i]
    BY <1>1, <1>3, ElementOfSeq, SubSeqProperties DEF Path
  <2>2. p = SubSeq(q, 1, Len(p)) <=> \A i \in 1..Len(p) : p[i] = q[i]
    BY <2>1, SeqEqual DEF Path
  <2> QED BY <1>2, <1>3, <2>2 DEF IsPrefix
<1>4. CASE ~(Len(p) <= Len(q))
  BY <1>4 DEF IsPrefix
<1> QED BY <1>3, <1>4

\* A path begins with itself, what it begins with begins with, and one of any two
\* that it begins with.
LEMMA PrefixOrder ==
  /\ \A p \in Path : IsPrefix(p, p)
  /\ \A p, q, r \in Path : IsPrefix(p, q) /\ IsPrefix(q, r) => IsPrefix(p, r)
  /\ \A p, q \in Path : IsPrefix(p, q) /\ IsPrefix(q, p) => p = q
  /\ \A p, q, r \in Path :
       IsPrefix(p, r) /\ IsPrefix(q, r) => IsPrefix(p, q) \/ IsPrefix(q, p)
<1>0. \A p \in Path : Len(p) \in Nat
  BY LenProperties DEF Path
<1>1. \A p \in Path : IsPrefix(p, p)
  BY <1>0, PrefixIs
<1>2. ASSUME NEW p \in Path, NEW q \in Path, NEW r \in Path,
             IsPrefix(p, q), IsPrefix(q, r)
      PROVE  IsPrefix(p, r)
  BY <1>0, <1>2, PrefixIs
<1>3. ASSUME NEW p \in Path, NEW q \in Path, IsPrefix(p, q), IsPrefix(q, p)
      PROVE  p = q
  <2>1. Len(p) = Len(q) /\ \A i \in 1..Len(p) : p[i] = q[i]
    BY <1>0, <1>3, PrefixIs
  <2> QED BY <2>1, SeqEqual DEF Path
<1>4. ASSUME NEW p \in Path, NEW q \in Path, NEW r \in Path,
             IsPrefix(p, r), IsPrefix(q, r)
      PROVE  IsPrefix(p, q) \/ IsPrefix(q, p)
  <2>1. /\ \A i \in 1..Len(p) : p[i] = r[i]
        /\ \A i \in 1..Len(q) : q[i] = r[i]
    BY <1>4, PrefixIs
  <2>2. CASE Len(p) <= Len(q)
    BY <1>0, <2>1, <2>2, PrefixIs
  <2>3. CASE Len(q) <= Len(p)
    BY <1>0, <2>1, <2>3, PrefixIs
  <2> QED BY <1>0, <2>2, <2>3
<1> QED BY <1>1, <1>2, <1>3, <1>4

\* What is above a path is what it begins with, itself included, but the root.
LEMMA AboveIs ==
  ASSUME NEW p \in Path
  PROVE  \A q : q \in Above(p) <=> q \in Path /\ Len(q) >= 1 /\ IsPrefix(q, p)
<1>1. Len(p) \in Nat
  BY LenProperties DEF Path
<1>2. ASSUME NEW q \in Above(p) PROVE q \in Path /\ Len(q) >= 1 /\ IsPrefix(q, p)
  <2>1. PICK n \in 1..Len(p) : q = SubSeq(p, 1, n)
    BY DEF Above
  <2>2. q \in Path /\ Len(q) = n
    BY <1>1, <2>1, ElementOfSeq, SubSeqProperties DEF Path
  <2>3. SubSeq(q, 1, n) = q
    BY <2>2, SubSeqFull DEF Path
  <2> QED BY <1>1, <2>1, <2>2, <2>3 DEF IsPrefix
<1>3. ASSUME NEW q \in Path, Len(q) >= 1, IsPrefix(q, p) PROVE q \in Above(p)
  <2>1. Len(q) \in 1..Len(p)
    BY <1>1, <1>3, LenProperties DEF IsPrefix, Path
  <2>2. q = SubSeq(p, 1, Len(q))
    BY <1>3, SubSeqFull DEF IsPrefix, Path
  <2> QED BY <2>1, <2>2 DEF Above
<1> QED BY <1>2, <1>3

\* There are finitely many of them, and the path is one.
LEMMA AboveFinite ==
  ASSUME NEW p \in Path
  PROVE  /\ IsFiniteSet(Above(p)) /\ Above(p) \subseteq Path
         /\ Len(p) >= 1 => p \in Above(p)
<1>1. Len(p) \in Nat
  BY LenProperties DEF Path
<1> DEFINE s == [n \in 1..Len(p) |-> SubSeq(p, 1, n)]
<1>2. s \in Surjection(1..Len(p), Above(p))
  BY DEF Surjection, Above
<1>3. IsFiniteSet(1..Len(p))
  BY <1>1, FS_Interval
<1>4. IsFiniteSet(Above(p))
  BY <1>2, <1>3, FS_Surjection
<1> QED BY <1>4, AboveIs, PrefixOrder

\* What is listed are the paths of one name more.
LEMMA ChildOf ==
  ASSUME NEW p \in Path, NEW q \in Path, IsPrefix(p, q), Len(q) > Len(p)
  PROVE  /\ SubSeq(q, 1, Len(p) + 1) \in Path
         /\ Len(SubSeq(q, 1, Len(p) + 1)) = Len(p) + 1
         /\ IsPrefix(p, SubSeq(q, 1, Len(p) + 1))
         /\ IsPrefix(SubSeq(q, 1, Len(p) + 1), q)
<1>1. Len(p) \in Nat /\ Len(q) \in Nat /\ Len(p) + 1 <= Len(q)
  BY LenProperties DEF Path
<1> DEFINE c == SubSeq(q, 1, Len(p) + 1)
<1>2. c \in Path /\ Len(c) = Len(p) + 1 /\ \A i \in 1..Len(p) + 1 : c[i] = q[i]
  BY <1>1, ElementOfSeq, SubSeqProperties DEF Path
<1> HIDE DEF c
<1>3. \A i \in 1..Len(p) : p[i] = q[i]
  BY PrefixIs
<1>4. IsPrefix(p, c)
  BY <1>1, <1>2, <1>3, PrefixIs
<1>5. IsPrefix(c, q)
  BY <1>1, <1>2, PrefixIs
<1> QED BY <1>2, <1>4, <1>5 DEF c

\* A path and one name more.
LEMMA AppendIs ==
  ASSUME NEW p \in Path, NEW x \in STRING
  PROVE  /\ Append(p, x) \in Path /\ Len(Append(p, x)) = Len(p) + 1
         /\ \A i \in 1..Len(p) : Append(p, x)[i] = p[i]
         /\ Append(p, x)[Len(p) + 1] = x
<1>1. p \in Seq(STRING)
  BY DEF Path
<1>2. \A S : \A s \in Seq(S), e \in S :
        /\ Append(s, e) \in Seq(S) /\ Len(Append(s, e)) = Len(s) + 1
        /\ \A i \in 1..Len(s) : Append(s, e)[i] = s[i]
        /\ Append(s, e)[Len(s) + 1] = e
  BY AppendProperties
<1> QED BY <1>1, <1>2, Zenon DEF Path

\* The content is one name below the download directory, its copy one below the
\* target.
LEMMA SrcIs ==
  /\ Src \in Path /\ Len(Src) = Len(DownloadDir) + 1 /\ Len(DownloadDir) \in Nat
  /\ IsPrefix(DownloadDir, Src)
<1>1. DownloadDir \in Path /\ ContentName \in STRING /\ Len(DownloadDir) \in Nat
  BY ImportAssumption, LenProperties DEF Path
<1>2. /\ Src \in Path /\ Len(Src) = Len(DownloadDir) + 1
      /\ \A i \in 1..Len(DownloadDir) : Src[i] = DownloadDir[i]
  BY <1>1, AppendIs DEF Src
<1> QED BY <1>1, <1>2, PrefixIs

\* Target exchanges the download directory that a path begins with for the target.
LEMMA TargetIs ==
  ASSUME target \in Path, NEW p \in Path, IsPrefix(Src, p)
  PROVE  /\ Target(p) \in Path
         /\ Len(Target(p)) = Len(target) + Len(p) - Len(DownloadDir)
         /\ Len(target) \in Nat /\ Len(p) \in Nat /\ Len(p) >= Len(DownloadDir) + 1
         /\ \A i \in 1..Len(target) : Target(p)[i] = target[i]
         /\ \A i \in Len(target) + 1..Len(Target(p)) :
              Target(p)[i] = p[i - Len(target) + Len(DownloadDir)]
<1> DEFINE rest == SubSeq(p, Len(DownloadDir) + 1, Len(p))
<1>1. Len(p) \in Nat /\ Len(target) \in Nat /\ Len(p) >= Len(DownloadDir) + 1
  BY SrcIs, LenProperties DEF Path, IsPrefix
<1>2. /\ rest \in Path /\ Len(rest) = Len(p) - Len(DownloadDir)
      /\ \A i \in 1..Len(p) - Len(DownloadDir) : rest[i] = p[Len(DownloadDir) + i]
  <2>1. \A i \in Len(DownloadDir) + 1..Len(p) : p[i] \in STRING
    BY <1>1, SrcIs, ElementOfSeq DEF Path
  <2>2. /\ rest \in Path /\ Len(rest) = Len(p) - Len(DownloadDir)
        /\ \A i \in 1..Len(p) - (Len(DownloadDir) + 1) + 1 :
             rest[i] = p[(Len(DownloadDir) + 1) + i - 1]
    BY <1>1, <2>1, SrcIs, SubSeqProperties DEF Path
  <2>3. \A i \in 1..Len(p) - Len(DownloadDir) : rest[i] = p[Len(DownloadDir) + i]
    BY <1>1, <2>2, SrcIs
  <2> QED BY <2>2, <2>3
<1> HIDE DEF rest
<1>3. Target(p) = target \o rest
  BY DEF Target, rest
<1>4. /\ Target(p) \in Path /\ Len(Target(p)) = Len(target) + Len(rest)
      /\ \A i \in 1..Len(target) + Len(rest) :
           Target(p)[i] = IF i <= Len(target) THEN target[i] ELSE rest[i - Len(target)]
  <2>1. target \in Seq(STRING) /\ rest \in Seq(STRING)
    BY <1>2 DEF Path
  <2>2. /\ target \o rest \in Seq(STRING)
        /\ Len(target \o rest) = Len(target) + Len(rest)
        /\ \A i \in 1..Len(target) + Len(rest) :
             (target \o rest)[i] = IF i <= Len(target) THEN target[i] ELSE rest[i - Len(target)]
    BY <2>1, ConcatProperties
  <2> QED BY <1>3, <2>2 DEF Path
<1>5. \A i \in 1..Len(target) : Target(p)[i] = target[i]
  BY <1>1, <1>2, <1>4, SrcIs
<1>6. ASSUME NEW i \in Len(target) + 1..Len(Target(p))
      PROVE  Target(p)[i] = p[i - Len(target) + Len(DownloadDir)]
  <2>1. /\ i \in 1..Len(target) + Len(rest) /\ ~(i <= Len(target))
        /\ i - Len(target) \in 1..Len(p) - Len(DownloadDir)
        /\ Len(DownloadDir) + (i - Len(target)) = i - Len(target) + Len(DownloadDir)
    BY <1>1, <1>2, <1>4, SrcIs
  <2> QED BY <1>2, <1>4, <2>1
<1> QED BY <1>1, <1>2, <1>4, <1>5, <1>6, SrcIs

\* The paths of the content and those of the copy are below one another alike.
LEMMA TargetOrder ==
  ASSUME target \in Path, NEW p \in Path, NEW q \in Path,
         IsPrefix(Src, p), IsPrefix(Src, q)
  PROVE  IsPrefix(p, q) <=> IsPrefix(Target(p), Target(q))
<1>1. /\ Target(p) \in Path /\ Target(q) \in Path
      /\ Len(Target(p)) = Len(target) + Len(p) - Len(DownloadDir)
      /\ Len(Target(q)) = Len(target) + Len(q) - Len(DownloadDir)
      /\ Len(target) \in Nat /\ Len(p) \in Nat /\ Len(q) \in Nat /\ Len(DownloadDir) \in Nat
      /\ Len(p) >= Len(DownloadDir) + 1 /\ Len(q) >= Len(DownloadDir) + 1
      /\ \A i \in 1..Len(target) : Target(p)[i] = target[i] /\ Target(q)[i] = target[i]
  BY TargetIs, SrcIs
<1>2. /\ \A i \in Len(target) + 1..Len(Target(p)) :
           Target(p)[i] = p[i - Len(target) + Len(DownloadDir)]
      /\ \A i \in Len(target) + 1..Len(Target(q)) :
           Target(q)[i] = q[i - Len(target) + Len(DownloadDir)]
  BY TargetIs
<1>3. Len(p) <= Len(q) <=> Len(Target(p)) <= Len(Target(q))
  BY <1>1
<1>4. ASSUME IsPrefix(p, q) PROVE IsPrefix(Target(p), Target(q))
  <2>1. Len(p) <= Len(q) /\ \A i \in 1..Len(p) : p[i] = q[i]
    BY <1>4, PrefixIs
  <2>2. ASSUME NEW i \in 1..Len(Target(p)) PROVE Target(p)[i] = Target(q)[i]
    <3>1. CASE i <= Len(target)
      BY <1>1, <3>1
    <3>2. CASE ~(i <= Len(target))
      <4> DEFINE j == i - Len(target) + Len(DownloadDir)
      <4>1. /\ i \in Len(target) + 1..Len(Target(p)) /\ i \in Len(target) + 1..Len(Target(q))
            /\ j \in 1..Len(p)
        BY <1>1, <1>3, <2>1, <3>2
      <4> QED BY <1>2, <2>1, <4>1
    <3> QED BY <3>1, <3>2
  <2> QED BY <1>1, <1>3, <2>1, <2>2, PrefixIs
<1>5. ASSUME IsPrefix(Target(p), Target(q)) PROVE IsPrefix(p, q)
  <2>1. /\ Len(Target(p)) <= Len(Target(q))
        /\ \A i \in 1..Len(Target(p)) : Target(p)[i] = Target(q)[i]
    BY <1>1, <1>5, PrefixIs
  <2>2. ASSUME NEW i \in 1..Len(p) PROVE p[i] = q[i]
    <3>1. CASE i <= Len(DownloadDir)
      <4>1. i \in 1..Len(Src)
        BY <3>1, SrcIs
      <4> QED BY <4>1, SrcIs, PrefixIs
    <3>2. CASE ~(i <= Len(DownloadDir))
      <4> DEFINE j == i - Len(DownloadDir) + Len(target)
      <4>1. /\ j \in Len(target) + 1..Len(Target(p)) /\ j \in Len(target) + 1..Len(Target(q))
            /\ j \in 1..Len(Target(p)) /\ j - Len(target) + Len(DownloadDir) = i
        BY <1>1, <1>3, <2>1, <3>2
      <4> QED BY <1>2, <2>1, <4>1
    <3> QED BY <3>1, <3>2
  <2> QED BY <1>1, <1>3, <2>1, <2>2, PrefixIs
<1> QED BY <1>4, <1>5

\* No two of them are copied to one place.
LEMMA TargetInjective ==
  ASSUME target \in Path, NEW p \in Path, NEW q \in Path,
         IsPrefix(Src, p), IsPrefix(Src, q), Target(p) = Target(q)
  PROVE  p = q
<1>1. Target(p) \in Path
  BY TargetIs
<1>2. IsPrefix(p, q) /\ IsPrefix(q, p)
  BY <1>1, TargetOrder, PrefixOrder
<1> QED BY <1>2, PrefixOrder

\* The first call copies to where the content comes.
LEMMA DstIs ==
  ASSUME target \in Path
  PROVE  /\ Dst = Target(Src) /\ Dst \in Path /\ IsPrefix(target, Dst)
         /\ Len(Dst) = Len(target) + 1 /\ Len(target) \in Nat
<1>1. /\ Dst \in Path /\ Len(Dst) = Len(target) + 1
      /\ \A i \in 1..Len(target) : Dst[i] = target[i]
      /\ Dst[Len(target) + 1] = ContentName
  BY AppendIs, ImportAssumption DEF Dst
<1>2. /\ Len(target) \in Nat /\ Target(Src) \in Path /\ Len(Target(Src)) = Len(target) + 1
      /\ \A i \in 1..Len(target) : Target(Src)[i] = target[i]
      /\ Target(Src)[Len(target) + 1] = Src[Len(DownloadDir) + 1]
  <2>1. IsPrefix(Src, Src)
    BY SrcIs, PrefixOrder
  <2>2. Len(target) + 1 \in Len(target) + 1..Len(Target(Src))
        /\ Len(target) + 1 - Len(target) + Len(DownloadDir) = Len(DownloadDir) + 1
    BY <2>1, SrcIs, TargetIs
  <2>3. Len(Target(Src)) = Len(target) + 1
    BY <2>1, SrcIs, TargetIs
  <2> QED BY <2>1, <2>2, <2>3, SrcIs, TargetIs
<1>3. Src[Len(DownloadDir) + 1] = ContentName
  BY AppendIs, ImportAssumption DEF Src
<1>4. \A i \in 1..Len(Dst) : Dst[i] = Target(Src)[i]
  BY <1>1, <1>2, <1>3
<1>5. Dst = Target(Src)
  BY <1>1, <1>2, <1>4, SeqEqual DEF Path
<1>6. IsPrefix(target, Dst)
  BY <1>1, <1>2, PrefixIs
<1> QED BY <1>1, <1>2, <1>5, <1>6

\* So does each call for an entry of a directory.
LEMMA TargetChild ==
  ASSUME target \in Path, NEW p \in Path, NEW q \in Path, IsPrefix(Src, p),
         IsPrefix(p, q), Len(q) = Len(p) + 1
  PROVE  /\ IsPrefix(Src, q)
         /\ Append(Target(p), Last(q)) = Target(q)
<1>1. IsPrefix(Src, q)
  BY SrcIs, PrefixOrder
<1>2. /\ Target(p) \in Path /\ Target(q) \in Path /\ Len(p) \in Nat
      /\ Len(Target(q)) = Len(Target(p)) + 1 /\ Len(Target(p)) \in Nat
      /\ Len(target) <= Len(Target(p))
      /\ Len(Target(q)) - Len(target) + Len(DownloadDir) = Len(q)
  <2>1. /\ Target(p) \in Path /\ Len(p) \in Nat /\ Len(target) \in Nat
        /\ Len(Target(p)) = Len(target) + Len(p) - Len(DownloadDir)
        /\ Len(p) >= Len(DownloadDir) + 1
    BY TargetIs
  <2>2. /\ Target(q) \in Path
        /\ Len(Target(q)) = Len(target) + Len(q) - Len(DownloadDir)
    BY <1>1, TargetIs
  <2> QED BY <2>1, <2>2, SrcIs
<1>3. Last(q) \in STRING
  BY <1>2, ElementOfSeq DEF Last, Path
<1> DEFINE a == Append(Target(p), Last(q))
<1>4. /\ a \in Path /\ Len(a) = Len(Target(p)) + 1
      /\ \A i \in 1..Len(Target(p)) : a[i] = Target(p)[i]
      /\ a[Len(Target(p)) + 1] = Last(q)
  BY <1>2, <1>3, AppendIs
<1> HIDE DEF a
<1>5. \A i \in 1..Len(Target(p)) : Target(p)[i] = Target(q)[i]
  BY <1>1, <1>2, TargetOrder, PrefixIs
<1>6. Target(q)[Len(Target(q))] = q[Len(q)]
  <2>1. Len(target) \in Nat
        /\ \A i \in Len(target) + 1..Len(Target(q)) :
             Target(q)[i] = q[i - Len(target) + Len(DownloadDir)]
    BY <1>1, TargetIs
  <2>2. Len(Target(q)) \in Len(target) + 1..Len(Target(q))
    BY <1>2, <2>1, SrcIs
  <2> QED BY <1>2, <2>1, <2>2
<1>7. a[Len(a)] = Target(q)[Len(a)]
  BY <1>2, <1>4, <1>6 DEF Last
<1>8. \A i \in 1..Len(a) : a[i] = Target(q)[i]
  BY <1>2, <1>4, <1>5, <1>7
<1>9. a = Target(q)
  BY <1>2, <1>4, <1>8, SeqEqual DEF Path
<1> QED BY <1>1, <1>9 DEF a

\* A target apart from the content shares no path with it.
LEMMA NoneMeet ==
  ASSUME target \in Path, NEW f, Apart(f, target), ~Inside,
         NEW p \in Path, IsPrefix(Dst, p)
  PROVE  \A q \in Path : IsPrefix(q, p) => ~IsPrefix(Src, q)
<1> SUFFICES ASSUME NEW q \in Path, IsPrefix(q, p), IsPrefix(Src, q) PROVE FALSE
  OBVIOUS
<1>1. IsPrefix(Src, p)
  BY SrcIs, PrefixOrder
<1>2. IsPrefix(Src, Dst) \/ IsPrefix(Dst, Src)
  BY <1>1, SrcIs, DstIs, PrefixOrder
<1>3. ~IsPrefix(Dst, Src)
  BY DEF Apart, Inside, Dst
<1>4. IsPrefix(Src, Dst)
  BY <1>2, <1>3
<1>5. IsPrefix(Src, target) \/ IsPrefix(target, Src)
  BY <1>4, SrcIs, DstIs, PrefixOrder
<1>6. IsPrefix(target, Src) /\ Len(Src) \in Nat /\ Len(Src) <= Len(target) + 1
  BY <1>4, <1>5, SrcIs, DstIs DEF Inside, IsPrefix
<1>7. CASE Len(Src) = Len(target) + 1
  <2>1. \A i \in 1..Len(Src) : Src[i] = Dst[i]
    BY <1>4, SrcIs, DstIs, PrefixIs
  <2>2. \A i \in 1..Len(Dst) : Dst[i] = Src[i]
    BY <1>7, <2>1, DstIs
  <2> QED BY <1>3, <1>7, <2>2, SrcIs, DstIs, PrefixIs
<1>8. CASE Len(Src) <= Len(target)
  <2>1. Len(Src) = Len(target) /\ \A i \in 1..Len(target) : target[i] = Src[i]
    BY <1>6, <1>8, SrcIs, DstIs, PrefixIs
  <2>2. \A i \in 1..Len(Src) : Src[i] = target[i]
    BY <2>1
  <2> QED BY <1>8, <2>2, SrcIs, PrefixIs DEF Inside
<1> QED BY <1>6, <1>7, <1>8, DstIs

-----------------------------------------------------------------------------
(* The file system. *)

\* create_dir_all makes the directories that are missing and changes nothing else.
LEMMA DirsMade ==
  ASSUME FileSystem(fs), NEW p \in Path, DirsFit(p)
  PROVE  /\ FileSystem(WithDirs(p))
         /\ DOMAIN WithDirs(p) = DOMAIN fs \cup Above(p)
         /\ \A q \in DOMAIN fs : WithDirs(p)[q] = fs[q]
         /\ \A q \in Above(p) : WithDirs(p)[q] = "dir"
<1> DEFINE g == WithDirs(p)
<1>1. DOMAIN g = DOMAIN fs \cup Above(p)
  BY DEF WithDirs, With
<1>2. \A q \in DOMAIN g : g[q] = IF q \in Above(p) THEN "dir" ELSE fs[q]
  BY DEF WithDirs, With
<1>3. \A q \in DOMAIN fs : g[q] = fs[q]
  BY <1>1, <1>2 DEF DirsFit, Exists, IsDir
<1>4. \A q \in Above(p) : g[q] = "dir"
  BY <1>1, <1>2
<1> HIDE DEF g
<1>5. IsFiniteSet(DOMAIN g) /\ DOMAIN g \subseteq Path
  <2>1. /\ IsFiniteSet(DOMAIN fs) /\ DOMAIN fs \subseteq Path
        /\ IsFiniteSet(Above(p)) /\ Above(p) \subseteq Path
    BY AboveFinite DEF FileSystem
  <2>2. IsFiniteSet(DOMAIN fs \cup Above(p))
    BY <2>1, FS_Union
  <2> QED BY <1>1, <2>1, <2>2
<1>6. ASSUME NEW q \in DOMAIN g
      PROVE  /\ Len(q) <= MaxPath /\ g[q] # "none"
             /\ \A r \in Above(q) \ {q} : r \in DOMAIN g /\ g[r] = "dir"
  <2>1. CASE q \in DOMAIN fs
    BY <1>1, <1>3, <2>1 DEF FileSystem
  <2>2. CASE q \in Above(p)
    <3>1. q \in Path /\ IsPrefix(q, p) /\ Len(q) \in Nat /\ Len(p) \in Nat
      BY <2>2, AboveIs, LenProperties DEF Path
    <3>2. Len(q) <= MaxPath
      BY <3>1, ImportAssumption DEF DirsFit, IsPrefix
    <3>3. \A r \in Above(q) : r \in Above(p)
      BY <3>1, AboveIs, PrefixOrder
    <3> QED BY <1>1, <1>4, <2>2, <3>2, <3>3
  <2> QED BY <1>1, <2>1, <2>2
<1> QED BY <1>1, <1>3, <1>4, <1>5, <1>6 DEF g, FileSystem

\* The directories of a file, and the file.
LEMMA FrontIs ==
  ASSUME NEW p \in Path, Len(p) >= 1
  PROVE  /\ Front(p) \in Path /\ Len(Front(p)) = Len(p) - 1 /\ Len(p) \in Nat
         /\ Above(p) = Above(Front(p)) \cup {p}
<1>1. Len(p) \in Nat
  BY LenProperties DEF Path
<1>2. /\ Front(p) \in Path /\ Len(Front(p)) = Len(p) - 1
      /\ \A i \in 1..Len(p) - 1 : Front(p)[i] = p[i]
  <2>1. PICK n \in Nat : n = Len(p) - 1
    BY <1>1
  <2>2. \A i \in 1..n : p[i] \in STRING
    BY <1>1, <2>1, ElementOfSeq DEF Path
  <2>3. /\ SubSeq(p, 1, n) \in Path
        /\ Len(SubSeq(p, 1, n)) = IF 1 <= n THEN n - 1 + 1 ELSE 0
        /\ \A i \in 1..n - 1 + 1 : SubSeq(p, 1, n)[i] = p[1 + i - 1]
    BY <2>2, SubSeqProperties DEF Path
  <2>4. Len(SubSeq(p, 1, n)) = n
    BY <2>1, <2>3
  <2>5. \A i \in 1..n : SubSeq(p, 1, n)[i] = p[i]
    BY <2>1, <2>3
  <2> QED BY <2>1, <2>3, <2>4, <2>5, Zenon DEF Front
<1>3. IsPrefix(Front(p), p)
  BY <1>1, <1>2, PrefixIs
<1>4. ASSUME NEW q \in Above(p), q # p PROVE q \in Above(Front(p))
  <2>1. q \in Path /\ Len(q) >= 1 /\ Len(q) \in Nat /\ IsPrefix(q, p)
    BY AboveIs, LenProperties DEF Path
  <2>2. Len(q) <= Len(p) /\ \A i \in 1..Len(q) : q[i] = p[i]
    BY <2>1, PrefixIs
  <2>3. Len(q) # Len(p)
    BY <1>1, <1>4, <2>1, <2>2, SeqEqual DEF Path
  <2>4. IsPrefix(q, Front(p))
    BY <1>1, <1>2, <2>1, <2>2, <2>3, PrefixIs
  <2> QED BY <1>2, <2>1, <2>4, AboveIs
<1>5. \A q \in Above(Front(p)) : q \in Above(p)
  BY <1>2, <1>3, AboveIs, PrefixOrder
<1> QED BY <1>1, <1>2, <1>4, <1>5, AboveFinite

\* Opening the destination makes its directories and it, and truncates it.
LEMMA FileMade ==
  ASSUME FileSystem(fs), NEW c, c.dst \in Path, Len(c.dst) >= 1,
         DirsFit(Front(c.dst)), FileFits(c),
         NEW g, DOMAIN g = DOMAIN WithDirs(Front(c.dst)) \cup {c.dst}, g[c.dst] = "empty",
         \A q \in DOMAIN g : q # c.dst => g[q] = WithDirs(Front(c.dst))[q]
  PROVE  /\ FileSystem(g)
         /\ DOMAIN g = DOMAIN fs \cup Above(c.dst)
         /\ g[c.dst] = "empty"
         /\ \A q \in DOMAIN fs : q # c.dst => g[q] = fs[q]
<1> DEFINE d == c.dst
           h == WithDirs(Front(d))
<1>1. /\ Front(d) \in Path /\ Len(Front(d)) = Len(d) - 1 /\ Len(d) \in Nat
      /\ Above(d) = Above(Front(d)) \cup {d}
  BY FrontIs
<1>2. /\ FileSystem(h) /\ DOMAIN h = DOMAIN fs \cup Above(Front(d))
      /\ \A q \in DOMAIN fs : h[q] = fs[q]
      /\ \A q \in Above(Front(d)) : h[q] = "dir"
  BY <1>1, DirsMade
<1> HIDE DEF h
<1>3. DOMAIN g = DOMAIN h \cup {d} /\ \A q \in DOMAIN g : g[q] = IF q = d THEN "empty" ELSE h[q]
  BY DEF h
<1>4. \A q \in Above(Front(d)) : q # d
  BY <1>1, AboveIs, LenProperties DEF Path, IsPrefix
<1>5. \A q \in DOMAIN h : d \in Above(q) => q = d
  <2> SUFFICES ASSUME NEW q \in DOMAIN h, d \in Above(q), q # d PROVE FALSE
    OBVIOUS
  <2>1. d \in DOMAIN h /\ h[d] = "dir"
    BY <1>2 DEF FileSystem
  <2>2. d \in DOMAIN fs /\ fs[d] = "dir"
    BY <1>2, <1>4, <2>1
  <2> QED BY <2>2 DEF FileFits, IsDir, Exists
<1>6. DOMAIN g \subseteq Path /\ IsFiniteSet(DOMAIN g)
  <2>1. IsFiniteSet(DOMAIN h) /\ DOMAIN h \subseteq Path
    BY <1>2 DEF FileSystem
  <2>2. IsFiniteSet(DOMAIN h \cup {d})
    BY <2>1, FS_AddElement
  <2> QED BY <1>3, <2>1, <2>2
<1>7. ASSUME NEW q \in DOMAIN g
      PROVE  /\ Len(q) <= MaxPath /\ g[q] # "none"
             /\ \A r \in Above(q) \ {q} : r \in DOMAIN g /\ g[r] = "dir"
  <2>1. CASE q = d
    <3>1. Len(d) <= MaxPath
      BY DEF FileFits
    <3>2. \A r \in Above(d) \ {d} : r \in DOMAIN g /\ g[r] = "dir"
      BY <1>1, <1>2, <1>3
    <3> QED BY <1>3, <2>1, <3>1, <3>2
  <2>2. CASE q # d
    <3>1. q \in DOMAIN h
      BY <1>3, <2>2
    <3>2. \A r \in Above(q) \ {q} : r \in DOMAIN h /\ h[r] = "dir" /\ r # d
      BY <1>2, <1>5, <2>2, <3>1 DEF FileSystem
    <3>3. Len(q) <= MaxPath /\ h[q] # "none"
      BY <1>2, <3>1 DEF FileSystem
    <3> QED BY <1>3, <2>2, <3>1, <3>2, <3>3
  <2> QED BY <2>1, <2>2
<1>8. FileSystem(g)
  BY <1>6, <1>7 DEF FileSystem
<1> QED BY <1>1, <1>2, <1>3, <1>8

\* Writing a file, and taking away a path and what is below it, leave a tree.
LEMMA TreeKept ==
  ASSUME FileSystem(fs)
  PROVE  /\ \A p \in DOMAIN fs : \A v :
              fs[p] # "dir" /\ v # "none" => FileSystem([fs EXCEPT ![p] = v])
         /\ \A p \in Path :
              FileSystem([q \in DOMAIN fs \ {r \in DOMAIN fs : IsPrefix(p, r)} |-> fs[q]])
<1>1. ASSUME NEW p \in DOMAIN fs, NEW v, fs[p] # "dir", v # "none"
      PROVE  FileSystem([fs EXCEPT ![p] = v])
  <2> DEFINE g == [fs EXCEPT ![p] = v]
  <2>1. DOMAIN g = DOMAIN fs /\ \A q \in DOMAIN fs : g[q] = IF q = p THEN v ELSE fs[q]
    OBVIOUS
  <2>2. \A q \in DOMAIN g : Len(q) <= MaxPath /\ g[q] # "none"
    BY <1>1, <2>1 DEF FileSystem
  <2>3. \A q \in DOMAIN g : \A r \in Above(q) \ {q} : r \in DOMAIN g /\ g[r] = "dir"
    BY <1>1, <2>1 DEF FileSystem
  <2> HIDE DEF g
  <2>4. FileSystem(g)
    BY <2>1, <2>2, <2>3 DEF FileSystem
  <2> QED BY <2>4 DEF g
<1>2. ASSUME NEW p \in Path
      PROVE  FileSystem([q \in DOMAIN fs \ {r \in DOMAIN fs : IsPrefix(p, r)} |-> fs[q]])
  <2> DEFINE g == [q \in DOMAIN fs \ {r \in DOMAIN fs : IsPrefix(p, r)} |-> fs[q]]
  <2>1. /\ DOMAIN g = {q \in DOMAIN fs : ~IsPrefix(p, q)}
        /\ \A q \in DOMAIN g : g[q] = fs[q]
    OBVIOUS
  <2> HIDE DEF g
  <2>2. DOMAIN g \subseteq Path /\ IsFiniteSet(DOMAIN g)
    BY <2>1, FS_Subset DEF FileSystem
  <2>3. ASSUME NEW q \in DOMAIN g, NEW r \in Above(q) \ {q} PROVE r \in DOMAIN g /\ g[r] = "dir"
    <3>1. r \in DOMAIN fs /\ fs[r] = "dir"
      BY <2>1 DEF FileSystem
    <3>2. q \in Path /\ r \in Path /\ IsPrefix(r, q) /\ ~IsPrefix(p, q)
      BY <2>1, <2>2, AboveIs
    <3>3. ~IsPrefix(p, r)
      BY <3>2, PrefixOrder
    <3> QED BY <2>1, <3>1, <3>3
  <2>4. FileSystem(g)
    BY <2>1, <2>2, <2>3 DEF FileSystem
  <2> QED BY <2>4 DEF g
<1> QED BY <1>1, <1>2

\* However a directory is listed, each of its entries is visited.
LEMMA OrderIs ==
  ASSUME NEW S, IsFiniteSet(S), NEW order \in SetToSeqs(S)
  PROVE  /\ order \in Seq(S)
         /\ \A v \in S : \E i \in 1..Len(order) : order[i] = v
<1> DEFINE n == Cardinality(S)
<1>1. n \in Nat
  BY FS_CardinalityType
<1>2. order \in [1..n -> S] /\ \A i, j \in 1..n : i # j => order[i] # order[j]
  BY DEF SetToSeqs
<1>3. order \in Injection(1..n, S)
  BY <1>2 DEF Injection, IsInjective
<1>4. Cardinality(1..n) = n
  BY <1>1, FS_Interval
<1>5. order \in Surjection(1..n, S)
  BY <1>3, <1>4, FS_Injection
<1>6. order \in Seq(S) /\ Len(order) = n
  BY <1>1, <1>2
<1> QED BY <1>5, <1>6 DEF Surjection

\* There are finitely many.
LEMMA VisitsFinite ==
  ASSUME NEW f, FileSystem(f), NEW p, NEW d
  PROVE  IsFiniteSet(Visits(Listed(f, p), d))
<1> DEFINE L == Listed(f, p)
           v == [q \in L |-> Call(q, Append(d, Last(q)))]
<1>1. IsFiniteSet(L)
  BY FS_Subset DEF Listed, FileSystem
<1>2. v \in Surjection(L, Visits(L, d))
  BY DEF Surjection, Visits
<1> QED BY <1>1, <1>2, FS_Surjection

-----------------------------------------------------------------------------
(* The calls. *)

\* The call in hand, and those after it.
LEMMA HeadIs ==
  ASSUME CallsInv, todo # <<>>, NEW c, c = Head(todo)
  PROVE  /\ c = todo[1] /\ c.src \in Path /\ c.dst \in Path
         /\ IsPrefix(Src, c.src) /\ c.dst = Target(c.src)
         /\ Len(c.dst) = Len(target) + Len(c.src) - Len(DownloadDir)
         /\ IsPrefix(Dst, c.dst) /\ Len(c.dst) \in Nat /\ Len(c.dst) >= 1
         /\ Len(todo) \in Nat /\ Len(todo) >= 1
         /\ Tail(todo) \in Seq(CallType) /\ Len(Tail(todo)) = Len(todo) - 1
         /\ \A i \in 1..Len(todo) - 1 : Tail(todo)[i] = todo[i + 1]
<1>1. /\ todo \in Seq(CallType) /\ target \in Path
      /\ Len(todo) \in Nat /\ Len(todo) >= 1
      /\ Tail(todo) \in Seq(CallType) /\ Len(Tail(todo)) = Len(todo) - 1
      /\ \A i \in 1..Len(todo) - 1 : Tail(todo)[i] = todo[i + 1]
  BY HeadTailProperties, EmptySeq DEF CallsInv
<1>2. c = todo[1] /\ c \in CallType
  BY <1>1, ElementOfSeq
<1>3. c.src \in Path /\ c.dst \in Path
  BY <1>2 DEF CallType
<1>4. IsPrefix(Src, c.src) /\ c.dst = Target(c.src)
  BY <1>1, <1>2 DEF CallsInv
<1>5. IsPrefix(Dst, c.dst)
  BY <1>1, <1>3, <1>4, SrcIs, PrefixOrder, DstIs, TargetOrder
<1>6. /\ Len(c.dst) \in Nat /\ Len(c.dst) >= 1
      /\ Len(c.dst) = Len(target) + Len(c.src) - Len(DownloadDir)
  BY <1>1, <1>3, <1>4, SrcIs, TargetIs, LenProperties
<1> QED BY <1>1, <1>2, <1>3, <1>4, <1>5, <1>6

\* The call that an import begins with.
LEMMA FirstCall ==
  ASSUME target \in Path, NEW t, t = <<Call(Src, Dst)>>
  PROVE  /\ t \in Seq(CallType) /\ Len(t) = 1
         /\ t[1].src = Src /\ t[1].dst = Dst
         /\ IsPrefix(Src, Src) /\ Dst = Target(Src)
BY SrcIs, DstIs, PrefixOrder DEF Call, CallType

\* What is to be shown of the calls after a step.
LEMMA CallsNext ==
  ASSUME target \in Path, target' = target, todo' \in Seq(CallType),
         \A i \in 1..Len(todo') :
           IsPrefix(Src, todo'[i].src) /\ todo'[i].dst = Target(todo'[i].src),
         pc' = "write" /\ Head(todo').dst \in DOMAIN fs' => fs'[Head(todo').dst] # "dir"
  PROVE  CallsInv'
BY DEF CallsInv, Target

\* When a directory is copied, each of its entries becomes a call, and the calls
\* after it stay.
LEMMA CopyDirCalls ==
  ASSUME FileSystem(fs), CallsInv, CopyDir, NEW c, c = Head(todo)
  PROVE  /\ FileSystem(fs')
         /\ DOMAIN fs' = DOMAIN fs \cup Above(c.dst)
         /\ \A q \in DOMAIN fs : fs'[q] = fs[q]
         /\ \A q \in Above(c.dst) : fs'[q] = "dir"
         /\ todo' \in Seq(CallType)
         /\ \A i \in 1..Len(todo') :
              IsPrefix(Src, todo'[i].src) /\ todo'[i].dst = Target(todo'[i].src)
         /\ \A q \in DOMAIN fs' :
              IsPrefix(c.src, q) /\ Len(q) = Len(c.src) + 1 =>
                \E i \in 1..Len(todo') : todo'[i].src = q /\ todo'[i].dst = Target(q)
         /\ \A i \in 2..Len(todo) : \E j \in 1..Len(todo') : todo'[j] = todo[i]
<1>1. /\ todo # <<>> /\ IsDir(c.src) /\ DirsFit(c.dst) /\ fs' = WithDirs(c.dst)
      /\ c.src \in Path /\ c.dst \in Path /\ IsPrefix(Src, c.src) /\ c.dst = Target(c.src)
      /\ target \in Path
      /\ Len(todo) \in Nat /\ Len(todo) >= 1
      /\ Tail(todo) \in Seq(CallType) /\ Len(Tail(todo)) = Len(todo) - 1
      /\ \A i \in 1..Len(todo) - 1 : Tail(todo)[i] = todo[i + 1]
  BY HeadIs DEF CopyDir, CallsInv
<1>2. /\ FileSystem(fs')
      /\ DOMAIN fs' = DOMAIN fs \cup Above(c.dst)
      /\ \A q \in DOMAIN fs : fs'[q] = fs[q]
      /\ \A q \in Above(c.dst) : fs'[q] = "dir"
  BY <1>1, DirsMade
<1> DEFINE V == Visits(Listed(fs', c.src), c.dst)
<1>3. PICK order \in SetToSeqs(V) : todo' = order \o Tail(todo)
  BY DEF CopyDir
<1>4. order \in Seq(V) /\ \A v \in V : \E i \in 1..Len(order) : order[i] = v
  <2>1. IsFiniteSet(V)
    BY <1>2, VisitsFinite
  <2> HIDE DEF V
  <2> QED BY <2>1, OrderIs
<1>5. ASSUME NEW v \in V
      PROVE  /\ v \in CallType /\ IsPrefix(Src, v.src) /\ v.dst = Target(v.src)
  <2>1. PICK q \in Listed(fs', c.src) : v = Call(q, Append(c.dst, Last(q)))
    BY DEF Visits
  <2>2. q \in Path /\ IsPrefix(c.src, q) /\ Len(q) = Len(c.src) + 1
    BY <1>2, <2>1 DEF Listed, FileSystem
  <2>3. IsPrefix(Src, q) /\ Append(c.dst, Last(q)) = Target(q)
    BY <1>1, <2>2, TargetChild
  <2>4. Target(q) \in Path
    BY <1>1, <2>2, <2>3, TargetIs
  <2>5. v.src = q /\ v.dst = Target(q) /\ v \in CallType
    BY <2>1, <2>2, <2>3, <2>4 DEF Call, CallType
  <2> QED BY <2>3, <2>5
<1>6. ASSUME NEW q \in DOMAIN fs', IsPrefix(c.src, q), Len(q) = Len(c.src) + 1
      PROVE  \E v \in V : v.src = q /\ v.dst = Target(q)
  <2>1. q \in Listed(fs', c.src) /\ q \in Path
    BY <1>2, <1>6 DEF Listed, FileSystem
  <2>2. Append(c.dst, Last(q)) = Target(q)
    BY <1>1, <1>6, <2>1, TargetChild
  <2>3. Call(q, Append(c.dst, Last(q))) \in V
    BY <2>1 DEF Visits
  <2> QED BY <2>2, <2>3 DEF Call
<1> HIDE DEF V
<1>7. order \in Seq(CallType) /\ \A i \in 1..Len(order) : order[i] \in V
  <2>1. V \subseteq CallType
    BY <1>5
  <2> QED BY <1>4, <2>1, SeqMonotonic, ElementOfSeq
<1>8. /\ todo' \in Seq(CallType)
      /\ Len(todo') = Len(order) + (Len(todo) - 1) /\ Len(order) \in Nat
      /\ \A i \in 1..Len(order) + (Len(todo) - 1) :
           todo'[i] = IF i <= Len(order) THEN order[i] ELSE Tail(todo)[i - Len(order)]
  BY <1>1, <1>3, <1>7, ConcatProperties, LenProperties
<1>9. /\ \A i \in 1..Len(order) : i \in 1..Len(todo') /\ todo'[i] = order[i]
      /\ \A i \in 2..Len(todo) :
           /\ Len(order) + i - 1 \in 1..Len(todo')
           /\ todo'[Len(order) + i - 1] = todo[i]
      /\ \A i \in 1..Len(todo') :
           i \in 1..Len(order) \/ \E j \in 2..Len(todo) : todo'[i] = todo[j]
  <2>1. \A i \in 1..Len(order) : i \in 1..Len(todo') /\ todo'[i] = order[i]
    BY <1>1, <1>8
  <2>2. ASSUME NEW i \in 2..Len(todo)
        PROVE  /\ Len(order) + i - 1 \in 1..Len(todo')
               /\ todo'[Len(order) + i - 1] = todo[i]
    <3>1. /\ Len(order) + i - 1 \in 1..Len(order) + (Len(todo) - 1)
          /\ ~(Len(order) + i - 1 <= Len(order))
          /\ Len(order) + i - 1 - Len(order) = i - 1
          /\ i - 1 \in 1..Len(todo) - 1 /\ (i - 1) + 1 = i
      BY <1>1, <1>8
    <3> QED BY <1>1, <1>8, <3>1
  <2>3. ASSUME NEW i \in 1..Len(todo'), i \notin 1..Len(order)
        PROVE  \E j \in 2..Len(todo) : todo'[i] = todo[j]
    <3>1. /\ i \in 1..Len(order) + (Len(todo) - 1) /\ ~(i <= Len(order))
          /\ i - Len(order) \in 1..Len(todo) - 1
          /\ i - Len(order) + 1 \in 2..Len(todo)
      BY <1>1, <1>8, <2>3
    <3>2. todo'[i] = todo[i - Len(order) + 1]
      BY <1>1, <1>8, <3>1
    <3> QED BY <3>1, <3>2
  <2> QED BY <2>1, <2>2, <2>3
<1>10. ASSUME NEW i \in 1..Len(todo')
       PROVE  IsPrefix(Src, todo'[i].src) /\ todo'[i].dst = Target(todo'[i].src)
  <2>1. CASE i \in 1..Len(order)
    BY <1>5, <1>7, <1>9, <2>1
  <2>2. CASE i \notin 1..Len(order)
    <3>1. PICK j \in 2..Len(todo) : todo'[i] = todo[j]
      BY <1>9, <2>2
    <3>2. j \in 1..Len(todo)
      BY <1>1
    <3> QED BY <3>1, <3>2 DEF CallsInv
  <2> QED BY <2>1, <2>2
<1>11. \A q \in DOMAIN fs' :
         IsPrefix(c.src, q) /\ Len(q) = Len(c.src) + 1 =>
           \E i \in 1..Len(todo') : todo'[i].src = q /\ todo'[i].dst = Target(q)
  BY <1>4, <1>6, <1>9
<1>12. \A i \in 2..Len(todo) : \E j \in 1..Len(todo') : todo'[j] = todo[i]
  BY <1>9
<1> QED BY <1>2, <1>8, <1>10, <1>11, <1>12

\* When a file is opened, its directories and its destination are there, and all
\* else is as it was.
LEMMA OpenFileFiles ==
  ASSUME FileSystem(fs), CallsInv, OpenFile, NEW c, c = Head(todo)
  PROVE  /\ FileSystem(fs')
         /\ DOMAIN fs' = DOMAIN fs \cup Above(c.dst)
         /\ fs'[c.dst] = "empty"
         /\ \A q \in DOMAIN fs : q # c.dst => fs'[q] = fs[q]
<1>1. /\ todo # <<>> /\ DirsFit(Front(c.dst)) /\ FileFits(c)
      /\ fs' = With(WithDirs(Front(c.dst)), [p \in {c.dst} |-> "empty"])
  BY DEF OpenFile
<1>2. c.dst \in Path /\ Len(c.dst) >= 1
  BY <1>1, HeadIs
<1>3. PICK g : g = fs'
  OBVIOUS
<1>4. /\ DOMAIN g = DOMAIN WithDirs(Front(c.dst)) \cup {c.dst} /\ g[c.dst] = "empty"
      /\ \A q \in DOMAIN g : q # c.dst => g[q] = WithDirs(Front(c.dst))[q]
  BY <1>1, <1>3 DEF With
<1>5. /\ FileSystem(g)
      /\ DOMAIN g = DOMAIN fs \cup Above(c.dst)
      /\ g[c.dst] = "empty"
      /\ \A q \in DOMAIN fs : q # c.dst => g[q] = fs[q]
  BY <1>1, <1>2, <1>4, FileMade
<1> QED BY <1>3, <1>5

\* What is to be shown of an import that ends.
LEMMA TypeEnds ==
  ASSUME TypeInv, Ends(outcome'), outcome' \in {"imported", "failed"},
         target' = target, restarts' = restarts, FileSystem(fs'),
         outcome' = "imported" => ~Inside
  PROVE  TypeInv'
<1>1. TypeOK'
  BY DEF TypeInv, TypeOK, Ends
<1>2. todo' = <<>> /\ pc' = "record" /\ target \in Path
  BY DEF Ends, TypeInv, CallsInv
<1>3. todo' \in Seq(CallType) /\ Len(todo') = 0
  BY <1>2
<1>4. CallsInv'
  BY <1>2, <1>3, CallsNext
<1>5. EndlessInv'
  BY <1>2 DEF EndlessInv, Inside
<1> QED BY <1>1, <1>4, <1>5 DEF TypeInv

\* The types hold of every start.
LEMMA TypeInit == Init => TypeInv
<1> SUFFICES ASSUME Init PROVE TypeInv
  OBVIOUS
<1>1. FileSystem(fs) /\ target \in Path
  BY ImportAssumption DEF Init
<1>2. /\ todo \in Seq(CallType) /\ Len(todo) = 1
      /\ todo[1].src = Src /\ todo[1].dst = Dst
      /\ IsPrefix(Src, Src) /\ Dst = Target(Src)
  BY <1>1, FirstCall DEF Init
<1>3. TypeOK
  BY <1>1, ImportAssumption DEF Init, TypeOK
<1>4. CallsInv
  BY <1>1, <1>2 DEF Init, CallsInv
<1>5. Inside => IsPrefix(Src, Dst)
  BY <1>1, SrcIs, DstIs, PrefixOrder DEF Inside
<1>6. EndlessInv
  BY <1>2, <1>5 DEF Init, EndlessInv
<1> QED BY <1>3, <1>4, <1>6 DEF TypeInv

\* Every step keeps them.
LEMMA TypeNext == TypeInv /\ [Next]_vars => TypeInv'
<1> SUFFICES ASSUME TypeInv, [Next]_vars PROVE TypeInv'
  OBVIOUS
<1>0. FileSystem(fs) /\ target \in Path /\ todo \in Seq(CallType) /\ CallsInv
  BY DEF TypeInv, TypeOK, CallsInv
<1>1. ASSUME CopyDir PROVE TypeInv'
  <2>1. todo # <<>> /\ target' = target /\ pc = "copy" /\ pc' = "copy"
    BY <1>1 DEF CopyDir
  <2>2. PICK c : c = Head(todo)
    OBVIOUS
  <2>3. /\ c = todo[1] /\ c.src \in Path /\ c.dst \in Path
        /\ IsPrefix(Src, c.src) /\ c.dst = Target(c.src)
        /\ Len(c.dst) = Len(target) + Len(c.src) - Len(DownloadDir)
        /\ Len(todo) \in Nat /\ Len(todo) >= 1
    BY <1>0, <2>1, <2>2, HeadIs
  <2>4. /\ FileSystem(fs')
        /\ DOMAIN fs' = DOMAIN fs \cup Above(c.dst)
        /\ todo' \in Seq(CallType)
        /\ \A i \in 1..Len(todo') :
             IsPrefix(Src, todo'[i].src) /\ todo'[i].dst = Target(todo'[i].src)
        /\ \A q \in DOMAIN fs' :
             IsPrefix(c.src, q) /\ Len(q) = Len(c.src) + 1 =>
               \E i \in 1..Len(todo') : todo'[i].src = q /\ todo'[i].dst = Target(q)
        /\ \A i \in 2..Len(todo) : \E j \in 1..Len(todo') : todo'[j] = todo[i]
    BY <1>0, <1>1, <2>2, CopyDirCalls
  <2>5. TypeOK'
    BY <1>1, <2>4 DEF TypeInv, TypeOK, CopyDir
  <2>6. CallsInv'
    BY <1>0, <2>1, <2>4, CallsNext
  <2>7. ASSUME Inside PROVE \E i \in 1..Len(todo') : IsPrefix(todo'[i].src, todo'[i].dst)
    <3>1. PICK i \in 1..Len(todo) : IsPrefix(todo[i].src, todo[i].dst)
      BY <2>1, <2>7 DEF TypeInv, EndlessInv
    <3>2. CASE i = 1
      <4>1. Len(c.src) < Len(c.dst) /\ IsPrefix(c.src, c.dst)
        <5>1. Len(target) >= Len(DownloadDir) + 1 /\ Len(target) \in Nat
          BY <1>0, <2>7, SrcIs, DstIs DEF Inside, IsPrefix
        <5>2. Len(c.src) \in Nat
          BY <2>3, LenProperties DEF Path
        <5>3. IsPrefix(c.src, c.dst)
          BY <2>3, <3>1, <3>2
        <5>4. Len(c.src) < Len(target) + Len(c.src) - Len(DownloadDir)
          BY <5>1, <5>2, SrcIs
        <5> QED BY <2>3, <5>3, <5>4
      <4>2. PICK q \in Path : /\ q = SubSeq(c.dst, 1, Len(c.src) + 1)
                              /\ Len(q) = Len(c.src) + 1
                              /\ IsPrefix(c.src, q) /\ IsPrefix(q, c.dst)
        BY <2>3, <4>1, LenProperties, ChildOf DEF Path
      <4>3. Len(q) >= 1
        BY <2>3, <4>2, LenProperties DEF Path
      <4>4. q \in DOMAIN fs'
        BY <2>3, <2>4, <4>2, <4>3, AboveIs
      <4>5. IsPrefix(Src, q)
        BY <2>3, <4>2, SrcIs, PrefixOrder
      <4>6. Target(q) \in Path /\ IsPrefix(c.dst, Target(q))
        BY <1>0, <2>3, <4>2, <4>5, TargetIs, TargetOrder
      <4>7. IsPrefix(q, Target(q))
        BY <2>3, <4>2, <4>6, PrefixOrder
      <4> QED BY <2>4, <4>2, <4>4, <4>7
    <3>3. CASE i # 1
      BY <2>3, <2>4, <3>1, <3>3
    <3> QED BY <3>2, <3>3
  <2>8. EndlessInv'
    BY <1>1, <2>1, <2>7 DEF TypeInv, TypeOK, EndlessInv, Inside, CopyDir
  <2> QED BY <2>5, <2>6, <2>8 DEF TypeInv
<1>2. ASSUME CopyDirFails PROVE TypeInv'
  BY <1>0, <1>2, TypeEnds DEF CopyDirFails, Ends
<1>3. ASSUME OpenFile PROVE TypeInv'
  <2>1. PICK c : c = Head(todo)
    OBVIOUS
  <2>2. /\ todo # <<>> /\ todo' = todo /\ target' = target
        /\ pc = "copy" /\ pc' = "write" /\ outcome' = outcome /\ restarts' = restarts
        /\ ~IsDir(c.src) /\ DirsFit(Front(c.dst)) /\ FileFits(c)
        /\ fs' = With(WithDirs(Front(c.dst)), [p \in {c.dst} |-> "empty"])
        /\ data' = IF c.src = c.dst THEN "empty" ELSE fs[c.src]
    BY <1>3, <2>1 DEF OpenFile
  <2>3. /\ c = todo[1] /\ c.src \in Path /\ c.dst \in Path
        /\ IsPrefix(Src, c.src) /\ c.dst = Target(c.src)
        /\ Len(c.dst) = Len(target) + Len(c.src) - Len(DownloadDir)
        /\ Len(c.dst) >= 1 /\ Len(c.dst) \in Nat
    BY <1>0, <2>1, <2>2, HeadIs
  <2>4. FileSystem(fs') /\ fs'[c.dst] = "empty"
    BY <1>0, <1>3, <2>1, OpenFileFiles
  <2>5. c.src \in DOMAIN fs /\ fs[c.src] # "dir"
    BY <2>2 DEF FileFits, Exists, IsDir
  <2>6. data' # "none"
    BY <1>0, <2>2, <2>5 DEF FileSystem
  <2>7. TypeOK'
    BY <2>2, <2>4, <2>6 DEF TypeInv, TypeOK
  <2>8. CallsInv'
    <3>1. \A i \in 1..Len(todo') :
            IsPrefix(Src, todo'[i].src) /\ todo'[i].dst = Target(todo'[i].src)
      BY <1>0, <2>2 DEF CallsInv
    <3>2. fs'[Head(todo').dst] # "dir"
      BY <2>1, <2>2, <2>4
    <3> QED BY <1>0, <2>2, <3>1, <3>2, CallsNext
  <2>9. ASSUME Inside, IsPrefix(todo[1].src, todo[1].dst) PROVE FALSE
    <3>1. IsPrefix(c.src, c.dst)
      BY <2>3, <2>9
    <3>2. /\ Len(target) >= Len(DownloadDir) + 1 /\ Len(target) \in Nat
          /\ Len(c.src) \in Nat /\ Len(c.src) >= 1
      <4>1. Len(target) >= Len(DownloadDir) + 1 /\ Len(target) \in Nat
        BY <1>0, <2>9, SrcIs, DstIs DEF Inside, IsPrefix
      <4>2. Len(c.src) \in Nat /\ Len(c.src) >= Len(DownloadDir) + 1
        BY <1>0, <2>3, TargetIs
      <4> QED BY <4>1, <4>2, SrcIs
    <3>3. Len(c.src) < Len(target) + Len(c.src) - Len(DownloadDir)
      BY <3>2, SrcIs
    <3>4. c.src # c.dst
      BY <2>3, <3>2, <3>3
    <3>5. c.src \in Above(c.dst)
      BY <2>3, <3>1, <3>2, AboveIs
    <3>6. c.src \in Above(Front(c.dst))
      BY <2>3, <3>4, <3>5, FrontIs
    <3> QED BY <2>2, <2>5, <3>6 DEF DirsFit, Exists
  <2>10. EndlessInv'
    BY <2>2, <2>9 DEF TypeInv, TypeOK, EndlessInv, Inside
  <2> QED BY <2>7, <2>8, <2>10 DEF TypeInv
<1>4. ASSUME OpenFileFails PROVE TypeInv'
  <2>1. PICK c : c = Head(todo)
    OBVIOUS
  <2>2. /\ todo # <<>> /\ Ends("failed") /\ target' = target /\ restarts' = restarts
        /\ \/ fs' = fs
           \/ DirsFit(Front(c.dst)) /\ fs' = WithDirs(Front(c.dst))
    BY <1>4, <2>1 DEF OpenFileFails
  <2>3. Front(c.dst) \in Path
    BY <1>0, <2>1, <2>2, HeadIs, FrontIs
  <2>4. FileSystem(fs')
    BY <1>0, <2>2, <2>3, DirsMade
  <2> QED BY <2>2, <2>4, TypeEnds DEF Ends
<1>5. ASSUME WriteFile PROVE TypeInv'
  <2>1. PICK c : c = Head(todo)
    OBVIOUS
  <2>2. /\ pc = "write" /\ pc' = "copy" /\ data # "none" /\ data' = "none" /\ todo # <<>>
        /\ target' = target /\ outcome' = outcome /\ restarts' = restarts
        /\ todo' = Tail(todo)
        /\ fs' = IF Exists(c.dst) THEN [fs EXCEPT ![c.dst] = data] ELSE fs
    BY <1>5, <2>1 DEF WriteFile, TypeInv, TypeOK
  <2>3. /\ Len(todo) \in Nat /\ Len(todo) >= 1
        /\ todo' \in Seq(CallType) /\ Len(todo') = Len(todo) - 1
        /\ \A i \in 1..Len(todo) - 1 : todo'[i] = todo[i + 1]
    BY <1>0, <2>2, HeadIs
  <2>4. c.dst \in DOMAIN fs => fs[c.dst] # "dir"
    BY <1>0, <2>1, <2>2 DEF CallsInv
  <2>5. FileSystem(fs')
    BY <1>0, <2>2, <2>4, TreeKept DEF Exists
  <2>6. TypeOK'
    BY <2>2, <2>5 DEF TypeInv, TypeOK
  <2>7. \A i \in 1..Len(todo') :
          IsPrefix(Src, todo'[i].src) /\ todo'[i].dst = Target(todo'[i].src)
    <3> SUFFICES ASSUME NEW i \in 1..Len(todo')
                 PROVE  IsPrefix(Src, todo'[i].src) /\ todo'[i].dst = Target(todo'[i].src)
      OBVIOUS
    <3>1. i + 1 \in 1..Len(todo) /\ todo'[i] = todo[i + 1]
      BY <2>3
    <3> QED BY <1>0, <3>1 DEF CallsInv
  <2>8. CallsInv'
    BY <1>0, <2>2, <2>3, <2>7, CallsNext
  <2>9. ASSUME Inside PROVE \E i \in 1..Len(todo') : IsPrefix(todo'[i].src, todo'[i].dst)
    <3>1. PICK i \in 1..Len(todo) : i # 1 /\ IsPrefix(todo[i].src, todo[i].dst)
      BY <2>2, <2>9 DEF TypeInv, EndlessInv
    <3>2. i - 1 \in 1..Len(todo') /\ i - 1 \in 1..Len(todo) - 1 /\ (i - 1) + 1 = i
      BY <2>3, <3>1
    <3> QED BY <2>3, <3>1, <3>2
  <2>10. EndlessInv'
    BY <2>2, <2>9 DEF TypeInv, TypeOK, EndlessInv, Inside
  <2> QED BY <2>6, <2>8, <2>10 DEF TypeInv
<1>6. ASSUME WriteFileFails PROVE TypeInv'
  BY <1>0, <1>6, TypeEnds DEF WriteFileFails, Ends
<1>7. ASSUME CopyDone PROVE TypeInv'
  <2>1. ~Inside
    BY <1>7 DEF CopyDone, TypeInv, EndlessInv
  <2> QED BY <1>0, <1>7, <2>1, TypeEnds DEF CopyDone, Ends
<1>8. ASSUME Record PROVE TypeInv'
  <2>1. TypeOK'
    BY <1>8 DEF Record, TypeInv, TypeOK
  <2>2. CallsInv'
    <3>1. \A i \in 1..Len(todo') :
            IsPrefix(Src, todo'[i].src) /\ todo'[i].dst = Target(todo'[i].src)
      BY <1>0, <1>8 DEF Record, CallsInv
    <3> QED BY <1>0, <1>8, <3>1, CallsNext DEF Record
  <2>3. EndlessInv'
    BY <1>8 DEF Record, TypeInv, EndlessInv, Inside
  <2> QED BY <2>1, <2>2, <2>3 DEF TypeInv
<1>9. ASSUME Restart PROVE TypeInv'
  <2>1. /\ todo' = <<Call(Src, Dst)>> /\ pc' = "copy" /\ data' = "none" /\ outcome' = "none"
        /\ fs' = fs /\ target' = target /\ restarts' = restarts - 1 /\ restarts > 0
    BY <1>9 DEF Restart
  <2>2. /\ todo' \in Seq(CallType) /\ Len(todo') = 1
        /\ todo'[1].src = Src /\ todo'[1].dst = Dst
        /\ IsPrefix(Src, Src) /\ Dst = Target(Src)
    BY <1>0, <2>1, FirstCall
  <2>3. TypeOK'
    BY <2>1, ImportAssumption DEF TypeInv, TypeOK
  <2>4. CallsInv'
    BY <1>0, <2>1, <2>2, CallsNext
  <2>5. Inside => IsPrefix(Src, Dst)
    BY <1>0, SrcIs, DstIs, PrefixOrder DEF Inside
  <2>6. EndlessInv'
    BY <2>1, <2>2, <2>5 DEF EndlessInv, Inside
  <2> QED BY <2>3, <2>4, <2>6 DEF TypeInv
<1>10. ASSUME NEW p \in DOMAIN fs, Vanish(p) PROVE TypeInv'
  <2>1. /\ fs' = [q \in DOMAIN fs \ {r \in DOMAIN fs : IsPrefix(p, r)} |-> fs[q]]
        /\ UNCHANGED <<target, todo, data, pc, outcome, restarts>>
    BY <1>10 DEF Vanish
  <2>2. FileSystem(fs')
    <3>1. p \in Path
      BY <1>0 DEF FileSystem
    <3> QED BY <1>0, <2>1, <3>1, TreeKept, Zenon
  <2>3. TypeOK'
    BY <2>1, <2>2 DEF TypeInv, TypeOK
  <2>4. \A q \in DOMAIN fs' : q \in DOMAIN fs /\ fs'[q] = fs[q]
    BY <2>1
  <2>5. CallsInv'
    <3>1. \A i \in 1..Len(todo') :
            IsPrefix(Src, todo'[i].src) /\ todo'[i].dst = Target(todo'[i].src)
      BY <1>0, <2>1 DEF CallsInv
    <3>2. pc' = "write" /\ Head(todo').dst \in DOMAIN fs' => fs'[Head(todo').dst] # "dir"
      BY <1>0, <2>1, <2>4 DEF CallsInv
    <3> QED BY <1>0, <2>1, <3>1, <3>2, CallsNext
  <2>6. EndlessInv'
    BY <2>1 DEF TypeInv, EndlessInv, Inside
  <2> QED BY <2>3, <2>5, <2>6 DEF TypeInv
<1>11. ASSUME UNCHANGED vars PROVE TypeInv'
  <2>1. TypeOK' /\ EndlessInv'
    BY <1>11 DEF vars, TypeInv, TypeOK, EndlessInv, Inside
  <2>2. \A i \in 1..Len(todo') :
          IsPrefix(Src, todo'[i].src) /\ todo'[i].dst = Target(todo'[i].src)
    BY <1>0, <1>11 DEF vars, CallsInv
  <2>3. CallsInv'
    BY <1>0, <1>11, <2>2, CallsNext DEF vars, CallsInv
  <2> QED BY <2>1, <2>3 DEF TypeInv
<1> QED BY <1>1, <1>2, <1>3, <1>4, <1>5, <1>6, <1>7, <1>8, <1>9, <1>10, <1>11
        DEF Next, Step

\* The file system stays a tree, and a copy into its own content, which makes a
\* directory to copy for each that it copies, never comes to an end.
THEOREM TypeInvariance == Spec => []TypeInv
BY TypeInit, TypeNext, PTL DEF Spec

\* The types of the state, wherever the target is.
THEOREM TypeCorrect == Spec => []TypeOK
BY TypeInvariance, PTL DEF TypeInv

-----------------------------------------------------------------------------
(* The copy. *)

\* A target in the content begins where nothing is.
LEMMA InsideNew ==
  ASSUME TypeInv, CopyInv, Inside, NEW p \in DOMAIN first
  PROVE  ~IsPrefix(Dst, p)
<1> SUFFICES ASSUME IsPrefix(Dst, p) PROVE FALSE
  OBVIOUS
<1>1. target \in Path /\ FileSystem(first) /\ Dst \notin DOMAIN first
  BY DEF TypeInv, CallsInv, CopyInv, Apart, Inside, Dst
<1>2. Dst \in Path /\ Len(Dst) >= 1 /\ p \in Path
  BY <1>1, DstIs DEF FileSystem
<1>3. Dst \in Above(p)
  BY <1>2, AboveIs
<1> QED BY <1>1, <1>3 DEF FileSystem

\* Nothing that the import makes or changes is in content apart from the target.
LEMMA NoneInContent ==
  ASSUME TypeInv, CopyInv, ~Inside, NEW p \in Path, IsPrefix(Dst, p)
  PROVE  \A q \in Path : IsPrefix(q, p) => ~IsPrefix(Src, q)
BY NoneMeet DEF TypeInv, CallsInv, CopyInv

\* The content is as it was.
LEMMA SourceSame ==
  ASSUME TypeInv, CopyInv
  PROVE  SourceKept
<1> SUFFICES ASSUME NEW p \in Content \ gone
             PROVE  p \in DOMAIN fs /\ fs[p] = first[p]
  BY DEF SourceKept
<1>1. p \in DOMAIN first /\ IsPrefix(Src, p)
  BY DEF Content
<1>2. p \in DOMAIN fs /\ (fs[p] # first[p] => IsPrefix(Dst, p))
  BY <1>1 DEF CopyInv, KeptInv
<1>3. p \in Path
  BY <1>1 DEF CopyInv, FileSystem
<1>4. ~IsPrefix(Dst, p)
  <2>1. CASE Inside
    BY <1>1, <2>1, InsideNew
  <2>2. CASE ~Inside
    BY <1>1, <1>3, <2>2, NoneInContent, PrefixOrder
  <2> QED BY <2>1, <2>2
<1> QED BY <1>2, <1>4

\* What is to be shown of a step that changes files.
LEMMA KeptNext ==
  ASSUME TypeInv, CopyInv, first' = first, gone' = gone, target' = target,
         DOMAIN fs \subseteq DOMAIN fs',
         \A q \in DOMAIN fs :
           \/ fs'[q] = fs[q]
           \/ /\ fs[q] # "dir" /\ IsPrefix(Dst, q)
              /\ q \in DOMAIN first => \E r \in Content : q = Target(r)
  PROVE  KeptInv'
<1>1. ASSUME NEW p \in DOMAIN first \ gone
      PROVE  /\ p \in DOMAIN fs'
             /\ fs'[p] # first[p] =>
                  /\ IsPrefix(Dst, p) /\ first[p] # "dir"
                  /\ \E q \in Content : p = Target(q)
  <2>1. /\ p \in DOMAIN fs
        /\ fs[p] # first[p] =>
             /\ IsPrefix(Dst, p) /\ first[p] # "dir"
             /\ \E q \in Content : p = Target(q)
    BY DEF CopyInv, KeptInv
  <2>2. CASE fs'[p] = fs[p]
    BY <2>1, <2>2
  <2>3. CASE fs'[p] # fs[p]
    BY <2>1, <2>3
  <2> QED BY <2>2, <2>3
<1> QED BY <1>1 DEF KeptInv, Content, Target, Dst

\* What is to be shown of a step that makes nothing in the content.
LEMMA BelowNext ==
  ASSUME CopyInv, first' = first, target' = target,
         ~Inside => \A q \in DOMAIN fs' : IsPrefix(Src, q) => q \in DOMAIN fs /\ fs'[q] = fs[q]
  PROVE  BelowInv'
BY DEF CopyInv, BelowInv, Inside

\* What is to be shown of a step for the copies to come.
LEMMA CoveredNext ==
  ASSUME first' = first, target' = target,
         ~Inside /\ (pc' \in {"copy", "write"} \/ outcome' = "imported") =>
           \A p \in Content \ gone' :
             \/ Target(p) \in DOMAIN fs' /\ fs'[Target(p)] = first[p]
             \/ \E i \in 1..Len(todo') : IsPrefix(todo'[i].src, p)
  PROVE  CoveredInv'
BY DEF CoveredInv, Content, Target, Inside

\* All holds of every start.
LEMMA CopyInit == ContentApart /\ Init => CopyInv
<1> SUFFICES ASSUME ContentApart, Init PROVE CopyInv
  OBVIOUS
<1>1. FileSystem(first) /\ target \in Path /\ Apart(first, target) /\ fs = first
  BY ImportAssumption DEF Init, ContentApart
<1>2. Len(todo) = 1 /\ todo[1].src = Src
  BY <1>1, FirstCall DEF Init
<1>3. KeptInv /\ BelowInv
  BY <1>1 DEF KeptInv, BelowInv
<1>4. WriteInv
  BY DEF Init, WriteInv
<1>5. CoveredInv
  BY <1>2 DEF CoveredInv, Content
<1> QED BY <1>1, <1>3, <1>4, <1>5 DEF CopyInv

\* Every step keeps it.
LEMMA CopyNext == TypeInv /\ CopyInv /\ [Next]_vars => CopyInv'
<1> SUFFICES ASSUME TypeInv, CopyInv, [Next]_vars PROVE CopyInv'
  OBVIOUS
<1>0. /\ FileSystem(fs) /\ FileSystem(first) /\ Apart(first, target) /\ target \in Path
      /\ CallsInv /\ KeptInv /\ BelowInv /\ WriteInv /\ CoveredInv
      /\ first' = first /\ target' = target
  BY DEF TypeInv, TypeOK, CallsInv, CopyInv, Next, Step, CopyDir, CopyDirFails, OpenFile,
         OpenFileFails, WriteFile, WriteFileFails, CopyDone, Record, Restart, Vanish, vars
<1>00. FileSystem(first)' /\ Apart(first, target)'
  BY <1>0 DEF FileSystem, Apart
<1>k. \A p \in Content \ gone : p \in DOMAIN fs /\ fs[p] = first[p]
  BY SourceSame DEF SourceKept
<1>c. \A p \in Content : /\ p \in DOMAIN first /\ p \in Path
                         /\ IsPrefix(Src, p) /\ first[p] # "dir"
  BY <1>0 DEF Content, FileSystem
<1>n. SUFFICES KeptInv' /\ BelowInv' /\ WriteInv' /\ CoveredInv'
  BY <1>00 DEF CopyInv
<1>s. ASSUME fs' = fs, gone' = gone, pc' # "write"
      PROVE  KeptInv' /\ BelowInv' /\ WriteInv'
  <2>1. KeptInv'
    BY <1>0, <1>s, KeptNext
  <2>2. BelowInv'
    BY <1>0, <1>s, BelowNext
  <2>3. WriteInv'
    BY <1>s DEF WriteInv
  <2> QED BY <2>1, <2>2, <2>3
<1>1. ASSUME CopyDir PROVE KeptInv' /\ BelowInv' /\ WriteInv' /\ CoveredInv'
  <2>1. todo # <<>> /\ pc = "copy" /\ pc' = "copy" /\ gone' = gone /\ IsDir(Head(todo).src)
    BY <1>1 DEF CopyDir
  <2>2. PICK c : c = Head(todo)
    OBVIOUS
  <2>3. /\ c = todo[1] /\ c.src \in Path /\ c.dst \in Path
        /\ IsPrefix(Src, c.src) /\ IsPrefix(Dst, c.dst)
        /\ Len(todo) \in Nat /\ Len(todo) >= 1
    BY <1>0, <2>1, <2>2, HeadIs
  <2>4. /\ FileSystem(fs')
        /\ DOMAIN fs' = DOMAIN fs \cup Above(c.dst)
        /\ \A q \in DOMAIN fs : fs'[q] = fs[q]
        /\ \A q \in DOMAIN fs' :
             IsPrefix(c.src, q) /\ Len(q) = Len(c.src) + 1 =>
               \E i \in 1..Len(todo') : todo'[i].src = q /\ todo'[i].dst = Target(q)
        /\ \A i \in 2..Len(todo) : \E j \in 1..Len(todo') : todo'[j] = todo[i]
    BY <1>0, <1>1, <2>2, CopyDirCalls
  <2>5. KeptInv'
    BY <1>0, <2>1, <2>4, KeptNext
  <2>6. BelowInv'
    <3>1. ~Inside => \A q \in Above(c.dst) : ~IsPrefix(Src, q)
      BY <2>3, AboveIs, NoneInContent
    <3> QED BY <1>0, <2>4, <3>1, BelowNext
  <2>7. WriteInv'
    BY <2>1 DEF WriteInv
  <2>8. CoveredInv'
    <3> SUFFICES ASSUME ~Inside, NEW p \in Content \ gone,
                        ~(Target(p) \in DOMAIN fs' /\ fs'[Target(p)] = first[p])
                 PROVE  \E i \in 1..Len(todo') : IsPrefix(todo'[i].src, p)
      BY <1>0, <2>1, CoveredNext
    <3>1. PICK i \in 1..Len(todo) : IsPrefix(todo[i].src, p)
      BY <1>0, <2>1, <2>4 DEF CoveredInv
    <3>2. CASE i = 1
      <4>1. IsPrefix(c.src, p) /\ p \in Path /\ p \in DOMAIN fs /\ fs[p] # "dir"
        BY <1>c, <1>k, <2>3, <3>1, <3>2
      <4>2. Len(c.src) < Len(p) /\ Len(c.src) \in Nat
        <5>1. c.src # p
          BY <2>1, <2>2, <4>1 DEF IsDir
        <5>2. Len(c.src) <= Len(p) /\ \A j \in 1..Len(c.src) : c.src[j] = p[j]
          BY <2>3, <4>1, PrefixIs
        <5>3. Len(c.src) \in Nat /\ Len(p) \in Nat
          BY <2>3, <4>1, LenProperties DEF Path
        <5>4. Len(c.src) # Len(p)
          BY <2>3, <4>1, <5>1, <5>2, SeqEqual DEF Path
        <5> QED BY <5>2, <5>3, <5>4
      <4>3. PICK q \in Path : Len(q) = Len(c.src) + 1 /\ IsPrefix(c.src, q) /\ IsPrefix(q, p)
        BY <2>3, <4>1, <4>2, ChildOf, LenProperties DEF Path
      <4>4. q \in Above(p)
        BY <4>1, <4>2, <4>3, AboveIs
      <4>5. q \in DOMAIN fs
        BY <1>0, <4>1, <4>4 DEF FileSystem
      <4> QED BY <2>4, <4>3, <4>5
    <3>3. CASE i # 1
      <4>1. i \in 2..Len(todo)
        BY <2>3, <3>3
      <4> QED BY <2>4, <3>1, <4>1
    <3> QED BY <3>2, <3>3
  <2> QED BY <2>5, <2>6, <2>7, <2>8
<1>2. ASSUME Ends("failed"), gone' = gone,
             DOMAIN fs \subseteq DOMAIN fs', \A q \in DOMAIN fs : fs'[q] = fs[q],
             ~Inside => \A q \in DOMAIN fs' : IsPrefix(Src, q) => q \in DOMAIN fs
      PROVE  KeptInv' /\ BelowInv' /\ WriteInv' /\ CoveredInv'
  <2>1. KeptInv'
    BY <1>0, <1>2, KeptNext
  <2>2. BelowInv'
    BY <1>0, <1>2, BelowNext
  <2>3. WriteInv' /\ CoveredInv'
    BY <1>2 DEF Ends, WriteInv, CoveredInv
  <2> QED BY <2>1, <2>2, <2>3
<1>3. ASSUME CopyDirFails \/ WriteFileFails
      PROVE  KeptInv' /\ BelowInv' /\ WriteInv' /\ CoveredInv'
  BY <1>2, <1>3 DEF CopyDirFails, WriteFileFails
<1>4. ASSUME OpenFile PROVE KeptInv' /\ BelowInv' /\ WriteInv' /\ CoveredInv'
  <2>1. PICK c : c = Head(todo)
    OBVIOUS
  <2>2. /\ todo # <<>> /\ todo' = todo /\ pc = "copy" /\ pc' = "write" /\ gone' = gone
        /\ ~IsDir(c.src) /\ FileFits(c)
        /\ data' = IF c.src = c.dst THEN "empty" ELSE fs[c.src]
    BY <1>4, <2>1 DEF OpenFile
  <2>3. /\ c = todo[1] /\ c.src \in Path /\ c.dst \in Path
        /\ IsPrefix(Src, c.src) /\ c.dst = Target(c.src) /\ IsPrefix(Dst, c.dst)
        /\ Len(c.dst) >= 1 /\ Len(todo) \in Nat /\ Len(todo) >= 1
    BY <1>0, <2>1, <2>2, HeadIs
  <2>4. /\ DOMAIN fs' = DOMAIN fs \cup Above(c.dst)
        /\ \A q \in DOMAIN fs : q # c.dst => fs'[q] = fs[q]
    BY <1>0, <1>4, <2>1, OpenFileFiles
  <2>5. /\ c.src \in DOMAIN fs /\ fs[c.src] # "dir"
        /\ c.dst \in DOMAIN fs => fs[c.dst] # "dir"
    BY <2>2 DEF FileFits, Exists, IsDir
  <2>6. ~Inside => c.src \in Content /\ first[c.src] = fs[c.src]
    BY <1>0, <2>3, <2>5 DEF BelowInv, Content
  <2>7. KeptInv'
    <3>1. c.dst \in DOMAIN first => \E r \in Content : c.dst = Target(r)
      BY <2>3, <2>6, InsideNew
    <3>2. \A q \in DOMAIN fs :
            \/ fs'[q] = fs[q]
            \/ /\ fs[q] # "dir" /\ IsPrefix(Dst, q)
               /\ q \in DOMAIN first => \E r \in Content : q = Target(r)
      BY <2>3, <2>4, <2>5, <3>1
    <3> QED BY <1>0, <2>2, <2>4, <3>2, KeptNext
  <2>8. ~Inside => \A q \in Path : IsPrefix(q, c.dst) => ~IsPrefix(Src, q)
    BY <2>3, NoneInContent
  <2>9. ~Inside => \A q \in Above(c.dst) : ~IsPrefix(Src, q)
    BY <2>3, <2>8, AboveIs
  <2>10. c.dst \in Above(c.dst)
    BY <2>3, AboveFinite
  <2>11. BelowInv'
    BY <1>0, <2>4, <2>9, <2>10, BelowNext
  <2>12. WriteInv'
    <3>1. ASSUME ~Inside PROVE data' = first[c.src]
      <4>1. c.src # c.dst
        BY <2>3, <2>9, <2>10, <3>1
      <4> QED BY <2>2, <2>6, <3>1, <4>1
    <3>2. ~Inside => c.src \in Content /\ data' = first[c.src] /\ c.dst \in DOMAIN fs'
      BY <2>4, <2>6, <2>10, <3>1
    <3> QED BY <1>0, <2>1, <2>2, <3>2 DEF WriteInv, Inside, Content
  <2>13. CoveredInv'
    <3> SUFFICES ASSUME ~Inside, NEW p \in Content \ gone
                 PROVE  \/ Target(p) \in DOMAIN fs' /\ fs'[Target(p)] = first[p]
                        \/ \E i \in 1..Len(todo') : IsPrefix(todo'[i].src, p)
      BY <1>0, <2>2, CoveredNext
    <3>1. CASE \E i \in 1..Len(todo) : IsPrefix(todo[i].src, p)
      BY <2>2, <3>1
    <3>2. CASE Target(p) \in DOMAIN fs /\ fs[Target(p)] = first[p]
      <4>1. CASE Target(p) # c.dst
        BY <2>4, <3>2, <4>1
      <4>2. CASE Target(p) = c.dst
        <5>1. p = c.src
          BY <1>0, <1>c, <2>3, <4>2, TargetInjective
        <5>2. 1 \in 1..Len(todo) /\ IsPrefix(todo[1].src, p)
          BY <2>3, <5>1, PrefixOrder
        <5> QED BY <2>2, <5>2
      <4> QED BY <4>1, <4>2
    <3> QED BY <1>0, <2>2, <3>1, <3>2 DEF CoveredInv
  <2> QED BY <2>7, <2>11, <2>12, <2>13
<1>5. ASSUME OpenFileFails PROVE KeptInv' /\ BelowInv' /\ WriteInv' /\ CoveredInv'
  <2>1. PICK c : c = Head(todo)
    OBVIOUS
  <2>2. /\ todo # <<>> /\ Ends("failed") /\ gone' = gone
        /\ \/ fs' = fs
           \/ DirsFit(Front(c.dst)) /\ fs' = WithDirs(Front(c.dst))
    BY <1>5, <2>1 DEF OpenFileFails
  <2>3. c.dst \in Path /\ Len(c.dst) >= 1 /\ IsPrefix(Dst, c.dst)
    BY <1>0, <2>1, <2>2, HeadIs
  <2>4. Front(c.dst) \in Path /\ Above(Front(c.dst)) \subseteq Above(c.dst)
    BY <2>3, FrontIs
  <2>5. /\ DOMAIN fs \subseteq DOMAIN fs' /\ \A q \in DOMAIN fs : fs'[q] = fs[q]
        /\ DOMAIN fs' \subseteq DOMAIN fs \cup Above(c.dst)
    BY <1>0, <2>2, <2>4, DirsMade
  <2>6. ~Inside => \A q \in Above(c.dst) : ~IsPrefix(Src, q)
    BY <2>3, AboveIs, NoneInContent
  <2> QED BY <1>2, <2>2, <2>5, <2>6
<1>6. ASSUME WriteFile PROVE KeptInv' /\ BelowInv' /\ WriteInv' /\ CoveredInv'
  <2>1. PICK c : c = Head(todo)
    OBVIOUS
  <2>2. /\ pc = "write" /\ pc' = "copy" /\ todo # <<>> /\ todo' = Tail(todo) /\ gone' = gone
        /\ fs' = IF Exists(c.dst) THEN [fs EXCEPT ![c.dst] = data] ELSE fs
    BY <1>6, <2>1 DEF WriteFile, TypeInv, TypeOK
  <2>3. /\ c = todo[1] /\ c.src \in Path /\ c.dst \in Path
        /\ IsPrefix(Src, c.src) /\ c.dst = Target(c.src) /\ IsPrefix(Dst, c.dst)
        /\ Len(todo) \in Nat /\ Len(todo) >= 1
        /\ Len(todo') = Len(todo) - 1
        /\ \A i \in 1..Len(todo) - 1 : todo'[i] = todo[i + 1]
    BY <1>0, <2>1, <2>2, HeadIs
  <2>4. /\ DOMAIN fs' = DOMAIN fs /\ \A q \in DOMAIN fs : q # c.dst => fs'[q] = fs[q]
        /\ c.dst \in DOMAIN fs => fs'[c.dst] = data
    BY <2>2 DEF Exists
  <2>5. ~Inside => c.src \in Content /\ data = first[c.src] /\ c.dst \in DOMAIN fs
    BY <1>0, <2>1, <2>2 DEF WriteInv
  <2>6. KeptInv'
    <3>1. c.dst \in DOMAIN first => \E r \in Content : c.dst = Target(r)
      BY <2>3, <2>5, InsideNew
    <3>2. c.dst \in DOMAIN fs => fs[c.dst] # "dir"
      BY <1>0, <2>1, <2>2 DEF CallsInv
    <3>3. \A q \in DOMAIN fs :
            \/ fs'[q] = fs[q]
            \/ /\ fs[q] # "dir" /\ IsPrefix(Dst, q)
               /\ q \in DOMAIN first => \E r \in Content : q = Target(r)
      BY <2>3, <2>4, <3>1, <3>2
    <3> QED BY <1>0, <2>2, <2>4, <3>3, KeptNext
  <2>7. BelowInv'
    <3>1. ~Inside => ~IsPrefix(Src, c.dst)
      BY <2>3, NoneInContent, PrefixOrder
    <3> QED BY <1>0, <2>4, <3>1, BelowNext
  <2>8. WriteInv'
    BY <2>2 DEF WriteInv
  <2>9. CoveredInv'
    <3> SUFFICES ASSUME ~Inside, NEW p \in Content \ gone
                 PROVE  \/ Target(p) \in DOMAIN fs' /\ fs'[Target(p)] = first[p]
                        \/ \E i \in 1..Len(todo') : IsPrefix(todo'[i].src, p)
      BY <1>0, <2>2, CoveredNext
    <3>1. CASE p = c.src
      BY <2>3, <2>4, <2>5, <3>1
    <3>2. CASE p # c.src
      <4>1. CASE Target(p) \in DOMAIN fs /\ fs[Target(p)] = first[p]
        <5>1. Target(p) # c.dst
          BY <1>0, <1>c, <2>3, <3>2, TargetInjective
        <5> QED BY <2>4, <4>1, <5>1
      <4>2. ASSUME NEW i \in 1..Len(todo), IsPrefix(todo[i].src, p)
            PROVE  \E j \in 1..Len(todo') : IsPrefix(todo'[j].src, p)
        <5>1. i # 1
          <6> SUFFICES ASSUME i = 1 PROVE FALSE
            OBVIOUS
          <6>1. IsPrefix(c.src, p) /\ Len(c.src) >= 1
            BY <2>3, <4>2, SrcIs, LenProperties DEF IsPrefix, Path
          <6>2. c.src \in Above(p) \ {p}
            BY <1>c, <2>3, <3>2, <6>1, AboveIs
          <6>3. first[c.src] = "dir"
            BY <1>0, <1>c, <6>2 DEF FileSystem
          <6> QED BY <1>c, <2>5, <6>3
        <5>2. i - 1 \in 1..Len(todo') /\ i - 1 \in 1..Len(todo) - 1 /\ (i - 1) + 1 = i
          BY <2>3, <5>1
        <5> QED BY <2>3, <4>2, <5>2
      <4> QED BY <1>0, <2>2, <4>1, <4>2 DEF CoveredInv
    <3> QED BY <3>1, <3>2
  <2> QED BY <2>6, <2>7, <2>8, <2>9
<1>7. ASSUME CopyDone PROVE KeptInv' /\ BelowInv' /\ WriteInv' /\ CoveredInv'
  <2>1. /\ pc = "copy" /\ todo = <<>> /\ todo' = <<>> /\ pc' = "record"
        /\ UNCHANGED <<fs, target, first, gone>>
    BY <1>7 DEF CopyDone, Ends
  <2>2. KeptInv' /\ BelowInv' /\ WriteInv'
    BY <1>s, <2>1
  <2>3. CoveredInv'
    <3>1. ~Inside => \A p \in Content \ gone :
                       Target(p) \in DOMAIN fs /\ fs[Target(p)] = first[p]
      BY <1>0, <2>1 DEF CoveredInv
    <3> QED BY <1>0, <2>1, <3>1, CoveredNext
  <2> QED BY <2>2, <2>3
<1>8. ASSUME Record PROVE KeptInv' /\ BelowInv' /\ WriteInv' /\ CoveredInv'
  <2>1. KeptInv' /\ BelowInv' /\ WriteInv'
    BY <1>s, <1>8 DEF Record
  <2>2. CoveredInv'
    BY <1>0, <1>8, CoveredNext DEF Record, CoveredInv
  <2> QED BY <2>1, <2>2
<1>9. ASSUME Restart PROVE KeptInv' /\ BelowInv' /\ WriteInv' /\ CoveredInv'
  <2>1. KeptInv' /\ BelowInv' /\ WriteInv'
    BY <1>s, <1>9 DEF Restart
  <2>2. Len(todo') = 1 /\ todo'[1].src = Src
    BY <1>0, <1>9, FirstCall DEF Restart
  <2>3. CoveredInv'
    BY <1>0, <1>c, <2>2, CoveredNext
  <2> QED BY <2>1, <2>3
<1>10. ASSUME NEW p \in DOMAIN fs, Vanish(p)
       PROVE  KeptInv' /\ BelowInv' /\ WriteInv' /\ CoveredInv'
  <2>1. /\ fs' = [q \in DOMAIN fs \ {r \in DOMAIN fs : IsPrefix(p, r)} |-> fs[q]]
        /\ gone' = gone \cup {r \in DOMAIN fs : IsPrefix(p, r)}
        /\ UNCHANGED <<todo, data, pc, outcome>>
        /\ IsPrefix(Src, p)
    BY <1>10 DEF Vanish
  <2>2. /\ DOMAIN fs' = {q \in DOMAIN fs : ~IsPrefix(p, q)}
        /\ \A q \in DOMAIN fs' : fs'[q] = fs[q]
    BY <2>1
  <2>3. p \in Path
    BY <1>0 DEF FileSystem
  <2>4. ~Inside => \A q \in Path : IsPrefix(Dst, q) => ~IsPrefix(p, q)
    <3>1. ASSUME ~Inside, NEW q \in Path, IsPrefix(Dst, q), IsPrefix(p, q) PROVE FALSE
      BY <2>1, <2>3, <3>1, NoneInContent
    <3> QED BY <3>1
  <2>5. KeptInv'
    <3>1. ASSUME NEW q \in DOMAIN first \ gone'
          PROVE  /\ q \in DOMAIN fs'
                 /\ fs'[q] # first[q] =>
                      /\ IsPrefix(Dst, q) /\ first[q] # "dir"
                      /\ \E r \in Content : q = Target(r)
      <4>1. q \in DOMAIN first \ gone /\ q \in DOMAIN fs /\ ~IsPrefix(p, q)
        BY <1>0, <2>1 DEF KeptInv
      <4> QED BY <1>0, <2>2, <4>1 DEF KeptInv
    <3> QED BY <1>0, <3>1 DEF KeptInv, Content, Target, Dst
  <2>6. BelowInv'
    BY <1>0, <2>2 DEF BelowInv, Inside
  <2>7. WriteInv'
    <3> SUFFICES ASSUME pc = "write", ~Inside
                 PROVE  /\ Head(todo).src \in Content /\ data = first[Head(todo).src]
                        /\ Head(todo).dst \in DOMAIN fs'
      BY <1>0, <2>1 DEF WriteInv, Inside, Content
    <3>1. /\ Head(todo).src \in Content /\ data = first[Head(todo).src]
          /\ Head(todo).dst \in DOMAIN fs
      BY <1>0 DEF WriteInv
    <3>2. IsPrefix(Dst, Head(todo).dst) /\ Head(todo).dst \in Path
      <4>1. todo # <<>>
        BY DEF TypeInv, TypeOK
      <4> QED BY <1>0, <4>1, HeadIs
    <3> QED BY <2>2, <2>4, <3>1, <3>2
  <2>8. CoveredInv'
    <3> SUFFICES ASSUME ~Inside, pc' \in {"copy", "write"} \/ outcome' = "imported",
                        NEW q \in Content \ gone'
                 PROVE  \/ Target(q) \in DOMAIN fs' /\ fs'[Target(q)] = first[q]
                        \/ \E i \in 1..Len(todo') : IsPrefix(todo'[i].src, q)
      BY <1>0, CoveredNext
    <3>1. \/ Target(q) \in DOMAIN fs /\ fs[Target(q)] = first[q]
          \/ \E i \in 1..Len(todo) : IsPrefix(todo[i].src, q)
      BY <1>0, <2>1 DEF CoveredInv
    <3>2. IsPrefix(Dst, Target(q)) /\ Target(q) \in Path
      BY <1>0, <1>c, SrcIs, DstIs, TargetIs, TargetOrder, PrefixOrder
    <3> QED BY <2>1, <2>2, <2>4, <3>1, <3>2
  <2> QED BY <2>5, <2>6, <2>7, <2>8
<1>11. ASSUME UNCHANGED vars PROVE KeptInv' /\ BelowInv' /\ WriteInv' /\ CoveredInv'
  <2>1. KeptInv' /\ BelowInv' /\ WriteInv'
    BY <1>0, <1>11 DEF vars, KeptInv, BelowInv, WriteInv, Content, Target, Dst, Inside
  <2>2. CoveredInv'
    BY <1>0, <1>11, CoveredNext DEF vars, CoveredInv
  <2> QED BY <2>1, <2>2
<1> QED BY <1>1, <1>3, <1>4, <1>5, <1>6, <1>7, <1>8, <1>9, <1>10, <1>11 DEF Next, Step

\* What an import keeps and what it has still to copy, for a target apart from the
\* content.
THEOREM CopyInvariance ==
  ASSUME ContentApart
  PROVE  Spec => []CopyInv
<1>1. Init => CopyInv
  BY CopyInit
<1> QED BY <1>1, CopyNext, TypeInvariance, PTL DEF Spec

\* An import that reports success has put all of the content into the target, but
\* for what the client took away: for any tree of files, any target apart from the
\* content, any order of listing, any number of restarts.
THEOREM AllCopied ==
  ASSUME ContentApart
  PROVE  Spec => []Complete
<1>1. TypeInv /\ CopyInv => Complete
  <2> SUFFICES ASSUME TypeInv, CopyInv, outcome = "imported" PROVE Complete
    BY DEF Complete
  <2>1. ~Inside
    BY DEF TypeInv, EndlessInv
  <2>2. todo = <<>>
    BY DEF TypeInv, TypeOK
  <2> QED BY <2>1, <2>2 DEF CopyInv, CoveredInv, Complete, Copied
<1> QED BY <1>1, TypeInvariance, CopyInvariance, PTL

\* What is still there of the content is as it was, so that the torrent goes on
\* seeding, whether the import succeeds, fails or starts over.
THEOREM ContentKept ==
  ASSUME ContentApart
  PROVE  Spec => []SourceKept
<1>1. TypeInv /\ CopyInv => SourceKept
  BY SourceSame
<1> QED BY <1>1, TypeInvariance, CopyInvariance, PTL

\* What was in the target directory and around it stays, but for the files whose
\* places files of the content take.
THEOREM RestKept ==
  ASSUME ContentApart
  PROVE  Spec => []OthersKept
<1>1. CopyInv => OthersKept
  BY DEF CopyInv, KeptInv, OthersKept
<1> QED BY <1>1, CopyInvariance, PTL

-----------------------------------------------------------------------------
(* ImportCopy implements ImportTask. *)

LEMMA CopiedStays ==
  ASSUME UNCHANGED <<fs, target, first, gone>>
  PROVE  Copied' = Copied
BY DEF Copied, Content, Target

LEMMA TaskNext ==
  TypeOK /\ Complete /\ Complete' /\ [Next]_vars => [Task!Next]_Task!vars
<1> SUFFICES ASSUME TypeOK, Complete, Complete', [Next]_vars
             PROVE  [Task!Next]_Task!vars
  OBVIOUS
<1>1. Copied \in BOOLEAN /\ Copied' \in BOOLEAN
  BY DEF Copied
<1>2. pc \in {"copy", "write"} => outcome = "none"
  BY DEF TypeOK
<1>3. CASE CopyDir \/ OpenFile \/ WriteFile
  <2>1. outcome = "none" /\ outcome' = outcome /\ pc # "over" /\ pc' # "over"
    BY <1>2, <1>3 DEF CopyDir, OpenFile, WriteFile
  <2> QED BY <1>1, <2>1 DEF Task!Next, Task!Copies
<1>4. CASE CopyDirFails \/ OpenFileFails \/ WriteFileFails
  <2>1. outcome = "none" /\ outcome' = "failed" /\ pc # "over" /\ pc' # "over"
    BY <1>2, <1>4 DEF CopyDirFails, OpenFileFails, WriteFileFails, Ends
  <2> QED BY <1>1, <2>1 DEF Task!Next, Task!Fails
<1>5. CASE CopyDone
  <2>1. outcome = "none" /\ outcome' = "imported" /\ pc # "over" /\ pc' # "over"
    BY <1>2, <1>5 DEF CopyDone, Ends
  <2>2. Copied' = Copied
    BY <1>5, CopiedStays DEF CopyDone
  <2>3. Copied
    BY <2>1, <2>2 DEF Complete
  <2> QED BY <2>1, <2>2, <2>3 DEF Task!Next, Task!Finishes
<1>6. CASE Record
  <2>1. outcome # "none" /\ outcome' = outcome /\ pc # "over" /\ pc' = "over"
    BY <1>6 DEF Record, TypeOK
  <2>2. Copied' = Copied
    BY <1>6, CopiedStays DEF Record
  <2> QED BY <2>1, <2>2 DEF Task!Next, Task!Records
<1>7. CASE Restart
  <2>1. outcome' = "none" /\ pc # "over" /\ pc' # "over"
    BY <1>7 DEF Restart
  <2>2. Copied' = Copied
    BY <1>7, CopiedStays DEF Restart
  <2> QED BY <2>1, <2>2 DEF Task!Next, Task!Again
<1>8. CASE \E p \in DOMAIN fs : Vanish(p)
  <2>1. outcome' = outcome /\ pc # "over" /\ pc' = pc
    BY <1>8 DEF Vanish
  <2>2. CASE outcome = "imported"
    <3>1. Copied /\ Copied'
      BY <2>1, <2>2 DEF Complete
    <3> QED BY <1>1, <2>1, <3>1 DEF Task!vars
  <2>3. CASE outcome # "imported"
    BY <1>1, <2>1, <2>3 DEF Task!Next, Task!Copies
  <2> QED BY <2>2, <2>3
<1>9. CASE UNCHANGED vars
  BY <1>9, CopiedStays DEF vars, Task!vars
<1> QED BY <1>3, <1>4, <1>5, <1>6, <1>7, <1>8, <1>9 DEF Next, Step

\* An import is the task that the poll loop takes it for: a success stays one until
\* it is recorded, whatever the client takes away of the source, a failure needs
\* another attempt, and the record has the last word.
THEOREM Refinement ==
  ASSUME ContentApart
  PROVE  Spec => ImplementsImportTask
<1>1. Init => Task!Init
  <2>1. Copied \in BOOLEAN
    BY DEF Copied
  <2> QED BY <2>1 DEF Init, Task!Init
<1> QED
  BY <1>1, TaskNext, TypeCorrect, AllCopied, PTL DEF Spec, ImplementsImportTask, Task!Spec

=============================================================================
