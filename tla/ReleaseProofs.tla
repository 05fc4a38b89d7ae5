----------------------------- MODULE ReleaseProofs -----------------------------
(***************************************************************************)
(* The safety properties of Release, proved for any kinds of commits, any  *)
(* first version, and any number of commits, failures and days.            *)
(***************************************************************************)
EXTENDS Release, SequenceTheorems, TLAPS

CommitType == [kind : Kind \cup {"other", "release"}, manifest : Version, log : SUBSET Heading]

\* The tags of commits 1..n, if there are any, have a last one, and a commit has
\* one tag at most: latestTag is what git describe finds.
TagsInv ==
  /\ \A t, u \in tags : t.at = u.at => t = u
  /\ \A n \in Nat :
       TagsUpTo(n) # {} => \E t \in TagsUpTo(n) : \A u \in TagsUpTo(n) : u.at <= t.at

Headed(v, log) == \E h \in log : h.version = v

\* Until the first tag there is only the first version, a release commit that was
\* left untagged included.  Headings stay, and there is one of each version tagged.
MainInv ==
  /\ main # <<>>
  /\ tags = {} => \A k \in 1..Len(main) : main[k].manifest = FirstVersion
  /\ \A k \in 1..Len(main) : \A j \in 1..k : main[j].log \subseteq main[k].log
  /\ \A k \in 1..Len(main) :
       \A t \in TagsUpTo(k) : Headed(t.version, main[k].log)

\* What VersionSaysChanges says of one tag.
VersionSays(t) ==
  IF TagsUpTo(t.at - 1) = {} THEN t.version = FirstVersion
  ELSE SaysChanges(latestTag(t.at - 1), t)

RemoteInv == TagsInv /\ MainInv /\ TagIsPrepared /\ VersionSaysChanges

Planned  == {"apply", "push", "push_tag"}
Untagged == {"plan"} \cup Planned

PlannedVersion ==
  IF tags = {} THEN version = FirstVersion
  ELSE /\ Bump # "none"
       /\ version = incrementVersion(latestTag(base).version, Bump)

\* A run that has not pushed its tag yet works after the last tag, on a commit that
\* others may come after; what it has planned still follows that tag, and what it
\* has prepared is for its plan.
JobInv ==
  /\ step \in Untagged =>
       /\ \A t \in tags : t.at <= base
       /\ tags = {} => tree.manifest = FirstVersion
       /\ main[base].log \subseteq tree.log
  /\ step \in Planned => PlannedVersion
  /\ step \in {"push", "push_tag"} =>
       tree.manifest = version /\ Headed(version, tree.log)
  /\ step = "push_tag" => base < Len(main) /\ main[base + 1] = Commit
  /\ step = "release" => \E t \in tags : t.version = version

IInv == TypeOK /\ RemoteInv /\ JobInv

-----------------------------------------------------------------------------
(* The operators *)

\* A bump makes one of the three versions that may follow.
LEMMA IncrementFollows ==
  ASSUME NEW v \in Version, NEW b \in {"major", "minor", "patch"}
  PROVE  incrementVersion(v, b) \in Version /\ Follows(v, incrementVersion(v, b))
<1>1. Follows(v, incrementVersion(v, b))
  BY Zenon DEF incrementVersion, Follows
<1>2. v[1] \in Nat /\ v[2] \in Nat /\ v[3] \in Nat
  BY DEF Version
<1> QED
  BY <1>1, <1>2 DEF Version, Follows

LEMMA CommitBumps ==
  ASSUME NEW kind
  PROVE  commitBump(kind) \in {"major", "minor", "patch", "none"}
  BY DEF commitBump

\* A bump is chosen, since bumps of different strength are never as strong.
LEMMA StrongestBump ==
  ASSUME NEW from, NEW to
  PROVE  LET bumps == {commitBump(main[k].kind) : k \in from..to} \cup {"none"}
             b     == strongestBump(from, to)
         IN  b \in bumps /\ \A c \in bumps : priority[c] <= priority[b]
<1> DEFINE bumps == {commitBump(main[k].kind) : k \in from..to} \cup {"none"}
           Strongest(b) == \A c \in bumps : priority[c] <= priority[b]
<1>1. bumps \subseteq {"major", "minor", "patch", "none"} /\ "none" \in bumps
  BY CommitBumps
<1> HIDE DEF bumps
<1>2. \E b \in bumps : Strongest(b)
  <2>1. CASE "major" \in bumps
    <3>1. Strongest("major")
      BY <1>1 DEF priority
    <3> QED
      BY <2>1, <3>1
  <2>2. CASE "major" \notin bumps /\ "minor" \in bumps
    <3>1. Strongest("minor")
      BY <1>1, <2>2 DEF priority
    <3> QED
      BY <2>2, <3>1
  <2>3. CASE "major" \notin bumps /\ "minor" \notin bumps /\ "patch" \in bumps
    <3>1. Strongest("patch")
      BY <1>1, <2>3 DEF priority
    <3> QED
      BY <2>3, <3>1
  <2>4. CASE bumps = {"none"}
    BY <2>4 DEF priority
  <2> QED
    BY <1>1, <2>1, <2>2, <2>3, <2>4
<1>3. strongestBump(from, to) = CHOOSE b \in bumps : Strongest(b)
  BY DEF strongestBump, bumps
<1> QED
  BY <1>2, <1>3 DEF bumps

\* The part of a version that a commit changes, by its bump.
LEMMA PartOfBump ==
  ASSUME NEW v, NEW kind
  PROVE  PartOf(v, kind) =
           CASE commitBump(kind) = "major" -> IF v[1] = 0 /\ ~BreakingAsMajor THEN 2 ELSE 1
             [] commitBump(kind) = "minor" -> 2
             [] commitBump(kind) = "patch" -> 3
             [] OTHER -> 4
  BY DEF PartOf, commitBump

\* Version w follows v in the first part that some of the commits from..to changes.
FirstPartChanged(v, w, from, to) ==
  \E j \in 1..3 :
    /\ w[j] # v[j] /\ \A i \in 1..(j - 1) : w[i] = v[i]
    /\ \E k \in from..to : PartOf(v, main[k].kind) = j
    /\ \A k \in from..to : PartOf(v, main[k].kind) >= j

\* The strongest bump changes the first part that some commit changes.
LEMMA IncrementSays ==
  ASSUME NEW v \in Version, NEW from \in Nat, NEW to \in Nat,
         strongestBump(from, to) # "none"
  PROVE  LET w == incrementVersion(v, strongestBump(from, to))
         IN  FirstPartChanged(v, w, from, to)
<1> DEFINE b == strongestBump(from, to)
           w == incrementVersion(v, b)
<1>1. PICK n \in from..to : commitBump(main[n].kind) = b
  BY StrongestBump
<1>2. b \in {"major", "minor", "patch"}
  BY <1>1, CommitBumps
<1>3. \A k \in from..to :
        /\ commitBump(main[k].kind) \in {"major", "minor", "patch", "none"}
        /\ priority[commitBump(main[k].kind)] <= priority[b]
  BY CommitBumps, StrongestBump
<1>4. v = <<v[1], v[2], v[3]>> /\ v[1] \in Nat /\ v[2] \in Nat /\ v[3] \in Nat
  BY DEF Version
<1> HIDE DEF b
<1>5. CASE b = "major" /\ (v[1] # 0 \/ BreakingAsMajor)
  <2>1. w = <<v[1] + 1, 0, 0>>
    BY <1>5 DEF incrementVersion
  <2>2. \A k \in from..to : PartOf(v, main[k].kind) >= 1
    BY PartOfBump
  <2>3. PartOf(v, main[n].kind) = 1
    BY <1>1, <1>5, PartOfBump
  <2> QED
    BY <1>4, <2>1, <2>2, <2>3 DEF b, FirstPartChanged
<1>6. CASE b = "minor" \/ (b = "major" /\ v[1] = 0 /\ ~BreakingAsMajor)
  <2>1. w = <<v[1], v[2] + 1, 0>>
    BY <1>6, <1>4 DEF incrementVersion
  <2>2. \A k \in from..to : PartOf(v, main[k].kind) >= 2
    BY <1>2, <1>3, <1>6, PartOfBump DEF priority
  <2>3. PartOf(v, main[n].kind) = 2
    BY <1>1, <1>6, PartOfBump
  <2> QED
    BY <1>4, <2>1, <2>2, <2>3 DEF b, FirstPartChanged
<1>7. CASE b = "patch"
  <2>1. w = <<v[1], v[2], v[3] + 1>>
    BY <1>7 DEF incrementVersion
  <2>2. \A k \in from..to : PartOf(v, main[k].kind) >= 3
    BY <1>2, <1>3, <1>7, PartOfBump DEF priority
  <2>3. PartOf(v, main[n].kind) = 3
    BY <1>1, <1>7, PartOfBump
  <2> QED
    BY <1>4, <2>1, <2>2, <2>3 DEF b, FirstPartChanged
<1> QED
  BY <1>2, <1>5, <1>6, <1>7 DEF b

\* A version made of the commits after p says what they change, also when more
\* commits that change nothing come before its tag.
LEMMA NextVersionSays ==
  ASSUME NEW p, NEW t, p.version \in Version, p.at \in Nat, t.at \in Nat,
         strongestBump(p.at + 1, t.at - 1) # "none",
         t.version = incrementVersion(p.version, strongestBump(p.at + 1, t.at - 1)),
         PartOf(p.version, main[t.at].kind) = 4,
         p.at < t.at
  PROVE  SaysChanges(p, t)
<1> DEFINE v == p.version
           b == strongestBump(p.at + 1, t.at - 1)
<1>1. Follows(v, t.version)
  <2>1. b \in {"major", "minor", "patch"}
    BY StrongestBump, CommitBumps
  <2> QED
    BY <2>1, IncrementFollows
<1>2. PICK j \in 1..3 :
        /\ t.version[j] # v[j] /\ \A i \in 1..(j - 1) : t.version[i] = v[i]
        /\ \E k \in p.at + 1..t.at - 1 : PartOf(v, main[k].kind) = j
        /\ \A k \in p.at + 1..t.at - 1 : PartOf(v, main[k].kind) >= j
  <2>1. p.at + 1 \in Nat /\ t.at - 1 \in Nat
    OBVIOUS
  <2>2. FirstPartChanged(v, t.version, p.at + 1, t.at - 1)
    BY <2>1, IncrementSays
  <2> QED
    BY <2>2 DEF FirstPartChanged
<1>3. \A k \in p.at + 1..t.at : k \in p.at + 1..t.at - 1 \/ k = t.at
  OBVIOUS
<1>4. \A k \in p.at + 1..t.at : PartOf(v, main[k].kind) >= j
  BY <1>2, <1>3
<1>5. \E k \in p.at + 1..t.at : PartOf(v, main[k].kind) = j
  BY <1>2
<1> QED
  BY <1>1, <1>2, <1>4, <1>5 DEF SaysChanges

\* latestTag is a tag, and comes after all others.
LEMMA LatestTag ==
  ASSUME TagsInv, NEW n \in Nat, TagsUpTo(n) # {}
  PROVE  latestTag(n) \in TagsUpTo(n) /\ \A u \in TagsUpTo(n) : u.at <= latestTag(n).at
  BY DEF TagsInv, latestTag

LEMMA SameLatestTag ==
  ASSUME NEW n, TagsUpTo(n)' = TagsUpTo(n)
  PROVE  latestTag(n)' = latestTag(n)
  BY DEF latestTag

LEMMA Appended ==
  ASSUME TypeOK, NEW c \in CommitType, main' = Append(main, c)
  PROVE  /\ main' \in Seq(CommitType) /\ main \in Seq(CommitType)
         /\ Len(main) \in Nat /\ Len(main') = Len(main) + 1
         /\ \A k \in 1..Len(main) : main'[k] = main[k]
         /\ main'[Len(main) + 1] = c
  BY DEF TypeOK, CommitType

-----------------------------------------------------------------------------
(* The remote *)

LEMMA SameRemote ==
  ASSUME RemoteInv, UNCHANGED <<main, tags>>
  PROVE  RemoteInv'
<1>1. \A n : TagsUpTo(n)' = TagsUpTo(n) /\ latestTag(n)' = latestTag(n)
  BY DEF TagsUpTo, latestTag
<1>2. TagsInv' /\ MainInv' /\ TagIsPrepared'
  BY <1>1 DEF RemoteInv, TagsInv, MainInv, TagIsPrepared
<1>3. \A p, t : SaysChanges(p, t)' = SaysChanges(p, t)
  BY DEF SaysChanges
<1>4. VersionSaysChanges'
  BY <1>1, <1>3 DEF RemoteInv, VersionSaysChanges
<1> QED
  BY <1>2, <1>4 DEF RemoteInv

\* What a version says does not change with later commits.
LEMMA SameChanges ==
  ASSUME NEW p, NEW t, SaysChanges(p, t), \A k \in p.at + 1..t.at : main'[k] = main[k]
  PROVE  SaysChanges(p, t)'
  BY DEF SaysChanges

\* A commit comes to main, a merged one or that of a release.
LEMMA MainGrows ==
  ASSUME TypeOK, RemoteInv, NEW c \in CommitType, main' = Append(main, c), UNCHANGED tags,
         main[Len(main)].log \subseteq c.log,
         tags = {} => c.manifest = FirstVersion
  PROVE  RemoteInv'
<1>0. /\ Len(main) \in Nat /\ Len(main') = Len(main) + 1 /\ main' # <<>>
      /\ \A k \in 1..Len(main) : main'[k] = main[k]
      /\ main'[Len(main) + 1] = c
  BY Appended, EmptySeq
<1>1. \A n : TagsUpTo(n)' = TagsUpTo(n) /\ latestTag(n)' = latestTag(n)
  BY DEF TagsUpTo, latestTag
<1>2. Len(main) > 0 /\ \A t \in tags : t.at \in 1..Len(main)
  BY EmptySeq DEF TypeOK, RemoteInv, MainInv
<1>3. TagsInv'
  BY <1>1 DEF RemoteInv, TagsInv
<1>4. MainInv'
  <2>1. tags' = {} => \A k \in 1..Len(main') : main'[k].manifest = FirstVersion
    BY <1>0 DEF RemoteInv, MainInv
  <2>2. \A j \in 1..Len(main) : main[j].log \subseteq c.log
    BY <1>0, <1>2 DEF RemoteInv, MainInv
  <2>3. \A k \in 1..Len(main') : \A j \in 1..k : main'[j].log \subseteq main'[k].log
    <3>1. SUFFICES ASSUME NEW k \in 1..Len(main'), NEW j \in 1..k
                   PROVE  main'[j].log \subseteq main'[k].log
      OBVIOUS
    <3>2. CASE k \in 1..Len(main)
      BY <1>0, <3>2 DEF RemoteInv, MainInv
    <3>3. CASE k = Len(main) + 1
      BY <1>0, <2>2, <3>3
    <3> QED
      BY <1>0, <3>2, <3>3
  <2>4. \A k \in 1..Len(main) :
          \A t \in TagsUpTo(k)' : Headed(t.version, main'[k].log)
    BY <1>0, <1>1 DEF RemoteInv, MainInv
  <2>5. TagsUpTo(Len(main) + 1) = TagsUpTo(Len(main))
    BY <1>0, <1>2 DEF TagsUpTo
  <2>6. \A t \in TagsUpTo(Len(main)) : Headed(t.version, main[Len(main)].log)
    BY <1>0, <1>2 DEF RemoteInv, MainInv
  <2>7. \A t \in TagsUpTo(Len(main) + 1) : Headed(t.version, c.log)
    BY <2>5, <2>6 DEF Headed
  <2>8. \A k \in 1..Len(main') :
          \A t \in TagsUpTo(k)' : Headed(t.version, main'[k].log)
    BY <1>0, <1>1, <2>4, <2>7
  <2> QED
    BY <1>0, <2>1, <2>3, <2>8 DEF MainInv
<1>5. TagIsPrepared'
  BY <1>0, <1>1, <1>2 DEF RemoteInv, TagIsPrepared
<1>6. VersionSaysChanges'
  <2>1. SUFFICES ASSUME NEW t \in tags, TagsUpTo(t.at - 1) # {}
                 PROVE  SaysChanges(latestTag(t.at - 1), t)'
    BY <1>1 DEF RemoteInv, VersionSaysChanges
  <2>2. PICK p : p = latestTag(t.at - 1)
    OBVIOUS
  <2>3. t.at \in 1..Len(main) /\ p.at \in 1..Len(main)
    BY <1>2, <2>1, <2>2, LatestTag DEF RemoteInv, TagsUpTo
  <2>4. SaysChanges(p, t) /\ latestTag(t.at - 1)' = p
    BY <1>1, <2>1, <2>2 DEF RemoteInv, VersionSaysChanges
  <2>5. SaysChanges(p, t)'
    BY <1>0, <2>3, <2>4, SameChanges
  <2> QED
    BY <2>4, <2>5
<1> QED
  BY <1>3, <1>4, <1>5, <1>6 DEF RemoteInv

\* The tag of a run comes after all others, and says what the run has planned.
LEMMA TagPushed ==
  ASSUME IInv, PushTag
  PROVE  RemoteInv'
<1> DEFINE new == [version |-> version, at |-> base + 1]
<1>1. /\ tags' = tags \cup {new} /\ main' = main /\ step = "push_tag"
      /\ main \in Seq(CommitType) /\ Len(main) \in Nat
      /\ base \in 1..Len(main) /\ base < Len(main) /\ version \in Version
      /\ \A t \in tags : t.at \in 1..base
      /\ main[base + 1] = [kind |-> "release", manifest |-> version, log |-> tree.log]
  BY DEF PushTag, Goes, IInv, TypeOK, JobInv, Untagged, Planned, CommitType, Commit
<1>2. \A n \in Nat : TagsUpTo(n)' = IF n <= base THEN TagsUpTo(n) ELSE tags'
  BY <1>1 DEF TagsUpTo
<1>3. \A n \in Nat : n <= base => latestTag(n)' = latestTag(n)
  BY <1>2 DEF latestTag
<1>4. TagsInv'
  <2>1. \A t, u \in tags' : t.at = u.at => t = u
    BY <1>1 DEF IInv, RemoteInv, TagsInv
  <2>2. \A u \in tags' : u.at <= new.at
    BY <1>1
  <2>3. \A n \in Nat : TagsUpTo(n)' # {} =>
          \E t \in TagsUpTo(n)' : \A u \in TagsUpTo(n)' : u.at <= t.at
    <3>1. SUFFICES ASSUME NEW n \in Nat, TagsUpTo(n)' # {}
                   PROVE  \E t \in TagsUpTo(n)' : \A u \in TagsUpTo(n)' : u.at <= t.at
      OBVIOUS
    <3>2. CASE n <= base
      BY <1>2, <3>1, <3>2 DEF IInv, RemoteInv, TagsInv
    <3>3. CASE n > base
      <4>1. TagsUpTo(n)' = tags' /\ new \in tags'
        BY <1>1, <1>2, <3>3
      <4> QED
        BY <2>2, <4>1
    <3> QED
      BY <1>1, <3>2, <3>3
  <2> QED
    BY <2>1, <2>3 DEF TagsInv
<1>5. MainInv'
  <2>1. \A j \in base + 1..Len(main) : Headed(version, main[j].log)
    <3>1. Headed(version, main[base + 1].log)
      BY <1>1 DEF IInv, JobInv
    <3>2. \A j \in base + 1..Len(main) : main[base + 1].log \subseteq main[j].log
      BY <1>1 DEF IInv, RemoteInv, MainInv
    <3> QED
      BY <3>1, <3>2 DEF Headed
  <2>2. \A j \in 1..Len(main) : \A t \in TagsUpTo(j)' : Headed(t.version, main[j].log)
    <3>1. SUFFICES ASSUME NEW j \in 1..Len(main), NEW t \in tags', t.at <= j
                   PROVE  Headed(t.version, main[j].log)
      BY DEF TagsUpTo
    <3>2. CASE t \in tags
      BY <1>1, <3>1, <3>2 DEF IInv, RemoteInv, MainInv, TagsUpTo
    <3>3. CASE t = new
      BY <1>1, <2>1, <3>1, <3>3
    <3> QED
      BY <1>1, <3>2, <3>3
  <2> QED
    BY <1>1, <2>2 DEF IInv, RemoteInv, MainInv
<1>6. TagIsPrepared'
  <2>1. \A t \in tags' : main[t.at].manifest = t.version /\ t.at \in 1..Len(main)
    BY <1>1 DEF IInv, RemoteInv, TagIsPrepared
  <2> QED
    BY <1>1, <1>5, <2>1 DEF TagIsPrepared, MainInv, Headed
<1>7. VersionSaysChanges'
  <2>1. ASSUME NEW t \in tags
        PROVE  VersionSays(t)'
    <3>1. t.at - 1 \in Nat /\ t.at - 1 <= base
      BY <1>1, <2>1
    <3>2. TagsUpTo(t.at - 1)' = TagsUpTo(t.at - 1) /\ latestTag(t.at - 1)' = latestTag(t.at - 1)
      BY <1>2, <1>3, <3>1
    <3>3. \A p, u : SaysChanges(p, u)' = SaysChanges(p, u)
      BY <1>1 DEF SaysChanges
    <3>4. VersionSays(t)
      BY <2>1 DEF IInv, RemoteInv, VersionSaysChanges, VersionSays
    <3> QED
      BY <3>2, <3>3, <3>4 DEF VersionSays
  <2>2. ASSUME NEW t, t = new
        PROVE  VersionSays(t)'
    <3>1. t.at - 1 = base /\ t.at \in Nat /\ t.version = version
      BY <1>1, <2>2
    <3>2. TagsUpTo(base) = tags
      BY <1>1 DEF TagsUpTo
    <3>3. TagsUpTo(t.at - 1)' = tags /\ latestTag(t.at - 1)' = latestTag(base)
      BY <1>1, <1>2, <1>3, <3>1, <3>2
    <3>4. CASE tags = {}
      BY <1>1, <3>1, <3>3, <3>4 DEF IInv, JobInv, Planned, PlannedVersion, VersionSays
    <3>5. CASE tags # {}
      <4>1. PICK p : p = latestTag(base)
        OBVIOUS
      <4>2. p \in tags /\ p.at \in 1..base /\ p.version \in Version
        BY <1>1, <3>2, <3>5, <4>1, LatestTag DEF IInv, RemoteInv, TypeOK
      <4>3. /\ strongestBump(p.at + 1, base) # "none"
            /\ version = incrementVersion(p.version, strongestBump(p.at + 1, base))
        BY <1>1, <3>5, <4>1 DEF IInv, JobInv, Planned, PlannedVersion, Bump
      <4>4. main[t.at].kind = "release" /\ PartOf(p.version, "release") = 4
        <5>1. "release" \notin Breaking \cup Patching
          BY DEF Breaking, Patching
        <5>2. commitBump("release") = "none"
          BY <5>1 DEF commitBump
        <5> QED
          BY <1>1, <3>1, <5>2, PartOfBump
      <4>5. SaysChanges(p, t)
        BY <1>1, <3>1, <4>2, <4>3, <4>4, NextVersionSays
      <4>6. SaysChanges(p, t)'
        BY <1>1, <4>5, SameChanges
      <4> QED
        BY <3>3, <3>5, <4>1, <4>6 DEF VersionSays
    <3> QED
      BY <3>4, <3>5
  <2> QED
    BY <1>1, <2>1, <2>2 DEF VersionSaysChanges, VersionSays
<1> QED
  BY <1>4, <1>5, <1>6, <1>7 DEF RemoteInv

-----------------------------------------------------------------------------
(* The run *)

LEMMA SameBump ==
  ASSUME NEW from, NEW to, \A k \in from..to : main'[k] = main[k]
  PROVE  strongestBump(from, to)' = strongestBump(from, to)
  BY DEF strongestBump

\* A plan stays what the tags and the commits up to base make of it.
LEMMA PlanKept ==
  ASSUME TypeOK, TagsInv, base # 0, \A t \in tags : t.at <= base, PlannedVersion,
         UNCHANGED <<tags, base, version>>, \A k \in 1..base : main'[k] = main[k]
  PROVE  PlannedVersion'
<1>1. base \in Nat /\ Len(main) \in Nat /\ \A t \in tags : t.at \in Nat /\ t.at >= 1
  BY LenProperties DEF TypeOK
<1>2. latestTag(base)' = latestTag(base)
  BY DEF latestTag, TagsUpTo
<1>3. CASE tags = {}
  BY <1>3 DEF PlannedVersion
<1>4. CASE tags # {}
  <2>1. TagsUpTo(base) # {}
    BY <1>4 DEF TagsUpTo
  <2>2. latestTag(base) \in tags
    BY <1>1, <2>1, LatestTag DEF TagsUpTo
  <2>3. PICK from : from = latestTag(base).at + 1
    OBVIOUS
  <2>4. \A k \in from..base : main'[k] = main[k]
    BY <1>1, <2>2, <2>3
  <2>5. PICK to : to = base
    OBVIOUS
  <2>6. strongestBump(from, to)' = strongestBump(from, to)
    BY <2>4, <2>5, SameBump
  <2>7. Bump' = Bump
    BY <1>2, <2>3, <2>5, <2>6 DEF Bump
  <2> QED
    BY <1>2, <1>4, <2>7 DEF PlannedVersion
<1> QED
  BY <1>3, <1>4

\* A run that is over leaves nothing.
LEMMA RunOver ==
  ASSUME IInv, NEW S, Over(S), UNCHANGED remote, day' \in 1..MaxDay,
         pushes' \in 0..MaxPushes, faults' \in 0..MaxFaults
  PROVE  TypeOK' /\ JobInv'
<1>1. TypeOK'
  BY DEF IInv, TypeOK, Over, remote
<1>2. JobInv'
  BY DEF Over, JobInv, Untagged, Planned
<1> QED
  BY <1>1, <1>2

\* The steps of a run that leave main, the days and the failures alone.
LEMMA RunGoesOn ==
  ASSUME IInv, Test \/ Checkout \/ PlanFirst \/ PlanNext \/ Apply \/ CreateRelease
  PROVE  TypeOK' /\ JobInv'
<1>0. main \in Seq(CommitType) /\ Len(main) \in 1..Len(main) /\ Len(main) \in Nat
  BY EmptySeq, LenProperties DEF IInv, TypeOK, RemoteInv, MainInv, CommitType
<1>1. CASE Test
  BY <1>1 DEF IInv, TypeOK, JobInv, Test, Goes, Untagged, Planned, remote, job, bounds, Steps
<1>2. CASE Checkout
  <2>1. main[Len(main)] \in CommitType
    BY <1>0
  <2>2. TypeOK'
    <3>1. tree' \in Tree /\ base' \in 1..Len(main) /\ base' # 0
      BY <1>0, <1>2, <2>1 DEF Checkout, CommitType, Tree, TreeOf
    <3>2. step = "checkout" /\ step' = "plan" /\ UNCHANGED <<dry, main, tags, releases, version>>
          /\ UNCHANGED <<day, pushes, faults>>
      BY <1>2 DEF Checkout, Goes, remote, bounds
    <3> QED
      BY <3>1, <3>2 DEF IInv, TypeOK, Steps
  <2>3. JobInv'
    <3>1. /\ step' = "plan" /\ base' = Len(main) /\ main' = main /\ tags' = tags
          /\ tree'.manifest = main[Len(main)].manifest /\ tree'.log = main[Len(main)].log
      BY <1>2 DEF Checkout, Goes, TreeOf, remote
    <3>2. \A t \in tags : t.at <= Len(main)
      BY <1>0 DEF IInv, TypeOK
    <3>3. tags = {} => main[Len(main)].manifest = FirstVersion
      BY <1>0 DEF IInv, RemoteInv, MainInv
    <3> QED
      BY <3>1, <3>2, <3>3 DEF JobInv, Untagged, Planned
  <2> QED
    BY <2>2, <2>3
<1>3. CASE PlanFirst
  <2>1. step = "plan" /\ base \in 1..Len(main) /\ tree \in Tree /\ tags = {}
    BY <1>3 DEF IInv, TypeOK, JobInv, Untagged, PlanFirst, Goes, TagsUpTo
  <2>2. TypeOK'
    BY <1>3, <2>1 DEF IInv, TypeOK, PlanFirst, Goes, remote, bounds, Steps, Tree
  <2>3. JobInv'
    <3>1. tree.manifest = FirstVersion
      BY <2>1 DEF IInv, JobInv, Untagged
    <3>2. PlannedVersion'
      BY <1>3, <2>1, <3>1 DEF PlanFirst, PlannedVersion, remote
    <3> QED
      BY <1>3, <2>1, <3>2 DEF IInv, JobInv, PlanFirst, Goes, Untagged, Planned, remote
  <2> QED
    BY <2>2, <2>3
<1>4. CASE PlanNext
  <2>1. /\ step = "plan" /\ base \in 1..Len(main) /\ tree \in Tree /\ tags # {}
        /\ base \in Nat /\ TagsUpTo(base) # {}
    BY <1>0, <1>4 DEF IInv, TypeOK, JobInv, Untagged, PlanNext, Goes, TagsUpTo
  <2>2. latestTag(base) \in tags /\ latestTag(base).version \in Version
    BY <2>1, LatestTag DEF IInv, TypeOK, RemoteInv, TagsUpTo
  <2>3. Bump \in {"major", "minor", "patch"}
    BY <1>4, StrongestBump, CommitBumps DEF PlanNext, Bump
  <2>4. version' \in Version
    BY <1>4, <2>2, <2>3, IncrementFollows DEF PlanNext
  <2>5. TypeOK'
    BY <1>4, <2>1, <2>4 DEF IInv, TypeOK, PlanNext, Goes, remote, bounds, Steps
  <2>6. PlannedVersion'
    <3>1. TagsUpTo(base)' = TagsUpTo(base) /\ latestTag(base)' = latestTag(base) /\ Bump' = Bump
      BY <1>4 DEF PlanNext, remote, TagsUpTo, latestTag, Bump, strongestBump
    <3> QED
      BY <1>4, <2>1, <3>1 DEF PlanNext, PlannedVersion, remote
  <2>7. JobInv'
    BY <1>4, <2>1, <2>6 DEF IInv, JobInv, PlanNext, Goes, Untagged, Planned, remote
  <2> QED
    BY <2>5, <2>7
<1>5. CASE Apply
  <2> DEFINE heading == [version |-> version, day |-> day]
  <2>1. /\ step = "apply" /\ base \in 1..Len(main) /\ tree \in Tree /\ version \in Version
        /\ heading \in Heading /\ step' \in {"end", "push"}
    BY <1>5 DEF IInv, TypeOK, Apply, Goes, Heading
  <2>2. tree' = [manifest |-> version, log |-> tree.log \cup {heading}] /\ tree' \in Tree
    BY <1>5, <2>1 DEF Apply, Tree
  <2>3. TypeOK'
    BY <1>5, <2>1, <2>2 DEF IInv, TypeOK, Apply, Goes, remote, bounds, Steps
  <2>4. PlannedVersion'
    <3>1. PlannedVersion /\ base # 0 /\ \A t \in tags : t.at <= base
      BY <1>0, <2>1 DEF IInv, JobInv, Untagged, Planned
    <3> QED
      BY <1>5, <3>1, PlanKept DEF IInv, RemoteInv, Apply, remote
  <2>5. Headed(version, tree'.log)
    <3>1. heading \in tree'.log /\ heading.version = version
      BY <2>2
    <3> HIDE DEF heading
    <3> QED
      BY <3>1 DEF Headed
  <2>6. tags = {} => version = FirstVersion
    BY <2>1 DEF IInv, JobInv, Planned, PlannedVersion
  <2>7. JobInv'
    BY <1>5, <2>1, <2>2, <2>4, <2>5, <2>6
    DEF IInv, JobInv, Apply, Goes, Untagged, Planned, remote
  <2> QED
    BY <2>3, <2>7
<1>6. CASE CreateRelease
  <2>1. /\ step = "release" /\ step' = "end" /\ version \in {t.version : t \in tags}
        /\ base \in 1..Len(main)
    BY <1>6 DEF IInv, TypeOK, JobInv, CreateRelease, Goes
  <2>2. TypeOK'
    BY <1>6, <2>1 DEF IInv, TypeOK, CreateRelease, Goes, job, bounds, Steps
  <2>3. JobInv'
    BY <2>1 DEF JobInv, Untagged, Planned
  <2> QED
    BY <2>2, <2>3
<1> QED
  BY <1>1, <1>2, <1>3, <1>4, <1>5, <1>6

\* A merge changes nothing of what the run rests on.
LEMMA Merged ==
  ASSUME IInv, NEW kind \in Kind, Merge(kind)
  PROVE  IInv'
<1> DEFINE m == main[Len(main)]
           c == [m EXCEPT !.kind = kind]
<1>1. main \in Seq(CommitType) /\ Len(main) \in Nat /\ Len(main) \in 1..Len(main)
  BY EmptySeq, LenProperties DEF IInv, TypeOK, RemoteInv, MainInv, CommitType
<1>2. c \in CommitType /\ c.log = m.log /\ c.manifest = m.manifest
  <2>1. m \in CommitType
    BY <1>1
  <2> HIDE DEF m
  <2> QED
    BY <2>1 DEF CommitType
<1>3. main' = Append(main, c) /\ UNCHANGED <<tags, releases, run, day, faults>>
  BY DEF Merge
<1> HIDE DEF c
<1>4. /\ main' \in Seq(CommitType) /\ Len(main') = Len(main) + 1
      /\ \A k \in 1..Len(main) : main'[k] = main[k]
  BY <1>2, <1>3, Appended DEF IInv
<1>5. RemoteInv'
  <2>1. tags = {} => c.manifest = FirstVersion
    BY <1>1, <1>2 DEF IInv, RemoteInv, MainInv
  <2> QED
    BY <1>2, <1>3, <2>1, MainGrows DEF IInv
<1>6. TypeOK'
  <2>1. tags' \subseteq [version : Version, at : 1..Len(main')]
    BY <1>1, <1>3, <1>4 DEF IInv, TypeOK
  <2>2. base' \in IF step' \in {"none", "test", "checkout"} THEN {0} ELSE 1..Len(main')
    BY <1>1, <1>3, <1>4 DEF IInv, TypeOK, run, job
  <2>3. pushes' \in 0..MaxPushes
    BY ReleaseAssumption DEF IInv, TypeOK, Merge
  <2> QED
    BY <1>3, <1>4, <2>1, <2>2, <2>3 DEF IInv, TypeOK, CommitType, run, job
<1>7. JobInv'
  <2>1. UNCHANGED <<step, dry, base, version, tree, tags>>
    BY <1>3 DEF run, job
  <2>2. step \in Untagged => base \in 1..Len(main)
    BY DEF IInv, TypeOK, Untagged, Planned
  <2>3. step \in Planned => PlannedVersion'
    BY <1>1, <1>4, <2>1, <2>2, PlanKept DEF IInv, RemoteInv, JobInv, Untagged
  <2>4. step \in Untagged => main'[base] = main[base]
    BY <1>4, <2>2
  <2>5. step = "push_tag" => base < Len(main') /\ main'[base + 1] = Commit
    BY <1>1, <1>4, <2>2 DEF IInv, JobInv, Untagged, Planned
  <2> QED
    BY <2>1, <2>3, <2>4, <2>5 DEF IInv, JobInv, Commit
<1> QED
  BY <1>5, <1>6, <1>7 DEF IInv

\* The push of main adds the commit that was prepared right after base.
LEMMA MainPushed ==
  ASSUME IInv, PushMain
  PROVE  IInv'
<1>1. /\ main \in Seq(CommitType) /\ Len(main) \in Nat /\ Len(main) \in 1..Len(main)
      /\ base = Len(main) /\ step = "push" /\ step' = "push_tag"
      /\ main' = Append(main, Commit) /\ tree \in Tree /\ version \in Version
      /\ UNCHANGED <<tags, releases, dry, base, version, tree, day, pushes, faults>>
  BY EmptySeq, LenProperties
  DEF IInv, TypeOK, RemoteInv, MainInv, CommitType, PushMain, Goes, job, bounds
<1>2. Commit \in CommitType /\ Commit.log = tree.log /\ Commit.manifest = tree.manifest
  BY <1>1 DEF Commit, CommitType, Tree
<1>3. /\ main' \in Seq(CommitType) /\ Len(main') = Len(main) + 1
      /\ \A k \in 1..Len(main) : main'[k] = main[k]
      /\ main'[Len(main) + 1] = Commit
  BY <1>1, <1>2, Appended DEF IInv
<1>4. /\ \A t \in tags : t.at <= base
      /\ tags = {} => tree.manifest = FirstVersion
      /\ main[base].log \subseteq tree.log
      /\ PlannedVersion
      /\ tree.manifest = version /\ Headed(version, tree.log)
  BY <1>1 DEF IInv, JobInv, Untagged, Planned
<1>5. RemoteInv'
  BY <1>1, <1>2, <1>4, MainGrows DEF IInv
<1>6. TypeOK'
  <2>1. tags' \subseteq [version : Version, at : 1..Len(main')] /\ base' \in 1..Len(main')
    BY <1>1, <1>3 DEF IInv, TypeOK
  <2> QED
    BY <1>1, <1>3, <2>1 DEF IInv, TypeOK, CommitType, Steps
<1>7. JobInv'
  <2>1. PlannedVersion'
    BY <1>1, <1>3, <1>4, PlanKept DEF IInv, RemoteInv
  <2>2. Commit' = Commit
    BY <1>1 DEF Commit
  <2> QED
    BY <1>1, <1>3, <1>4, <2>1, <2>2 DEF JobInv, Untagged, Planned
<1> QED
  BY <1>5, <1>6, <1>7 DEF IInv

-----------------------------------------------------------------------------

LEMMA InitInv == Init => IInv
<1> SUFFICES ASSUME Init PROVE IInv
  OBVIOUS
<1> DEFINE c == [kind |-> "other", manifest |-> FirstVersion, log |-> {}]
<1>0. c.manifest = FirstVersion /\ c.log = {}
  OBVIOUS
<1>1. main = <<c>> /\ tags = {}
  BY DEF Init
<1> HIDE DEF c
<1>2. Len(main) = 1 /\ main[1] = c
  BY <1>1
<1>3. RemoteInv
  BY <1>0, <1>1, <1>2 DEF RemoteInv, TagsInv, MainInv, TagIsPrepared, VersionSaysChanges, TagsUpTo
<1>4. JobInv
  BY DEF Init, JobInv, Untagged, Planned
<1>5. main \in Seq(CommitType)
  <2>1. c \in CommitType
    BY ReleaseAssumption DEF c, CommitType, Version
  <2> QED
    BY <1>1, <2>1
<1>6. TypeOK
  <2>1. main \in Seq([kind : Kind \cup {"other", "release"}, manifest : Version, log : SUBSET Heading])
    BY <1>5 DEF CommitType
  <2>2. /\ day \in 1..MaxDay /\ pushes \in 0..MaxPushes /\ faults \in 0..MaxFaults
        /\ tags = {} /\ releases = {} /\ step = "none" /\ dry = FALSE
        /\ base = 0 /\ version = Unplanned /\ tree = NoTree
    BY ReleaseAssumption DEF Init
  <2> QED
    BY <2>1, <2>2 DEF TypeOK
<1> QED
  BY <1>3, <1>4, <1>6 DEF IInv

LEMMA NextInv == IInv /\ [Next]_vars => IInv'
<1> SUFFICES ASSUME IInv, [Next]_vars PROVE IInv'
  OBVIOUS
<1> USE ReleaseAssumption
<1>1. CASE Test \/ Checkout \/ PlanFirst \/ PlanNext \/ Apply \/ CreateRelease
  <2>1. UNCHANGED <<main, tags>>
    BY <1>1 DEF Test, Checkout, PlanFirst, PlanNext, Apply, CreateRelease, remote
  <2> QED
    BY <1>1, <2>1, SameRemote, RunGoesOn DEF IInv
<1>2. CASE NothingToRelease \/ ApplyFails \/ PushRefused \/ RunEnds
  <2>1. UNCHANGED <<remote, day, bounds>> /\ \E S : Over(S)
    BY <1>2 DEF NothingToRelease, ApplyFails, PushRefused, RunEnds
  <2>2. TypeOK' /\ JobInv'
    BY <2>1, RunOver DEF IInv, TypeOK, bounds
  <2> QED
    BY <2>1, <2>2, SameRemote DEF IInv, remote
<1>3. CASE StepFails
  <2>1. UNCHANGED remote /\ Over(Steps \ {"end"}) /\ day' = day /\ pushes' = pushes
    BY <1>3 DEF StepFails
  <2>2. faults' \in 0..MaxFaults
    BY <1>3 DEF StepFails, IInv, TypeOK
  <2>3. TypeOK' /\ JobInv'
    BY <2>1, <2>2, RunOver DEF IInv, TypeOK
  <2> QED
    BY <2>1, <2>3, SameRemote DEF IInv, remote
<1>4. CASE PushMain
  BY <1>4, MainPushed
<1>5. CASE PushTag
  <2>1. RemoteInv'
    BY <1>5, TagPushed
  <2>2. /\ step = "push_tag" /\ step' = "release" /\ tags' = tags \cup {[version |-> version, at |-> base + 1]}
        /\ UNCHANGED <<main, releases, dry, base, version, tree, day, pushes, faults>>
        /\ base \in 1..Len(main) /\ base < Len(main) /\ version \in Version
    BY <1>5 DEF PushTag, Goes, job, bounds, IInv, TypeOK, JobInv
  <2>3. tags' \subseteq [version : Version, at : 1..Len(main)]
    BY <2>2 DEF IInv, TypeOK
  <2>4. TypeOK'
    BY <2>2, <2>3 DEF IInv, TypeOK, Steps
  <2>5. \E t \in tags' : t.version = version'
    <3>1. PICK t : t = [version |-> version, at |-> base + 1]
      OBVIOUS
    <3> QED
      BY <2>2, <3>1
  <2>6. JobInv'
    BY <2>2, <2>5 DEF JobInv, Untagged, Planned
  <2> QED
    BY <2>1, <2>4, <2>6 DEF IInv
<1>6. CASE NextDay \/ (\E d \in BOOLEAN : Dispatch(d)) \/ UNCHANGED vars
  <2>1. UNCHANGED <<main, tags, releases, base, version, tree>> /\ UNCHANGED bounds
    BY <1>6 DEF NextDay, Dispatch, vars, remote, run, job
  <2>2. RemoteInv'
    BY <2>1, SameRemote DEF IInv
  <2>3. CASE \E d \in BOOLEAN : Dispatch(d)
    BY <2>1, <2>2, <2>3
    DEF IInv, TypeOK, JobInv, Dispatch, bounds, Steps, Untagged, Planned
  <2>4. CASE NextDay \/ UNCHANGED vars
    <3>1. step' = step /\ dry' = dry /\ day' \in 1..MaxDay
      BY <2>4 DEF IInv, TypeOK, NextDay, vars, run
    <3>2. TypeOK'
      BY <2>1, <3>1 DEF IInv, TypeOK, bounds
    <3>3. JobInv'
      BY <2>1, <3>1
      DEF IInv, JobInv, PlannedVersion, Bump, latestTag, TagsUpTo, strongestBump, Commit
    <3> QED
      BY <2>2, <3>2, <3>3 DEF IInv
  <2> QED
    BY <1>6, <2>3, <2>4
<1>7. CASE \E k \in Kind : Merge(k)
  BY <1>7, Merged
<1> QED
  BY <1>1, <1>2, <1>3, <1>4, <1>5, <1>6, <1>7 DEF Next, RunStep

\* The invariant holds from the start and through every step.
THEOREM Invariance == Spec => []IInv
<1> QED
  BY InitInv, NextInv, PTL DEF Spec

\* The types of the state, among them that a run has what its step needs.
THEOREM TypeCorrect == Spec => []TypeOK
<1>1. IInv => TypeOK
  BY DEF IInv
<1> QED
  BY <1>1, Invariance, PTL

\* What plan makes of the commits, apply of the tree and the pushes of both: a
\* version that is tagged says what changed since the one before it, in every
\* order of merges, failures and further runs.
THEOREM VersionsSay == Spec => []VersionSaysChanges
<1>1. IInv => VersionSaysChanges
  BY DEF IInv, RemoteInv
<1> QED
  BY <1>1, Invariance, PTL

\* The commit of a tag is prepared for it, and has the headings of all before it.
THEOREM TagsPrepared == Spec => []TagIsPrepared
<1>1. IInv => TagIsPrepared
  BY DEF IInv, RemoteInv
<1> QED
  BY <1>1, Invariance, PTL

=============================================================================
