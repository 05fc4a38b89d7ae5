----------------------------- MODULE MagnetProofs -----------------------------
(***************************************************************************)
(* What Magnet::from_str reads from a query of any length, as an invariant *)
(* of its loop.                                                            *)
(***************************************************************************)
EXTENDS Magnet, TLAPS

\* What the loop has found so far: the last of each kind among the pairs before
\* i, all of which count; once it has both, no later pair counts.
LoopInv ==
  pc = "loop" =>
    /\ value.kind = "magnet"
    /\ LastText({k \in 1..(i - 1) : IsBtih(Query[k])}, hash)
    /\ LastText({k \in 1..(i - 1) : IsDn(Query[k])}, name)
    /\ \A k \in 1..(i - 1) : Counts(k)

IInv ==
  /\ TypeOK
  /\ pc = "parse" => i = 1 /\ hash = "none" /\ name = "none"
  /\ LoopInv
  /\ ParsedAsSpecified
  /\ kept # NotYet => Says(kept)

\* A pair's text is a text, never the missing value.
LEMMA TextIsSome ==
  ASSUME NEW p \in Param PROVE p.text # "none"
  BY MagnetAssumption

\* The two kinds of answers are told apart.
LEMMA Kinds ==
  ASSUME NEW e, NEW h, NEW n
  PROVE  /\ ~IsMagnet(Error(e))
         /\ DOMAIN Error(e) = {"error"}
         /\ IsMagnet(Parsed(h, n))
         /\ Parsed(h, n) # NotYet
         /\ e # "none" => Error(e) # NotYet
  BY DEF IsMagnet, Error, Parsed, NotYet

\* The last text of a set of pairs is determined.
LEMMA LastUnique ==
  ASSUME NEW S \in SUBSET (1..Len(Query)), NEW t, NEW u,
         LastText(S, t), LastText(S, u), value.query \in Seq(Param)
  PROVE  t = u
  BY DEF LastText, Query

\* What Says leaves open is nothing: two magnets it holds of are one.
LEMMA SaysUnique ==
  ASSUME TypeOK, NEW r, NEW s, IsMagnet(r), IsMagnet(s), Says(r), Says(s)
  PROVE  r = s
  <1>1. CASE value.kind # "magnet"
    BY <1>1 DEF Says
  <1>2. CASE value.kind = "magnet" /\ Hashes = {}
    BY <1>2 DEF Says
  <1>3. CASE value.kind = "magnet" /\ Hashes # {}
    <2>1. Hashes \in SUBSET (1..Len(Query)) /\ Names \in SUBSET (1..Len(Query))
      BY DEF Hashes, Names
    <2>2. /\ LastText(Hashes, r.info_hash) /\ LastText(Names, r.name)
          /\ LastText(Hashes, s.info_hash) /\ LastText(Names, s.name)
      BY <1>3 DEF Says
    <2>3. r.info_hash = s.info_hash /\ r.name = s.name
      BY <2>1, <2>2, LastUnique DEF TypeOK, Query
    <2> QED
      BY <2>3 DEF IsMagnet
  <1> QED
    BY <1>1, <1>2, <1>3

LEMMA InitInv == Init => IInv
  <1> SUFFICES ASSUME Init PROVE IInv
    OBVIOUS
  <1>1. value \in [kind : Kind, query : Seq(Param)]
    <2>1. PICK n \in 0..MaxParams :
            value \in [kind : IF n = 0 THEN Kind ELSE {"magnet"}, query : [1..n -> Param]]
      BY DEF Init
    <2>2. value.query \in Seq(Param)
      BY <2>1
    <2>3. value.kind \in Kind
      BY <2>1 DEF Kind
    <2> QED
      BY <2>1, <2>2, <2>3
  <1>2. Len(Query) \in Nat
    BY <1>1 DEF Query
  <1>3. DOMAIN NotYet = {"error"}
    BY DEF NotYet
  <1> QED
    BY <1>1, <1>2, <1>3 DEF Init, IInv, TypeOK, LoopInv, ParsedAsSpecified

-----------------------------------------------------------------------------

\* One more pair extends what was found by that pair, if it is of the kind.
LEMMA LastExtended ==
  ASSUME NEW S, NEW T, NEW k \in Nat, NEW t, NEW u,
         S \subseteq 1..(k - 1),
         LastText(S, t),
         \/ T = S /\ u = t
         \/ T = S \cup {k} /\ u = Query[k].text
  PROVE  LastText(T, u)
  <1>1. CASE T = S /\ u = t
    BY <1>1
  <1>2. CASE T = S \cup {k} /\ u = Query[k].text
    <2>1. k \in T /\ \A j \in T : j <= k
      BY <1>2
    <2> QED
      BY <1>2, <2>1 DEF LastText
  <1> QED
    BY <1>1, <1>2

LEMMA PairStep == IInv /\ Pair => IInv'
  <1> SUFFICES ASSUME IInv, Pair PROVE IInv'
    OBVIOUS
  <1> DEFINE H(n) == {k \in 1..n : IsBtih(Query[k])}
             N(n) == {k \in 1..n : IsDn(Query[k])}
  <1>1. /\ i \in Nat /\ i >= 1 /\ i <= Len(Query) /\ Len(Query) \in Nat
        /\ Query \in Seq(Param) /\ Query[i] \in Param /\ Query' = Query
        /\ i' = i + 1 /\ pc = "loop" /\ pc' = "loop"
    BY DEF IInv, TypeOK, Pair, Query
  <1>2. /\ LastText(H(i - 1), hash) /\ LastText(N(i - 1), name)
        /\ \A k \in 1..(i - 1) : Counts(k)
    BY <1>1 DEF IInv, LoopInv
  <1>3. H(i) = IF IsBtih(Query[i]) THEN H(i - 1) \cup {i} ELSE H(i - 1)
    BY <1>1
  <1>4. N(i) = IF IsDn(Query[i]) THEN N(i - 1) \cup {i} ELSE N(i - 1)
    BY <1>1
  <1>5. LastText(H(i), hash')
    <2>1. H(i - 1) \subseteq 1..(i - 1)
      OBVIOUS
    <2> HIDE DEF H
    <2> QED
      BY <1>1, <1>2, <1>3, <2>1, LastExtended DEF Pair
  <1>6. LastText(N(i), name')
    <2>1. N(i - 1) \subseteq 1..(i - 1)
      OBVIOUS
    <2> HIDE DEF N
    <2> QED
      BY <1>1, <1>2, <1>4, <2>1, LastExtended DEF Pair
  <1>7. Counts(i)
    <2>1. H(i - 1) = {} \/ N(i - 1) = {}
      <3>1. ~(hash # "none" /\ name # "none")
        BY DEF Pair, BothFound
      <3>2. H(i - 1) # {} => hash # "none"
        BY <1>1, <1>2, TextIsSome DEF LastText
      <3>3. N(i - 1) # {} => name # "none"
        BY <1>1, <1>2, TextIsSome DEF LastText
      <3> QED
        BY <3>1, <3>2, <3>3
    <2> QED
      BY <2>1, <1>1 DEF Counts
  <1>8. LoopInv'
    <2>1. value' = value /\ i' - 1 = i /\ (\A k \in 1..i : Counts(k)')
      <3>1. \A k : Counts(k)' = Counts(k)
        BY DEF Counts, Pair, Query
      <3> QED
        BY <1>1, <1>2, <1>7, <3>1 DEF Pair
    <2>2. value.kind = "magnet"
      BY <1>1 DEF IInv, LoopInv
    <2>3. /\ {k \in 1..(i' - 1) : IsBtih(Query'[k])} = H(i)
          /\ {k \in 1..(i' - 1) : IsDn(Query'[k])} = N(i)
      BY <1>1, <2>1
    <2> QED
      BY <1>1, <1>5, <1>6, <2>1, <2>2, <2>3 DEF LoopInv, LastText, Query
  <1>9. TypeOK'
    BY <1>1 DEF IInv, TypeOK, Pair, Query
  <1>10. ParsedAsSpecified' /\ (kept' # NotYet => Says(kept)')
    BY <1>1 DEF IInv, Pair, ParsedAsSpecified, Says, Hashes, Names, Counts, LastText, Query
  <1> QED
    BY <1>1, <1>8, <1>9, <1>10 DEF IInv

\* What the reference says depends on the value only.
LEMMA SaysStable ==
  ASSUME value' = value
  PROVE  \A r : Says(r)' = Says(r)
  BY DEF Says, Hashes, Names, Counts, LastText, Query

LEMMA FinishStep == IInv /\ Finish => IInv'
  <1> SUFFICES ASSUME IInv, Finish PROVE IInv'
    OBVIOUS
  <1> DEFINE H == {k \in 1..(i - 1) : IsBtih(Query[k])}
             N == {k \in 1..(i - 1) : IsDn(Query[k])}
  <1>1. /\ i \in Nat /\ i >= 1 /\ i <= Len(Query) + 1 /\ Len(Query) \in Nat
        /\ Query \in Seq(Param) /\ pc = "loop" /\ value.kind = "magnet"
        /\ value' = value /\ kept' = kept
    BY DEF IInv, TypeOK, Finish, Query, LoopInv
  <1>2. LastText(H, hash) /\ LastText(N, name) /\ \A k \in 1..(i - 1) : Counts(k)
    BY <1>1 DEF IInv, LoopInv
  <1>3. H # {} <=> hash # "none"
    BY <1>1, <1>2, TextIsSome DEF LastText
  <1>4. N # {} <=> name # "none"
    BY <1>1, <1>2, TextIsSome DEF LastText
  <1>5. \A k \in i..Len(Query) : ~Counts(k)
    <2>1. CASE i > Len(Query)
      BY <1>1, <2>1
    <2>2. CASE BothFound(hash, name)
      <3>1. PICK b \in 1..(i - 1), d \in 1..(i - 1) : IsBtih(Query[b]) /\ IsDn(Query[d])
        BY <1>3, <1>4, <2>2 DEF BothFound
      <3>2. \A k \in i..Len(Query) : b \in 1..(k - 1) /\ d \in 1..(k - 1)
        BY <1>1, <3>1
      <3> QED
        BY <3>1, <3>2 DEF Counts
    <2> QED
      BY <2>1, <2>2 DEF Finish
  <1>6. \A k \in 1..Len(Query) : Counts(k) <=> k \in 1..(i - 1)
    BY <1>1, <1>2, <1>5
  <1>7. Hashes = H /\ Names = N
    BY <1>1, <1>6 DEF Hashes, Names
  <1>8. Says(Answer)
    <2>1. CASE H = {}
      BY <1>1, <1>3, <1>7, <2>1 DEF Says, Answer
    <2>2. CASE H # {}
      <3>1. Answer = Parsed(hash, name)
        BY <1>3, <2>2 DEF Answer
      <3>2. IsMagnet(Answer) /\ Answer.info_hash = hash /\ Answer.name = name
        BY <3>1, Kinds DEF Parsed
      <3> HIDE DEF H, N
      <3> QED
        BY <1>1, <1>2, <1>7, <2>2, <3>2 DEF Says
    <2> QED
      BY <2>1, <2>2
  <1>9. (IsMagnet(Answer) \/ DOMAIN Answer = {"error"}) /\ Answer # NotYet
    BY Kinds DEF Answer
  <1>10. TypeOK'
    BY <1>1, <1>9 DEF IInv, TypeOK, Finish, Query
  <1>11. \A r : Says(r)' = Says(r)
    BY <1>1, SaysStable
  <1> QED
    BY <1>1, <1>8, <1>10, <1>11 DEF IInv, Finish, LoopInv, ParsedAsSpecified

LEMMA OtherSteps == IInv /\ (Refuse \/ Accept \/ Reparse \/ UNCHANGED vars) => IInv'
  <1> SUFFICES ASSUME IInv, Refuse \/ Accept \/ Reparse \/ UNCHANGED vars PROVE IInv'
    OBVIOUS
  <1>1. value' = value
    BY DEF Refuse, Accept, Reparse, vars
  <1>2. \A r : Says(r)' = Says(r)
    BY <1>1, SaysStable
  <1>3. CASE Refuse
    <2>1. Says(Error(value.kind)) /\ Error(value.kind) # NotYet
      BY <1>3, Kinds DEF Refuse, Says, IInv, TypeOK, Kind
    <2>2. TypeOK'
      BY <1>3, <2>1, Kinds DEF Refuse, IInv, TypeOK, Query
    <2> QED
      BY <1>2, <1>3, <2>1, <2>2 DEF Refuse, IInv, LoopInv, ParsedAsSpecified
  <1>4. CASE Accept
    <2>1. LastText({}, "none")
      BY DEF LastText
    <2>2. /\ {k \in 1..(1 - 1) : IsBtih(Query[k])} = {}
          /\ {k \in 1..(1 - 1) : IsDn(Query[k])} = {}
      OBVIOUS
    <2>3. TypeOK'
      BY <1>4 DEF Accept, IInv, TypeOK, Query
    <2>4. LoopInv'
      BY <1>1, <1>4, <2>1, <2>2 DEF Accept, IInv, LoopInv, LastText, Query
    <2> QED
      BY <1>2, <1>4, <2>3, <2>4 DEF Accept, IInv, ParsedAsSpecified
  <1>5. CASE Reparse
    <2>1. TypeOK'
      BY <1>5 DEF Reparse, IInv, TypeOK, Query
    <2>2. Says(result)
      BY <1>5 DEF Reparse, IInv, ParsedAsSpecified
    <2> QED
      BY <1>2, <1>5, <2>1, <2>2 DEF Reparse, IInv, LoopInv, ParsedAsSpecified
  <1>6. CASE UNCHANGED vars
    <2>1. TypeOK' /\ LoopInv'
      BY <1>6 DEF vars, IInv, TypeOK, LoopInv, Counts, LastText, Query
    <2> QED
      BY <1>2, <1>6, <2>1 DEF vars, IInv, ParsedAsSpecified
  <1> QED
    BY <1>3, <1>4, <1>5, <1>6

\* The invariant of the loop holds throughout.
THEOREM Invariance == Spec => []IInv
  <1>1. IInv /\ [Next]_vars => IInv'
    BY PairStep, FinishStep, OtherSteps DEF Next
  <1> QED
    BY <1>1, InitInv, PTL DEF Spec

\* Every variable of Magnet keeps its type.
THEOREM TypeCorrect == Spec => []TypeOK
  <1>1. IInv => TypeOK
    BY DEF IInv
  <1> QED
    BY <1>1, Invariance, PTL

\* from_str reads a magnet as the reference says, for a query of any length.
THEOREM Correct == Spec => []ParsedAsSpecified
  <1>1. IInv => ParsedAsSpecified
    BY DEF IInv
  <1> QED
    BY <1>1, Invariance, PTL

\* The text that Serialize and to_value give parses to the same magnet again.
THEOREM RoundTrip == Spec => []RereadSame
  <1>1. IInv => RereadSame
    <2> SUFFICES ASSUME IInv, pc = "done", kept # NotYet PROVE result = kept
      BY DEF RereadSame
    <2>1. IsMagnet(kept) /\ Says(kept) /\ Says(result)
      BY DEF IInv, TypeOK, ParsedAsSpecified
    <2>2. IsMagnet(result)
      <3>1. value.kind = "magnet" /\ Hashes # {}
        BY <2>1, Kinds DEF Says
      <3> QED
        BY <2>1, <3>1 DEF Says
    <2> QED
      BY <2>1, <2>2, SaysUnique DEF IInv
  <1> QED
    BY <1>1, Invariance, PTL

=============================================================================
