--------------------------- MODULE PaginationProofs ---------------------------
(***************************************************************************)
(* A walk over the pages misses nothing and repeats nothing, proved for    *)
(* every finite set of info hashes, all times and all page sizes.          *)
(***************************************************************************)
EXTENDS Pagination, FiniteSetTheorems, TLAPS

\* The walk has come to p or past it.
Reached(p) == p = after \/ Before(p, after)

\* The cursor parts what has been shown from what is still owed.
CursorInv ==
  /\ \A p \in shown : Reached(p)
  /\ \A p \in owed : p \in shown \/ After(p)
  /\ walk = "on" => owed \subseteq Matching
  /\ walk = "over" => owed \subseteq shown

IInv == TypeOK /\ CursorInv

-----------------------------------------------------------------------------
(* The order of the positions. *)

LEMMA PositionType ==
  ASSUME NEW p \in Position
  PROVE  p[1] \in Nat /\ p[2] \in Nat
<1>1. p[1] \in Time /\ p[2] \in InfoHash
  BY DEF Position
<1> QED
  BY <1>1, PaginationAssumption

\* Before is a strict order on the positions.
LEMMA BeforeOrder ==
  ASSUME NEW p \in Position, NEW q \in Position
  PROVE  /\ ~Before(p, p)
         /\ ~(Before(p, q) /\ Before(q, p))
         /\ \A r \in Position : Before(p, q) /\ Before(q, r) => Before(p, r)
<1>1. ASSUME NEW r \in Position
      PROVE  /\ ~Below(p, p)
             /\ ~(Below(p, q) /\ Below(q, p))
             /\ Below(p, q) /\ Below(q, r) => Below(p, r)
             /\ Below(r, q) /\ Below(q, p) => Below(r, p)
  BY PositionType DEF Below
<1> QED
  BY <1>1 DEF Before

\* The direction of the scan is the order the reader asks for.
LEMMA BeforeAsAsked ==
  ASSUME NEW p, NEW q
  PROVE  Before(p, q) <=> IF query.order = "ASC" THEN Below(p, q) ELSE Below(q, p)
  BY DEF Before, Direction, AppOrder

\* A cursor is a position, so it is not the missing one.
LEMMA CursorType ==
  ASSUME NEW p \in Position
  PROVE  p # NoCursor
  BY DEF Position, NoCursor

LEMMA MatchingType ==
  ASSUME created \in [InfoHash -> Time]
  PROVE  Matching \subseteq Position
  BY DEF Matching, PositionOf, Position

\* The two conversions of a status undo each other.
LEMMA SameStatus ==
  ASSUME NEW a \in ApiStatus, NEW s \in DownloadStatus
  PROVE  s = AsDomain(a) <=> a = AsApi(s)
  BY DEF ApiStatus, DownloadStatus, AsDomain, AsApi

LEMMA ScanIsRest ==
  ASSUME TypeOK
  PROVE  Scan = {p \in Matching : After(p)}
<1>1. ASSUME NEW h \in InfoHash, status[h] # "none"
      PROVE  HasPrefix(h) <=> query.status \in {"any", AsApi(status[h])}
  <2>1. status[h] \in DownloadStatus
    BY <1>1 DEF TypeOK
  <2>2. query.status \in ApiStatus \cup {"any"}
    BY PaginationAssumption DEF TypeOK, Query
  <2>3. CASE query.status = "any"
    BY <1>1, <2>3 DEF HasPrefix
  <2>4. CASE query.status # "any"
    BY <1>1, <2>1, <2>2, <2>4, SameStatus DEF HasPrefix
  <2> QED
    BY <2>3, <2>4
<1> QED
  BY <1>1 DEF Scan, Matching, HasPrefix, InRange

LEMMA ScanFinite == Cardinality(Scan) \in Nat
<1> DEFINE H == {x \in InfoHash : HasPrefix(x) /\ InRange(x) /\ After(PositionOf(x))}
<1>1. IsFiniteSet(H)
  BY PaginationAssumption, FS_Subset
<1> DEFINE f == [h \in H |-> PositionOf(h)]
<1>2. f \in Surjection(H, Scan)
  BY DEF Surjection, Scan
<1>3. IsFiniteSet(Scan)
  BY <1>1, <1>2, FS_Surjection DEF ExistsSurjection
<1> QED
  BY <1>3, FS_CardinalityType

-----------------------------------------------------------------------------
(* What a page takes from the scan. *)

Least(n, m) == IF n < m THEN n ELSE m

\* The first n entries of a listing, for take(n).
LEMMA TakenFacts ==
  ASSUME NEW S, NEW m \in Nat, NEW s \in [1..m -> S], NEW n \in Nat
  PROVE  /\ Len(Taken(s, n)) = Least(n, m)
         /\ Entries(Taken(s, n)) = {s[i] : i \in 1..Least(n, m)}
         /\ Least(n, m) # 0 => Taken(s, n)[Least(n, m)] = s[Least(n, m)]
         /\ Taken(s, n) = <<>> <=> Least(n, m) = 0
<1> DEFINE k == Least(n, m)
<1>1. s \in Seq(S) /\ Len(s) = m
  OBVIOUS
<1>2. Taken(s, n) = SubSeq(s, 1, k)
  BY <1>1 DEF Taken, Least
<1>3. k \in 0..m
  BY DEF Least
<1> HIDE DEF k
<1>4. /\ SubSeq(s, 1, k) \in Seq(S)
      /\ Len(SubSeq(s, 1, k)) = k
      /\ \A i \in 1..k : SubSeq(s, 1, k)[i] = s[i]
  BY <1>1, <1>3
<1>5. DOMAIN SubSeq(s, 1, k) = 1..k
  BY <1>4
<1>6. SubSeq(s, 1, k) = <<>> <=> k = 0
  BY <1>4, <1>3
<1>7. Entries(SubSeq(s, 1, k)) = {s[i] : i \in 1..k}
  BY <1>4, <1>5 DEF Entries
<1>8. k # 0 => SubSeq(s, 1, k)[k] = s[k]
  BY <1>3, <1>4
<1>9. /\ Len(Taken(s, n)) = k
      /\ Entries(Taken(s, n)) = {s[i] : i \in 1..k}
      /\ k # 0 => Taken(s, n)[k] = s[k]
      /\ Taken(s, n) = <<>> <=> k = 0
  BY <1>2, <1>4, <1>6, <1>7, <1>8
<1> QED
  BY <1>9 DEF k

\* A page shows entries up to its cursor, leaves those after it, and says that
\* it is the last only if it leaves none.
LEMMA PageFacts ==
  ASSUME NEW s \in Listings(Scan), NEW n \in Nat,
         Scan \subseteq Position
  PROVE  /\ Entries(Taken(s, n)) \subseteq Scan
         /\ Entries(Taken(s, n)) = {} => EndCursor(s, n) = after
         /\ Entries(Taken(s, n)) # {} => EndCursor(s, n) \in Entries(Taken(s, n))
         /\ \A p \in Entries(Taken(s, n)) :
              p = EndCursor(s, n) \/ Before(p, EndCursor(s, n))
         /\ \A p \in Scan \ Entries(Taken(s, n)) :
              /\ HasNext(s, n)
              /\ Entries(Taken(s, n)) # {} => Before(EndCursor(s, n), p)
<1> DEFINE m == Cardinality(Scan)
           k == Least(n, m)
           j == Least(n + 1, m)
<1>1. m \in Nat /\ s \in [1..m -> Scan]
  BY ScanFinite DEF Listings
<1>2. /\ \A p \in Scan : \E i \in 1..m : s[i] = p
      /\ \A i, l \in 1..m : i < l => Before(s[i], s[l])
  BY <1>1 DEF Listings
<1> HIDE DEF m
<1>3. /\ k \in 0..m /\ j \in 0..m /\ n + 1 \in Nat
      /\ k < m => k = n /\ j = n + 1
  BY <1>1 DEF Least
<1>4. /\ Len(Taken(s, n)) = k
      /\ Entries(Taken(s, n)) = {s[i] : i \in 1..k}
      /\ k # 0 => Taken(s, n)[k] = s[k]
      /\ Taken(s, n) = <<>> <=> k = 0
  BY <1>1, TakenFacts
<1>5. Len(Taken(s, n + 1)) = j
  BY <1>1, <1>3, TakenFacts
<1> HIDE DEF k, j
<1>6. k # 0 => EndCursor(s, n) = s[k]
  BY <1>4 DEF EndCursor
<1>7. k = 0 => EndCursor(s, n) = after
  BY <1>4 DEF EndCursor
<1>8. Entries(Taken(s, n)) # {} <=> k # 0
  BY <1>3, <1>4
<1>9. \A p \in Entries(Taken(s, n)) : p = EndCursor(s, n) \/ Before(p, EndCursor(s, n))
  <2> SUFFICES ASSUME NEW i \in 1..k
               PROVE  s[i] = EndCursor(s, n) \/ Before(s[i], EndCursor(s, n))
    BY <1>4
  <2>1. k \in 1..m /\ i \in 1..m /\ (i = k \/ i < k)
    BY <1>1, <1>3
  <2> QED
    BY <2>1, <1>2, <1>6
<1>10. ASSUME NEW p \in Scan \ Entries(Taken(s, n))
       PROVE  /\ HasNext(s, n)
              /\ Entries(Taken(s, n)) # {} => Before(EndCursor(s, n), p)
  <2>1. PICK i \in 1..m : s[i] = p
    BY <1>2
  <2>2. i \notin 1..k
    BY <1>4, <2>1, <1>10
  <2>3. k = n /\ j = n + 1 /\ n < i
    BY <1>1, <1>3, <2>1, <2>2
  <2>4. HasNext(s, n)
    BY <1>1, <1>5, <2>3 DEF HasNext
  <2>5. k # 0 => Before(EndCursor(s, n), p)
    BY <1>1, <1>2, <1>3, <1>6, <2>1, <2>3
  <2> QED
    BY <2>4, <2>5, <1>8
<1>11. Entries(Taken(s, n)) \subseteq Scan
  BY <1>1, <1>3, <1>4
<1>12. k # 0 => s[k] \in Entries(Taken(s, n))
  BY <1>1, <1>3, <1>4
<1> QED
  BY <1>6, <1>7, <1>8, <1>9, <1>10, <1>11, <1>12

-----------------------------------------------------------------------------
(* The inductive invariant. *)

LEMMA InvInit == Init => IInv
  BY PaginationAssumption DEF Init, Life!Init, DownloadStatus, IInv, TypeOK, CursorInv, NoCursor, Query, Position

LEMMA StoreSafe ==
  ASSUME IInv, StoreStep
  PROVE  IInv'
<1>1. created' \in [InfoHash -> Time]
  BY PaginationAssumption
  DEF IInv, TypeOK, StoreStep, Inserted, Updated, Removed
<1>2. owed' \subseteq owed /\ (walk = "on" => owed' \subseteq Matching')
  BY DEF StoreStep
<1>3. walk # "on" => owed' = {}
  BY DEF StoreStep
<1>4. status' \in [InfoHash -> DownloadStatus \cup {"none"}]
  BY DEF IInv, TypeOK, StoreStep, Inserted, Updated, Removed, DownloadStatus, Life!Moves,
      Life!Accept, Life!Confirm, Life!Progress, Life!Complete, Life!Import, Life!Fail,
      Life!Forget
<1>5. TypeOK'
  BY <1>1, <1>2, <1>4 DEF IInv, TypeOK, StoreStep, reader
<1>6. CursorInv'
  BY <1>2, <1>3 DEF IInv, TypeOK, CursorInv, StoreStep, reader, Reached, After, Before
<1> QED
  BY <1>5, <1>6 DEF IInv

LEMMA BeginSafe ==
  ASSUME IInv, NEW q \in Query, Begin(q)
  PROVE  IInv'
<1>1. created' \in [InfoHash -> Time]
  BY DEF IInv, TypeOK, Begin, store
<1>2. owed' = Matching' /\ owed' \subseteq Position
  BY <1>1 DEF Begin, Matching, PositionOf, Position
<1>3. TypeOK'
  BY <1>1, <1>2 DEF IInv, TypeOK, Begin, store
<1>4. CursorInv'
  BY <1>2 DEF CursorInv, Begin, After
<1> QED
  BY <1>3, <1>4 DEF IInv

\* What a page shows comes after all that was shown before.
LEMMA PageAfterShown ==
  ASSUME IInv, NEW p \in Scan, NEW q \in shown
  PROVE  Before(q, p)
<1>0. TypeOK /\ created \in [InfoHash -> Time]
  BY DEF IInv, TypeOK
<1>1. p \in Position /\ After(p)
  BY <1>0, ScanIsRest, MatchingType
<1>2. q \in Position /\ after \in Position /\ after # NoCursor
  BY DEF IInv, TypeOK
<1>3. Before(after, p)
  BY <1>1, <1>2 DEF After
<1>4. q = after \/ Before(q, after)
  BY DEF IInv, CursorInv, Reached
<1> QED
  BY <1>1, <1>2, <1>3, <1>4, BeforeOrder

LEMMA PageSafe ==
  ASSUME IInv, NEW first \in First, Page(first)
  PROVE  IInv'
<1>1. PICK s \in Listings(Scan) :
        /\ page' = Entries(Taken(s, first))
        /\ shown' = shown \cup page'
        /\ after' = EndCursor(s, first)
        /\ walk' = IF HasNext(s, first) THEN "on" ELSE "over"
  BY DEF Page
<1>2. first \in Nat /\ walk = "on" /\ UNCHANGED <<status, path, created, query, owed>>
  BY PaginationAssumption DEF Page, store
<1>0. TypeOK /\ created \in [InfoHash -> Time]
  BY DEF IInv, TypeOK
<1>3. Scan = {p \in Matching : After(p)} /\ Scan \subseteq Position
  BY <1>0, ScanIsRest, MatchingType
<1>4. /\ page' \subseteq Scan
      /\ page' = {} => after' = after
      /\ page' # {} => after' \in page'
      /\ \A p \in page' : p = after' \/ Before(p, after')
      /\ \A p \in Scan \ page' :
           /\ HasNext(s, first)
           /\ page' # {} => Before(after', p)
  BY <1>1, <1>2, <1>3, PageFacts
<1>5. TypeOK'
  BY <1>1, <1>2, <1>3, <1>4, CursorType DEF IInv, TypeOK
<1>6. Matching' = Matching
  BY <1>2 DEF Matching, PositionOf
<1>7. \A p, q \in Position : Before(p, q)' <=> Before(p, q)
  BY <1>2 DEF Before
<1>8. ASSUME NEW p \in shown'
      PROVE  Reached(p)'
  <2>1. CASE p \in page'
    BY <2>1, <1>2, <1>4 DEF Reached, Before
  <2>2. CASE p \in shown /\ page' = {}
    BY <2>2, <1>2, <1>4 DEF IInv, CursorInv, Reached, Before
  <2>3. CASE p \in shown /\ page' # {}
    BY <2>3, <1>2, <1>4, PageAfterShown DEF Reached, Before
  <2> QED
    BY <1>1, <1>8, <2>1, <2>2, <2>3
<1>9. ASSUME NEW p \in owed
      PROVE  p \in shown' \/ (After(p)' /\ HasNext(s, first))
  <2>1. CASE p \in shown \cup page'
    BY <2>1, <1>1
  <2>2. CASE p \notin shown \cup page'
    <3>1. p \in Scan \ page'
      BY <2>2, <1>2, <1>3 DEF IInv, CursorInv
    <3>2. CASE page' = {}
      BY <3>1, <3>2, <1>2, <1>3, <1>4 DEF After, Before
    <3>3. CASE page' # {}
      BY <3>1, <3>3, <1>2, <1>4 DEF After, Before
    <3> QED
      BY <3>2, <3>3
  <2> QED
    BY <2>1, <2>2
<1>10. CursorInv'
  BY <1>1, <1>2, <1>6, <1>8, <1>9 DEF IInv, CursorInv
<1> QED
  BY <1>5, <1>10 DEF IInv

LEMMA InvStep == IInv /\ [Next]_vars => IInv'
<1> SUFFICES ASSUME IInv, [Next]_vars PROVE IInv'
  OBVIOUS
<1>1. CASE StoreStep
  BY <1>1, StoreSafe
<1>2. ASSUME NEW q \in Query, Begin(q) PROVE IInv'
  BY <1>2, BeginSafe
<1>3. ASSUME NEW first \in First, Page(first) PROVE IInv'
  BY <1>3, PageSafe
<1>4. CASE UNCHANGED vars
  BY <1>4
  DEF IInv, TypeOK, CursorInv, Matching, PositionOf, Reached, After, Before, vars, store, reader
<1> QED
  BY <1>1, <1>2, <1>3, <1>4 DEF Next

\* Every reachable state satisfies IInv: the cursor of schema.rs parts what has
\* been shown from what is still to be shown.
THEOREM Invariance == Spec => []IInv
  BY InvInit, InvStep, PTL DEF Spec

\* Records, reader and histories have their types, and a cursor is always one
\* the walk has shown.
THEOREM TypeCorrect == Spec => []TypeOK
<1>1. IInv => TypeOK
  BY DEF IInv
<1> QED
  BY <1>1, Invariance, PTL

\* A walk to the last page shows every record that matched all the time.
THEOREM Complete == Spec => []NoneMissed
<1>1. IInv => NoneMissed
  BY DEF IInv, CursorInv, NoneMissed
<1> QED
  BY <1>1, Invariance, PTL

\* Every page comes after the ones before it: nothing is shown twice.
THEOREM Ordered == Spec => PagesInOrder
<1>1. IInv /\ [Next]_vars =>
      [\A p \in page', q \in shown :
         IF query.order = "ASC" THEN Below(q, p) ELSE Below(p, q)]_vars
  <2> SUFFICES ASSUME IInv, Next, NEW p \in page', NEW q \in shown PROVE Before(q, p)
    BY BeforeAsAsked
  <2>1. CASE StoreStep
    BY <2>1 DEF StoreStep
  <2>2. ASSUME NEW r \in Query, Begin(r) PROVE Before(q, p)
    BY <2>2 DEF Begin
  <2>3. ASSUME NEW first \in First, Page(first) PROVE Before(q, p)
    <3>1. PICK s \in Listings(Scan) : page' = Entries(Taken(s, first))
      BY <2>3 DEF Page
    <3>0. TypeOK /\ created \in [InfoHash -> Time]
      BY DEF IInv, TypeOK
    <3>2. first \in Nat /\ Scan \subseteq Position
      BY <2>3, <3>0, PaginationAssumption, ScanIsRest, MatchingType DEF Page
    <3>3. p \in Scan
      BY <3>1, <3>2, PageFacts
    <3> QED
      BY <3>3, PageAfterShown
  <2> QED
    BY <2>1, <2>2, <2>3 DEF Next
<1> QED
  BY <1>1, Invariance, PTL DEF Spec, PagesInOrder
=============================================================================
