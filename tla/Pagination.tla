----------------------------- MODULE Pagination -----------------------------
(***************************************************************************)
(* The downloads query of src/graphql/schema.rs over the scans of          *)
(* src/store/download.rs: a reader walks through the records page by page, *)
(* giving the last cursor of one page to the next, while records come, go  *)
(* and change status as DownloadLifecycle says (App implements it).        *)
(*                                                                         *)
(* A page is read in one redb transaction, hence from one snapshot.  Both  *)
(* indexes order their entries by creation time, then info hash (the       *)
(* library completes a Multi key with the item's own); one has the status  *)
(* as a prefix.  A position is such an entry without its status, and a     *)
(* cursor is a position.  Info hashes are numbers here, for their order.   *)
(*                                                                         *)
(* created_at is read from the clock before the insert, by tasks that run  *)
(* in parallel and from a clock that may be set back: any value may come.  *)
(* An error (a bad cursor, a page size out of range, a failing read) gives *)
(* the reader nothing and changes nothing, so it has no step.              *)
(***************************************************************************)
EXTENDS DownloadTypes, Integers, Sequences, FiniteSets

CONSTANTS
  Time,           \* creation times
  First,          \* the page sizes readers ask for
  Statuses,       \* the statuses they ask for, "any" when none is given
  MaxPageSize

\* The statuses and orders of the API, as its readers write them.
ApiStatus == {"QUEUED", "SUBMITTED", "DOWNLOADING", "IMPORTING", "IMPORTED", "FAILED"}

ApiOrder == {"ASC", "DESC"}   \* one that is not given is DESC

ASSUME PaginationAssumption ==
  /\ InfoHash \subseteq Nat /\ IsFiniteSet(InfoHash)
  /\ Time \subseteq Nat /\ 0 \in Time
  /\ First \subseteq Int
  /\ Statuses \subseteq ApiStatus \cup {"any"}
  /\ MaxPageSize \in Nat

VARIABLES
  status, path,   \* the records' lives, as in DownloadLifecycle
  created,        \* [InfoHash -> creation time], 0 without a record
  query,          \* the arguments the reader gives with every page
  after,          \* its cursor
  walk,           \* "on" until a page comes with hasNextPage = FALSE
  page,           \* history: what this step showed
  shown,          \* history: what all pages of the walk showed
  owed            \* history: what has matched the query since the walk began

store  == <<status, path, created>>
reader == <<query, after, walk, shown>>
vars   == <<store, reader, page, owed>>

\* A page does not depend on a record's path, so one name stands for all.
Life == INSTANCE DownloadLifecycle WITH Name <- {"content"}

NoCursor == <<>>
Position == Time \X InfoHash

Query == [status : Statuses, from : Time, order : ApiOrder]   \* from 0: no bound

\* The types of the state; a cursor is always one of an entry the walk has shown.
TypeOK ==
  /\ status \in [InfoHash -> DownloadStatus \cup {"none"}]
  /\ created \in [InfoHash -> Time]
  /\ query \in Query
  /\ walk \in {"on", "over"}
  /\ page \subseteq shown
  /\ shown \subseteq Position
  /\ owed \subseteq Position
  /\ after \in shown \cup {NoCursor}
  /\ shown # {} => after # NoCursor

PositionOf(h) == <<created[h], h>>

Below(p, q) == p[1] < q[1] \/ (p[1] = q[1] /\ p[2] < q[2])

\* The status of the API as the domain's, to filter by it; and the other way
\* round, to show it.
AsDomain(s) ==
  CASE s = "QUEUED"      -> "Queued"
    [] s = "SUBMITTED"   -> "Submitted"
    [] s = "DOWNLOADING" -> "Downloading"
    [] s = "IMPORTING"   -> "Importing"
    [] s = "IMPORTED"    -> "Imported"
    [] s = "FAILED"      -> "Failed"

AsApi(s) ==
  CASE s = "Queued"      -> "QUEUED"
    [] s = "Submitted"   -> "SUBMITTED"
    [] s = "Downloading" -> "DOWNLOADING"
    [] s = "Importing"   -> "IMPORTING"
    [] s = "Imported"    -> "IMPORTED"
    [] s = "Failed"      -> "FAILED"

\* The order of the API as the service's, and as the direction of the iterator.
AppOrder(o)  == IF o = "ASC" THEN "Asc" ELSE "Desc"
Direction(o) == IF o = "Asc" THEN "LeftToRight" ELSE "RightToLeft"

\* p comes before q in the scan's direction.
Before(p, q) ==
  IF Direction(AppOrder(query.order)) = "LeftToRight" THEN Below(p, q) ELSE Below(q, p)

\* Mutant of After: the cursor's own entry is included.
AfterOrAt(p) == after = NoCursor \/ p = after \/ Before(after, p)

\* .after(cursor): strictly after it, in the direction of the scan.
After(p) == after = NoCursor \/ Before(after, p)

\* .range(since..): a lower bound in both directions.
InRange(h) == created[h] >= query.from

\* .prefix(status), or the index without one.
HasPrefix(h) ==
  /\ status[h] # "none"
  /\ query.status # "any" => status[h] = AsDomain(query.status)

\* The four scans: what is left of the index after prefix, range and cursor.
Scan == {PositionOf(h) : h \in {x \in InfoHash : HasPrefix(x) /\ InRange(x) /\ After(PositionOf(x))}}

\* The entries S as the iterator yields them: each once, in the scan's order.
Listings(S) ==
  {s \in [1..Cardinality(S) -> S] :
     /\ \A p \in S : \E i \in DOMAIN s : s[i] = p
     /\ \A i, j \in DOMAIN s : i < j => Before(s[i], s[j])}

Taken(s, n) == SubSeq(s, 1, IF n < Len(s) THEN n ELSE Len(s))

\* Mutant of EndCursor: the entry in excess is dropped after the cursors are made.
EndCursorOfTaken(s, n) ==
  IF Taken(s, n + 1) = <<>> THEN after ELSE Taken(s, n + 1)[Len(Taken(s, n + 1))]

\* endCursor; a page without entries has none, and the reader keeps what it has.
EndCursor(s, n) ==
  IF Taken(s, n) = <<>> THEN after ELSE Taken(s, n)[Len(Taken(s, n))]

Entries(s) == {s[i] : i \in DOMAIN s}

\* Mutant of HasNext: only the entries of the page are taken.
HasNextOfPage(s, n) == Len(Taken(s, n)) > n

\* One entry more than the page needs is taken, to see whether there is one.
HasNext(s, n) == Len(Taken(s, n + 1)) > n

\* What readers see selected by their filters, whatever they have read.
Matching ==
  {PositionOf(h) : h \in {x \in InfoHash :
     /\ status[x] # "none" /\ query.status \in {"any", AsApi(status[x])}
     /\ created[x] >= query.from}}

Init ==
  /\ Life!Init
  /\ created = [h \in InfoHash |-> 0]
  /\ query \in Query
  /\ after = NoCursor
  /\ walk = "over"
  /\ page = {} /\ shown = {} /\ owed = {}

-----------------------------------------------------------------------------
(* The store.  A new record may have any creation time, and keeps it. *)

Inserted(h) ==
  /\ Life!Accept(h)
  /\ \E t \in Time : created' = [created EXCEPT ![h] = t]

Updated(h) ==
  /\ \/ Life!Confirm(h) \/ Life!Progress(h) \/ Life!Complete(h)
     \/ Life!Import(h) \/ Life!Fail(h)
  /\ UNCHANGED created

Removed(h) ==
  /\ Life!Forget(h)
  /\ created' = [created EXCEPT ![h] = 0]

StoreStep ==
  /\ UNCHANGED reader
  /\ page' = {}
  /\ \E h \in InfoHash : Inserted(h) \/ Updated(h) \/ Removed(h)
  /\ owed' = IF walk = "on" THEN owed \cap Matching' ELSE {}

-----------------------------------------------------------------------------
(* The reader. *)

\* A walk given up leaves nothing behind: it is enough to begin after one is over.
Begin(q) ==
  /\ walk = "over"
  /\ query' = q
  /\ after' = NoCursor
  /\ walk' = "on"
  /\ page' = {} /\ shown' = {}
  /\ UNCHANGED store
  /\ owed' = Matching'

\* downloads(status, from, after, first, order).
Page(first) ==
  /\ walk = "on"
  /\ first >= 0 /\ first <= MaxPageSize
  /\ \E s \in Listings(Scan) :
       /\ page' = Entries(Taken(s, first))
       /\ shown' = shown \cup page'
       /\ after' = EndCursor(s, first)
       /\ walk' = IF HasNext(s, first) THEN "on" ELSE "over"
  /\ UNCHANGED <<store, query, owed>>

Next ==
  \/ StoreStep
  \/ \E q \in Query : Begin(q)
  \/ \E first \in First : Page(first)

Spec == Init /\ [][Next]_vars

-----------------------------------------------------------------------------

\* A reader that goes on until hasNextPage is false has been shown every record
\* that matched its query all the time, whatever was inserted, removed or
\* changed between its pages (schema.rs takes one entry more than it shows; the
\* cursor need not be in the store any more).
NoneMissed == walk = "over" => owed \subseteq shown

\* A page comes after all pages before it in the order asked for; so nothing is
\* shown twice, also when a record it came across has since changed its status.
PagesInOrder ==
  [][\A p \in page', q \in shown :
       IF query.order = "ASC" THEN Below(q, p) ELSE Below(p, q)]_vars

=============================================================================
