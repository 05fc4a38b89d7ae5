-------------------------------- MODULE Magnet --------------------------------
(***************************************************************************)
(* Magnet::from_str of src/types/magnet.rs, as the GraphQL scalar of       *)
(* src/graphql/scalars.rs calls it on what a mutation brings, and as the   *)
(* store and a reader of the API call it again on the text it kept.        *)
(*                                                                         *)
(* The loop over the query pairs is a state machine with an index, so that *)
(* its result can be proved for a query of any length.  Of a text only     *)
(* what the code looks at is kept: what kind of value it is, and for a     *)
(* pair its key, the namespace of its value and what follows that.         *)
(***************************************************************************)
EXTENDS Integers, Sequences

CONSTANTS
  Param,        \* the query pairs of magnets
  MaxParams     \* how many a magnet has at most

Dn == {"dn", "DN"}              \* spellings that eq_ignore_ascii_case takes
Xt == {"xt", "XT"}
BtihUrn == {"urn:btih:", "URN:BTIH:"}   \* what to_lowercase maps to the prefix

ASSUME MagnetAssumption ==
  /\ MaxParams \in Nat
  /\ \A p \in Param : DOMAIN p = {"key", "urn", "text"} /\ p.text # "none"

VARIABLES
  value,    \* the GraphQL value: its kind, and the pairs of its query
  pc,       \* "parse" -> "loop" -> "done"
  i,        \* the pair that comes next
  hash,     \* the two Options of the loop, "none" without a value
  name,
  result,   \* what from_str answered, "none" before
  kept      \* what it answered on the value the store has kept, "none" before

vars == <<value, pc, i, hash, name, result, kept>>

Kind == {"not a string", "not a URI", "another scheme", "magnet"}

Error(e)     == [error |-> e]
Parsed(h, n) == [info_hash |-> h, name |-> n]

IsMagnet(r) ==
  DOMAIN r = {"info_hash", "name"} /\ r = Parsed(r.info_hash, r.name)

NotYet == [error |-> "none"]

Query == value.query

Init ==
  /\ \E n \in 0..MaxParams :
       value \in [kind : IF n = 0 THEN Kind ELSE {"magnet"}, query : [1..n -> Param]]
  /\ pc = "parse"
  /\ i = 1
  /\ hash = "none" /\ name = "none"
  /\ result = NotYet /\ kept = NotYet

\* ScalarType::parse refuses other values than strings, from_str what is not a
\* URI, or one of another scheme.
Refuse ==
  /\ pc = "parse"
  /\ value.kind # "magnet"
  /\ pc' = "done"
  /\ result' = Error(value.kind)
  /\ UNCHANGED <<value, i, hash, name, kept>>

Accept ==
  /\ pc = "parse"
  /\ value.kind = "magnet"
  /\ pc' = "loop"
  /\ UNCHANGED <<value, i, hash, name, result, kept>>

\* xt pairs of another namespace are passed over.
IsBtih(p) == p.key \in Xt /\ p.urn \in BtihUrn

IsDn(p) == p.key \in Dn

\* Mutant of BothFound: no early break.
NeverBoth(h, n) == FALSE

\* The break: nothing after it is looked at.
BothFound(h, n) == h # "none" /\ n # "none"

\* One pair; each kind overwrites what an earlier one left.
Pair ==
  /\ pc = "loop"
  /\ i <= Len(Query)
  /\ ~BothFound(hash, name)
  /\ hash' = IF IsBtih(Query[i]) THEN Query[i].text ELSE hash
  /\ name' = IF IsDn(Query[i]) THEN Query[i].text ELSE name
  /\ i' = i + 1
  /\ UNCHANGED <<value, pc, result, kept>>

Answer ==
  IF hash = "none" THEN Error("missing info hash") ELSE Parsed(hash, name)

Finish ==
  /\ pc = "loop"
  /\ i > Len(Query) \/ BothFound(hash, name)
  /\ pc' = "done"
  /\ result' = Answer
  /\ UNCHANGED <<value, i, hash, name, kept>>

\* Mutant of Reparse: the text that is kept has only what identifies the torrent.
ReparseRebuilt ==
  /\ pc = "done"
  /\ IsMagnet(result) /\ kept = NotYet
  /\ kept' = result
  /\ pc' = "parse"
  /\ i' = 1
  /\ hash' = "none" /\ name' = "none"
  /\ result' = NotYet
  /\ value' = [value EXCEPT !.query = SelectSeq(Query, IsBtih)]

\* Serialize and to_value give the text as it came; the store that reads a
\* record, or a reader that submits what it was shown, has it parsed again.
Reparse ==
  /\ pc = "done"
  /\ IsMagnet(result) /\ kept = NotYet
  /\ kept' = result
  /\ pc' = "parse"
  /\ i' = 1
  /\ hash' = "none" /\ name' = "none"
  /\ result' = NotYet
  /\ UNCHANGED value

Next == Refuse \/ Accept \/ Pair \/ Finish \/ Reparse

Spec == Init /\ [][Next]_vars

-----------------------------------------------------------------------------

\* The types of the state, and how far the loop may have come.
TypeOK ==
  /\ value \in [kind : Kind, query : Seq(Param)]
  /\ pc \in {"parse", "loop", "done"}
  /\ i \in 1..Len(Query) + 1
  /\ \A r \in {result, kept} : IsMagnet(r) \/ DOMAIN r = {"error"}
  /\ (pc = "done") = (result # NotYet)
  /\ kept = NotYet \/ IsMagnet(kept)

\* The reference: the pairs that count are those which do not have both a hash
\* and a name somewhere before them, and of these the last of its kind counts.
Counts(k) ==
  ~ \E b, d \in 1..(k - 1) : IsBtih(Query[b]) /\ IsDn(Query[d])

Hashes == {k \in 1..Len(Query) : Counts(k) /\ IsBtih(Query[k])}
Names  == {k \in 1..Len(Query) : Counts(k) /\ IsDn(Query[k])}

LastText(S, t) ==
  IF S = {} THEN t = "none"
  ELSE \E k \in S : (\A j \in S : j <= k) /\ t = Query[k].text

Says(r) ==
  /\ value.kind # "magnet" => r = Error(value.kind)
  /\ value.kind = "magnet" =>
       IF Hashes = {} THEN r = Error("missing info hash")
       ELSE IsMagnet(r) /\ LastText(Hashes, r.info_hash) /\ LastText(Names, r.name)

\* A magnet is read as the reference says, whatever the number, the order and
\* the spelling of its pairs: info_hash() is the hash of an
\* "xt=urn:btih:<hash>" pair and name() that of a "dn=<name>" pair (the docs of
\* these accessors), the name may be missing, the hash may not (from_str).
ParsedAsSpecified == pc = "done" => Says(result)

\* A record reads back under the key it was stored under: the kept text parses
\* again, and to the same hash and name (Deserialize, from_bytes, MagnetUri).
RereadSame == pc = "done" /\ kept # NotYet => result = kept

=============================================================================
