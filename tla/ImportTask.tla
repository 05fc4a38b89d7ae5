----------------------------- MODULE ImportTask -----------------------------
(***************************************************************************)
(* What the poll loop may rely on when it hands a download to an import,   *)
(* and all App assumes of one: while it copies, any part of the content    *)
(* may be in the target; it succeeds only with all of it there, which then *)
(* stays until the outcome is recorded; one that is not recorded is done   *)
(* again.  ImportCopy implements it.                                       *)
(***************************************************************************)
VARIABLES
  copied,    \* whether all that is left of the content is in the target
  outcome,   \* "none", "imported" or "failed"
  recorded   \* whether the record says so

vars == <<copied, outcome, recorded>>

Init ==
  /\ copied \in BOOLEAN
  /\ outcome = "none"
  /\ recorded = FALSE

\* Files are written, or truncated, or the client takes some away.
Copies ==
  /\ ~recorded /\ outcome # "imported"
  /\ copied' \in BOOLEAN
  /\ UNCHANGED <<outcome, recorded>>

Finishes ==
  /\ copied /\ outcome = "none"
  /\ outcome' = "imported"
  /\ UNCHANGED <<copied, recorded>>

Fails ==
  /\ outcome = "none"
  /\ outcome' = "failed"
  /\ copied' \in BOOLEAN
  /\ UNCHANGED recorded

Records ==
  /\ outcome # "none" /\ ~recorded
  /\ recorded' = TRUE
  /\ UNCHANGED <<copied, outcome>>

\* The process dies, or the record is not written.
Again ==
  /\ ~recorded
  /\ outcome' = "none"
  /\ UNCHANGED <<copied, recorded>>

Next == Copies \/ Finishes \/ Fails \/ Records \/ Again

Spec == Init /\ [][Next]_vars

=============================================================================
