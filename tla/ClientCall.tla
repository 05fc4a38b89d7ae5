------------------------------ MODULE ClientCall ------------------------------
(***************************************************************************)
(* What a caller of the torrent client may rely on, and all App assumes of *)
(* it: a call reaches the server's handler at most once, succeeds only if  *)
(* it did, and may fail either way.  HttpSession implements it.            *)
(***************************************************************************)
CONSTANT Caller

VARIABLES
  taken,    \* the calls whose request the server has carried out
  result    \* [Caller -> "pending", "ok" or "error"]

vars == <<taken, result>>

Init ==
  /\ taken = {}
  /\ result = [c \in Caller |-> "pending"]

Take(c) ==
  /\ c \notin taken
  /\ result[c] = "pending"
  /\ taken' = taken \cup {c}
  /\ UNCHANGED result

Succeed(c) ==
  /\ c \in taken
  /\ result[c] = "pending"
  /\ result' = [result EXCEPT ![c] = "ok"]
  /\ UNCHANGED taken

Fail(c) ==
  /\ result[c] = "pending"
  /\ result' = [result EXCEPT ![c] = "error"]
  /\ UNCHANGED taken

Next == \E c \in Caller : Take(c) \/ Succeed(c) \/ Fail(c)

Spec == Init /\ [][Next]_vars

=============================================================================
