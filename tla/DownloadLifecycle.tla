-------------------------- MODULE DownloadLifecycle --------------------------
(***************************************************************************)
(* What the download service promises about one record, whatever runs      *)
(* concurrently and whatever fails: the steps its stored status may take,  *)
(* and that the import path is recorded by the step to Imported only, and  *)
(* names the content of a torrent.  App implements this specification.     *)
(***************************************************************************)
CONSTANTS
  InfoHash,
  Name         \* what the content of a torrent may be called in an import path

VARIABLES
  status,   \* [InfoHash -> status], "none" when there is no record
  path      \* [InfoHash -> imported path], "none" until imported

vars == <<status, path>>

Moves(h, from, to) ==
  /\ status[h] \in from
  /\ status' = [status EXCEPT ![h] = to]

Init ==
  /\ status = [h \in InfoHash |-> "none"]
  /\ path = [h \in InfoHash |-> "none"]

Accept(h)   == Moves(h, {"none"}, "Queued") /\ UNCHANGED path
Confirm(h)  == Moves(h, {"Queued"}, "Submitted") /\ UNCHANGED path
Progress(h) == Moves(h, {"Submitted"}, "Downloading") /\ UNCHANGED path
Complete(h) == Moves(h, {"Submitted", "Downloading"}, "Importing") /\ UNCHANGED path

\* Rolled back before the client has it, or gone from the client.  A record
\* whose import has begun or ended is never taken away.
Forget(h) ==
  Moves(h, {"Queued", "Submitted", "Downloading"}, "none") /\ UNCHANGED path

Import(h) ==
  /\ Moves(h, {"Importing"}, "Imported")
  /\ \E name \in Name : path' = [path EXCEPT ![h] = name]

Fail(h) ==
  Moves(h, {"Submitted", "Downloading", "Importing"}, "Failed") /\ UNCHANGED path

Next ==
  \E h \in InfoHash :
    \/ Accept(h) \/ Confirm(h) \/ Progress(h) \/ Complete(h)
    \/ Forget(h) \/ Import(h) \/ Fail(h)

Spec == Init /\ [][Next]_vars

=============================================================================
