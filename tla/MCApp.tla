-------------------------------- MODULE MCApp --------------------------------
(***************************************************************************)
(* Instances of App for TLC.  The state names are one of each class that   *)
(* parse_state tells apart, with and without metadata; empty is the text   *)
(* of no info hash, which the client's filter takes for no filter.         *)
(***************************************************************************)
EXTENDS App, TLC

CONSTANTS r1, r2, h1, empty

SeedStates == {"metaDL", "uploading"}
ErrStates  == {"metaDL", "uploading", "missingFiles"}
OddStates  == {"metaDL", "uploading", "moving"}
MetaStates == {"metaDL"}

Hashes == [h \in InfoHash |-> IF h = empty THEN InfoHash \ {h} ELSE {h}]

SlowClient == {"storage", "client", "lost_answer", "slow_add", "drop", "crash", "cancel"}
Prompt     == {"storage", "client", "drop", "crash"}
Dropping   == {"drop"}

=============================================================================
