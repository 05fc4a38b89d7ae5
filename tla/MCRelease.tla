------------------------------ MODULE MCRelease ------------------------------
(***************************************************************************)
(* An instance of Release for TLC: a crate at 0.1.0 that is released for   *)
(* the first time, and after that for two more commits.                    *)
(***************************************************************************)
EXTENDS Release

FewKinds == {"feat", "other"}

Kinds   == {"feat!", "feat", "fix", "other"}
Initial == <<0, 1, 0>>

=============================================================================
