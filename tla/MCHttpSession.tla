---------------------------- MODULE MCHttpSession ----------------------------
(***************************************************************************)
(* An instance of HttpSession for TLC: one call that is handed an old      *)
(* session, one that renews it, and one that finds the new one expired.    *)
(***************************************************************************)
EXTENDS HttpSession

CONSTANTS c1, c2, c3

Callers == {c1, c2, c3}

=============================================================================
