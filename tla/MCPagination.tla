---------------------------- MODULE MCPagination ----------------------------
(***************************************************************************)
(* An instance of Pagination for TLC: page sizes on both sides of the two  *)
(* bounds, and one status that records enter and leave.                    *)
(***************************************************************************)
EXTENDS Pagination

Sizes == -1..3

Asked == {"any", "SUBMITTED"}

=============================================================================
