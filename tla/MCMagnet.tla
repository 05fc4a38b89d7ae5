------------------------------- MODULE MCMagnet -------------------------------
(***************************************************************************)
(* An instance of Magnet for TLC: two info hashes (of which one is empty)  *)
(* and two names in both spellings, another namespace and another key.     *)
(***************************************************************************)
EXTENDS Magnet

Pairs ==
  {[key |-> "xt", urn |-> "urn:btih:", text |-> "abc"],
   [key |-> "XT", urn |-> "URN:BTIH:", text |-> ""],
   [key |-> "xt", urn |-> "urn:btmh:", text |-> "abc"],
   [key |-> "dn", urn |-> "", text |-> "title"],
   [key |-> "DN", urn |-> "", text |-> "other"],
   [key |-> "tr", urn |-> "", text |-> "tracker"]}

=============================================================================
