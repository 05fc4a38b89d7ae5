----------------------------- MODULE MCConfigLoad -----------------------------
(***************************************************************************)
(* Instances of ConfigLoad for TLC.  The files are written by hand, as the *)
(* doc of TorrentClientConfig and docker/magnarr-config.yaml show, whole   *)
(* or in part, or by init.                                                 *)
(***************************************************************************)
EXTENDS ConfigLoad, TLC

Whole == [f \in Field |-> "from file"]

Restricted(fields) == [f \in fields |-> "from file"]

Bad == [Whole EXCEPT !.poll_interval = "bad"]

ByHand ==
  {Nothing, Tree(KeysOf, Whole), Tree(KeysOf, Bad)}
    \cup {Tree(KeysOf, Restricted({f})) : f \in Field}

ByInit == {Serialized(Default)}

HandOrInit == ByHand \cup ByInit

\* Variables for up to two fields, or for all of them.
SomeEnv == {{f, g} : f \in Field, g \in Field} \cup {{}, Field}

\* Flags for up to two fields, or for all; paths also with "~" and not UTF-8.
Given(fields, path) ==
  [f \in fields |-> IF f \in PathField THEN path ELSE "from flag"]
SomeFlags ==
  {Given({f, g}, p) : f \in Field, g \in Field, p \in {"from flag", "~/from flag", "odd"}}
    \cup {Nothing, Given(Field, "/from flag")}

\* The container image sets one variable.
NoFile   == {Nothing}
ImageEnv == {{"listen_addr"}}
NoFlags  == {Nothing}

Homes == "~/from flag" :> "/home/user/from flag"

Roots == {"/from flag", "/home/user/from flag", "/app/data/magnarr.redb"}

=============================================================================
