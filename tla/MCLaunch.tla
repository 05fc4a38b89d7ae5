------------------------------- MODULE MCLaunch -------------------------------
(***************************************************************************)
(* An instance of Launch for TLC: init, two starts on the default store,   *)
(* one with a store of its own that wants the address of the first, and a  *)
(* command line that is refused, that of docker-compose.yaml.              *)
(***************************************************************************)
EXTENDS Launch, TLC

CONSTANTS i, s, t, u, c

Processes == {i, s, t, u, c}

Start(flags) == [run |-> "start", known |-> TRUE, env |-> Nothing, flags |-> flags]

At(address) == "listen_addr" :> address

Commands ==
  i :> [Start(Nothing) EXCEPT !.run = "init"]
    @@ s :> Start(At("host:1"))
    @@ t :> Start(At("host:2"))
    @@ u :> Start(At("host:1") @@ "store_path" :> "/elsewhere")
    @@ c :> [Start(Nothing) EXCEPT !.known = FALSE]

\* The torrent client only, as in the doc of TorrentClientConfig.
ClientOnly == Tree(KeysOf, [f \in {"host", "username", "password"} |-> "from file"])

Hosts  == {"host:1", "host:2"}
Roots  == {"/elsewhere"}
NoHome == Nothing

=============================================================================
