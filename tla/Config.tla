-------------------------------- MODULE Config --------------------------------
(***************************************************************************)
(* load_config of src/cli/config.rs: the configuration as the merge of the *)
(* defaults, the file config.yaml in the home directory, the environment   *)
(* and the flags of `magnarr start`, and its paths as the process uses     *)
(* them.                                                                   *)
(*                                                                         *)
(* A source is a tree of keys, given by its leaves: a function from key    *)
(* paths to values.  What the code takes from libraries is external here:  *)
(* config-rs merges trees leaf by leaf, takes the words between two        *)
(* separators of a variable's name for keys, and reads an enum from a      *)
(* table of exactly one key; serde_yaml 0.9 writes an enum variant as a    *)
(* tag, which the reader config-rs uses drops.  A key that is a leaf in    *)
(* one source and a table in another is left out.                          *)
(***************************************************************************)
EXTENDS Sequences

CONSTANTS
  Absolute,     \* the path values that are absolute
  Malformed,    \* the values that are no duration and no size
  NotUtf8,      \* a path given by a flag that is not UTF-8
  Expansion     \* what shellexpand::tilde makes of the values it changes

\* The fields of Config and the structs in it, with the keys that lead there.
KeysOf ==
  [poll_interval |-> <<"app", "poll_interval">>,
   download_dir  |-> <<"app", "download_dir">>,
   listen_addr   |-> <<"server", "listen_addr">>,
   max_page_size |-> <<"server", "max_page_size">>,
   store_path    |-> <<"store", "path">>,
   host          |-> <<"torrent_client", "qbittorrent", "host">>,
   username      |-> <<"torrent_client", "qbittorrent", "username">>,
   password      |-> <<"torrent_client", "qbittorrent", "password">>]

Field      == DOMAIN KeysOf
PathField  == {"download_dir", "store_path"}
TypedField == {"poll_interval", "max_page_size"}

\* The variable of a field, MAGNARR_ and the words of its keys, in upper case.
WordsOf ==
  [KeysOf EXCEPT
     !.poll_interval = <<"app", "poll", "interval">>,
     !.download_dir  = <<"app", "download", "dir">>,
     !.listen_addr   = <<"server", "listen", "addr">>,
     !.max_page_size = <<"server", "max", "page", "size">>,
     !.host          = <<"torrent", "client", "qbittorrent", "host">>,
     !.username      = <<"torrent", "client", "qbittorrent", "username">>,
     !.password      = <<"torrent", "client", "qbittorrent", "password">>]

\* The Default implementations.
Default ==
  [poll_interval |-> "30s",
   download_dir  |-> "./download",
   listen_addr   |-> "http://localhost:9393",
   max_page_size |-> "100",
   store_path    |-> "./data/magnarr.redb",
   host          |-> "http://localhost:8080",
   username      |-> "admin",
   password      |-> "adminadmin"]

Nothing == [k \in {} |-> ""]

\* The leaves that a source with values for some fields has, under given keys.
Tree(keys, values) ==
  [k \in {keys[f] : f \in DOMAIN values} |->
     values[CHOOSE f \in DOMAIN values : keys[f] = k]]

\* Environment::with_prefix("MAGNARR").separator("_"): every word is a key.
EnvTree(env) == Tree(WordsOf, env)

\* PathArg::from_str expands "~"; to_str gives nothing to set if not UTF-8.
FlagTree(flags) ==
  Tree(KeysOf,
       [f \in {g \in DOMAIN flags : g \in PathField => flags[g] # NotUtf8} |->
          IF f \in PathField /\ flags[f] \in DOMAIN Expansion
          THEN Expansion[flags[f]] ELSE flags[f]])

\* The leaves of t, and those of u where t has none.
Over(t, u) == [k \in DOMAIN t \cup DOMAIN u |-> IF k \in DOMAIN t THEN t[k] ELSE u[k]]

\* Mutant of Merge: the variables are added after the flags.
MergeEnvLast(yaml, env, flags) == Over(EnvTree(env), Over(FlagTree(flags), yaml))

Merge(yaml, env, flags) == Over(FlagTree(flags), Over(EnvTree(env), yaml))

\* The variant of TorrentClientConfig: one key, the variant's, or no table at all.
ClientKeys(tree) == {k[2] : k \in {x \in DOMAIN tree : x[1] = "torrent_client"}}

Value(tree, f) == IF KeysOf[f] \in DOMAIN tree THEN tree[KeysOf[f]] ELSE Default[f]

Readable(tree) ==
  /\ ClientKeys(tree) \subseteq {"qbittorrent"}
  /\ \A f \in TypedField : Value(tree, f) \notin Malformed

Failed == Nothing

\* Mutant of Load: the file is read into a Config of its own first.
LoadFileFirst(yaml, env, flags) ==
  IF Readable(yaml) /\ Readable(Merge(yaml, env, flags))
  THEN [f \in Field |-> Value(Merge(yaml, env, flags), f)]
  ELSE Failed

\* try_deserialize of the merged tree; serde(default) fills what is not there.
Load(yaml, env, flags) ==
  LET tree == Merge(yaml, env, flags)
  IN  IF Readable(tree) THEN [f \in Field |-> Value(tree, f)] ELSE Failed

\* What serde_yaml writes of a Config, as config-rs reads it: the variant of the
\* client is a tag, and its fields are left directly under torrent_client.
WrittenKeys ==
  [KeysOf EXCEPT !.host     = <<"torrent_client", "host">>,
                 !.username = <<"torrent_client", "username">>,
                 !.password = <<"torrent_client", "password">>]

Serialized(config) == Tree(WrittenKeys, config)

\* home_relative_or_absolute_path
Resolve(home, p) == IF p \in Absolute THEN <<p>> ELSE <<home, p>>

=============================================================================
