--------------------------- MODULE ConfigLoadProofs ---------------------------
(***************************************************************************)
(* What load_config makes of its sources, proved for any file, any         *)
(* variables of the fields and any flags.                                  *)
(***************************************************************************)
EXTENDS ConfigLoad, Integers, TLAPS

IInv ==
  /\ \E S \in EnvSets : env = [f \in S |-> "from env"]
  /\ flags \in FlagSets
  /\ cfg \in {NotLoaded, Load(file, env, flags)}

-----------------------------------------------------------------------------

\* The fields there are.
LEMMA Fields ==
  Field = {"poll_interval", "download_dir", "listen_addr", "max_page_size",
           "store_path", "host", "username", "password"}
BY DEF Field, KeysOf

\* No two fields have the same keys.
LEMMA KeysDiffer == \A f, g \in Field : KeysOf[f] = KeysOf[g] => f = g
BY Fields DEF KeysOf

\* The variable of one field only is read as the keys of a field, its own.
LEMMA WordsAre ==
  /\ \A f, g \in Field : WordsOf[g] = KeysOf[f] => g = "store_path" /\ f = "store_path"
  /\ WordsOf["store_path"] = KeysOf["store_path"]
  /\ \A g \in Field : WordsOf[g][1] # "torrent_client"
<1>1. /\ WordsOf["poll_interval"] = <<"app", "poll", "interval">>
      /\ WordsOf["download_dir"] = <<"app", "download", "dir">>
      /\ WordsOf["listen_addr"] = <<"server", "listen", "addr">>
      /\ WordsOf["max_page_size"] = <<"server", "max", "page", "size">>
      /\ WordsOf["store_path"] = <<"store", "path">>
      /\ WordsOf["host"] = <<"torrent", "client", "qbittorrent", "host">>
      /\ WordsOf["username"] = <<"torrent", "client", "qbittorrent", "username">>
      /\ WordsOf["password"] = <<"torrent", "client", "qbittorrent", "password">>
  BY DEF WordsOf, KeysOf
<1>2. /\ KeysOf["poll_interval"] = <<"app", "poll_interval">>
      /\ KeysOf["download_dir"] = <<"app", "download_dir">>
      /\ KeysOf["listen_addr"] = <<"server", "listen_addr">>
      /\ KeysOf["max_page_size"] = <<"server", "max_page_size">>
      /\ KeysOf["store_path"] = <<"store", "path">>
      /\ KeysOf["host"] = <<"torrent_client", "qbittorrent", "host">>
      /\ KeysOf["username"] = <<"torrent_client", "qbittorrent", "username">>
      /\ KeysOf["password"] = <<"torrent_client", "qbittorrent", "password">>
  BY DEF KeysOf
<1>3. \A g \in Field : /\ Len(KeysOf[g]) = 2 \/ KeysOf[g][1] = "torrent_client"
                       /\ Len(KeysOf[g]) \in {2, 3}
  BY <1>2, Fields
<1>4. \A g \in Field \ {"store_path"} :
        /\ Len(WordsOf[g]) \in {3, 4} /\ WordsOf[g][1] # "torrent_client"
  <2> DEFINE Differ(g) == /\ Len(WordsOf[g]) \in {3, 4} /\ WordsOf[g][1] # "torrent_client"
  <2>1. Differ("poll_interval")
    BY <1>1, <1>2
  <2>2. Differ("download_dir")
    BY <1>1, <1>2
  <2>3. Differ("listen_addr")
    BY <1>1, <1>2
  <2>4. Differ("max_page_size")
    BY <1>1, <1>2
  <2>5. Differ("host")
    BY <1>1, <1>2
  <2>6. Differ("username")
    BY <1>1, <1>2
  <2>7. Differ("password")
    BY <1>1, <1>2
  <2> HIDE DEF Differ
  <2>8. \A g \in Field \ {"store_path"} : Differ(g)
    BY <2>1, <2>2, <2>3, <2>4, <2>5, <2>6, <2>7, Fields
  <2> QED BY <2>8 DEF Differ
<1>5. \A f, g \in Field : WordsOf[g] = KeysOf[f] => g = "store_path" /\ f = "store_path"
  <2>1. ASSUME NEW f \in Field, NEW g \in Field \ {"store_path"}, WordsOf[g] = KeysOf[f]
        PROVE  FALSE
    <3>1. Len(WordsOf[g]) \in {3, 4} /\ WordsOf[g][1] # "torrent_client"
      BY <1>4
    <3>2. Len(KeysOf[f]) = 2 \/ KeysOf[f][1] = "torrent_client"
      BY <1>3
    <3> QED BY <2>1, <3>1, <3>2
  <2>2. \A f \in Field : KeysOf[f] = KeysOf["store_path"] => f = "store_path"
    BY KeysDiffer, Fields
  <2> QED BY <1>1, <1>2, <2>1, <2>2
<1>7. WordsOf["store_path"][1] # "torrent_client"
  BY <1>1
<1>9. \A g \in Field : WordsOf[g][1] # "torrent_client"
  BY <1>4, <1>7
<1> QED BY <1>1, <1>2, <1>5, <1>9

\* A source has a leaf for each of its values, and no other.
LEMMA TreeIs ==
  ASSUME NEW keys, NEW values, NEW f \in DOMAIN values,
         \A g \in DOMAIN values : keys[g] = keys[f] => g = f
  PROVE  keys[f] \in DOMAIN Tree(keys, values) /\ Tree(keys, values)[keys[f]] = values[f]
BY DEF Tree

\* One that has no value for a field has no leaf under its keys.
LEMMA NotInTree ==
  ASSUME NEW keys, NEW values, NEW k, \A g \in DOMAIN values : keys[g] # k
  PROVE  k \notin DOMAIN Tree(keys, values)
BY DEF Tree

\* The leaf of a merged tree is that of the last source that has one.
LEMMA MergeIs ==
  ASSUME NEW k
  PROVE  /\ k \in DOMAIN Merge(file, env, flags) <=>
              k \in DOMAIN FlagTree(flags) \cup DOMAIN EnvTree(env) \cup DOMAIN file
         /\ k \in DOMAIN FlagTree(flags) =>
              Merge(file, env, flags)[k] = FlagTree(flags)[k]
         /\ k \notin DOMAIN FlagTree(flags) /\ k \in DOMAIN EnvTree(env) =>
              Merge(file, env, flags)[k] = EnvTree(env)[k]
         /\ k \notin DOMAIN FlagTree(flags) /\ k \notin DOMAIN EnvTree(env)
              /\ k \in DOMAIN file =>
              Merge(file, env, flags)[k] = file[k]
BY DEF Merge, Over

\* What the flags and the variables of the fields set.
LEMMA SourcesAre ==
  ASSUME DOMAIN flags \subseteq Field, DOMAIN env \subseteq Field, NEW f \in Field
  PROVE  /\ KeysOf[f] \in DOMAIN FlagTree(flags) <=>
              f \in DOMAIN flags /\ (f \in PathField => flags[f] # NotUtf8)
         /\ KeysOf[f] \in DOMAIN FlagTree(flags) =>
              FlagTree(flags)[KeysOf[f]] =
                IF f \in PathField /\ flags[f] \in DOMAIN Expansion
                THEN Expansion[flags[f]] ELSE flags[f]
         /\ KeysOf[f] \in DOMAIN EnvTree(env) <=>
              f \in DOMAIN env /\ WordsOf[f] = KeysOf[f]
         /\ KeysOf[f] \in DOMAIN EnvTree(env) => EnvTree(env)[KeysOf[f]] = env[f]
<1> DEFINE D == {g \in DOMAIN flags : g \in PathField => flags[g] # NotUtf8}
           given == [g \in D |-> IF g \in PathField /\ flags[g] \in DOMAIN Expansion
                                 THEN Expansion[flags[g]] ELSE flags[g]]
<1>1. FlagTree(flags) = Tree(KeysOf, given)
  BY DEF FlagTree
<1>2. DOMAIN given = D /\ D \subseteq Field
  OBVIOUS
<1>3. f \in D => given[f] = IF f \in PathField /\ flags[f] \in DOMAIN Expansion
                            THEN Expansion[flags[f]] ELSE flags[f]
  OBVIOUS
<1> HIDE DEF given
<1>4. ASSUME f \in D
      PROVE  KeysOf[f] \in DOMAIN FlagTree(flags) /\ FlagTree(flags)[KeysOf[f]] = given[f]
  <2>1. \A g \in DOMAIN given : KeysOf[g] = KeysOf[f] => g = f
    BY <1>2, KeysDiffer
  <2> QED BY <1>1, <1>2, <1>4, <2>1, TreeIs
<1>5. ASSUME f \notin D PROVE KeysOf[f] \notin DOMAIN FlagTree(flags)
  <2>1. \A g \in DOMAIN given : KeysOf[g] # KeysOf[f]
    BY <1>2, <1>5, KeysDiffer
  <2> QED BY <1>1, <2>1, NotInTree
<1>6. ASSUME f \in DOMAIN env, f = "store_path"
      PROVE  KeysOf[f] \in DOMAIN EnvTree(env) /\ EnvTree(env)[KeysOf[f]] = env[f]
  <2>1. \A g \in DOMAIN env : WordsOf[g] = WordsOf[f] => g = f
    BY <1>6, WordsAre
  <2>2. WordsOf[f] \in DOMAIN Tree(WordsOf, env) /\ Tree(WordsOf, env)[WordsOf[f]] = env[f]
    BY <1>6, <2>1, TreeIs
  <2>3. WordsOf[f] = KeysOf[f]
    BY <1>6, WordsAre
  <2> QED BY <2>2, <2>3 DEF EnvTree
<1>7. ASSUME ~(f \in DOMAIN env /\ f = "store_path")
      PROVE  KeysOf[f] \notin DOMAIN EnvTree(env)
  <2>1. \A g \in DOMAIN env : WordsOf[g] # KeysOf[f]
    BY <1>7, WordsAre
  <2> QED BY <2>1, NotInTree DEF EnvTree
<1>8. WordsOf[f] = KeysOf[f] <=> f = "store_path"
  BY WordsAre
<1> QED BY <1>3, <1>4, <1>5, <1>6, <1>7, <1>8

\* A field is read as the value of the last source that sets it.
LEMMA ValueIs ==
  ASSUME DOMAIN flags \subseteq Field, DOMAIN env \subseteq Field, NEW f \in Field
  PROVE  Value(Merge(file, env, flags), f) =
           LastOf(f, FlagsRead, {g \in DOMAIN env : WordsOf[g] = KeysOf[g]})
<1> DEFINE tree == Merge(file, env, flags)
           k == KeysOf[f]
<1>1. CASE k \in DOMAIN FlagTree(flags)
  <2>1. f \in FlagsRead
    BY <1>1, SourcesAre DEF FlagsRead
  <2>2. k \in DOMAIN tree /\ tree[k] = FlagTree(flags)[k]
    BY <1>1, MergeIs
  <2> QED BY <1>1, <2>1, <2>2, SourcesAre DEF Value, LastOf
<1>2. CASE k \notin DOMAIN FlagTree(flags) /\ k \in DOMAIN EnvTree(env)
  <2>1. f \notin FlagsRead /\ f \in {g \in DOMAIN env : WordsOf[g] = KeysOf[g]}
    BY <1>2, SourcesAre DEF FlagsRead
  <2>2. k \in DOMAIN tree /\ tree[k] = env[f]
    BY <1>2, MergeIs, SourcesAre
  <2> QED BY <2>1, <2>2 DEF Value, LastOf
<1>3. CASE k \notin DOMAIN FlagTree(flags) /\ k \notin DOMAIN EnvTree(env)
  <2>1. f \notin FlagsRead /\ f \notin {g \in DOMAIN env : WordsOf[g] = KeysOf[g]}
    BY <1>3, SourcesAre DEF FlagsRead
  <2>2. /\ k \in DOMAIN tree <=> k \in DOMAIN file
        /\ k \in DOMAIN file => tree[k] = file[k]
    BY <1>3, MergeIs
  <2> QED BY <2>1, <2>2 DEF Value, LastOf, InFile
<1> QED BY <1>1, <1>2, <1>3

\* Flags name the client's variant, and no variable reaches it: what is wrong there
\* is wrong in the file.
LEMMA ClientOfFile ==
  ASSUME DOMAIN flags \subseteq Field, DOMAIN env \subseteq Field,
         ClientKeys(file) \subseteq {"qbittorrent"}
  PROVE  ClientKeys(Merge(file, env, flags)) \subseteq {"qbittorrent"}
<1> SUFFICES ASSUME NEW k \in DOMAIN Merge(file, env, flags), k[1] = "torrent_client"
             PROVE  k[2] = "qbittorrent"
  BY DEF ClientKeys
<1>1. CASE k \in DOMAIN FlagTree(flags)
  <2>1. PICK f \in Field : k = KeysOf[f]
    BY <1>1 DEF FlagTree, Tree
  <2> QED BY <2>1, Fields DEF KeysOf
<1>2. CASE k \in DOMAIN EnvTree(env)
  <2>1. PICK f \in Field : k = WordsOf[f]
    BY <1>2 DEF EnvTree, Tree
  <2> QED BY <2>1, WordsAre
<1>3. CASE k \in DOMAIN file
  BY <1>3 DEF ClientKeys
<1> QED BY <1>1, <1>2, <1>3, MergeIs

-----------------------------------------------------------------------------

\* The sources stay, and the configuration is what they make.
LEMMA Invariance == Spec => []IInv
<1>1. Init => IInv
  BY DEF Init, IInv
<1>2. IInv /\ [Start]_vars => IInv'
  BY DEF Start, vars, IInv
<1> QED BY <1>1, <1>2, PTL DEF Spec

\* What flags and variables are for.
LEMMA OfFields == IInv => DOMAIN flags \subseteq Field /\ DOMAIN env \subseteq Field
BY ConfigLoadAssumption DEF IInv

\* Flags come before variables, these before the file and that before the defaults,
\* for every field; only a variable whose words are not the keys of its field may be
\* passed over, and it then counts as not set.
THEOREM Ordered == Spec => []SourceOrder
<1>1. IInv => SourceOrder
  <2> SUFFICES ASSUME IInv, Loaded, NEW f \in Field
               PROVE  \/ cfg[f] = LastOf(f, FlagsRead, DOMAIN env)
                      \/ WordsOf[f] # KeysOf[f] /\ cfg[f] = LastOf(f, FlagsRead, {})
    BY DEF SourceOrder
  <2>1. cfg = Load(file, env, flags) /\ cfg # Failed
    BY DEF IInv, Loaded
  <2>2. cfg[f] = Value(Merge(file, env, flags), f)
    BY <2>1 DEF Load
  <2>3. cfg[f] = LastOf(f, FlagsRead, {g \in DOMAIN env : WordsOf[g] = KeysOf[g]})
    BY <2>2, OfFields, ValueIs
  <2> QED BY <2>3 DEF LastOf
<1> QED BY <1>1, Invariance, PTL

\* A start is refused for a value that would have been used, or for a file whose
\* client is no table of one variant.
THEOREM NoOtherRefusal == Spec => []RefusedForCause
<1>1. IInv => RefusedForCause
  <2> SUFFICES ASSUME IInv, cfg = Failed, ClientKeys(file) \in {{}, {"qbittorrent"}}
               PROVE  \E f \in TypedField, set \in {DOMAIN env, {}} :
                        LastOf(f, FlagsRead, set) \in Malformed
    BY DEF RefusedForCause
  <2>1. Failed # NotLoaded
    <3>1. "state" \in DOMAIN NotLoaded /\ "state" \notin DOMAIN Failed
      BY DEF NotLoaded, Failed, Nothing
    <3> QED BY <3>1
  <2>2. Load(file, env, flags) = Failed
    BY <2>1 DEF IInv
  <2>3. ~Readable(Merge(file, env, flags))
    <3>1. "host" \in Field /\ "host" \notin DOMAIN Failed
      BY Fields DEF Failed, Nothing
    <3>2. \A e : [f \in Field |-> Value(Merge(file, env, flags), f)] # Failed
      BY <3>1
    <3> QED BY <2>2, <3>2 DEF Load
  <2>4. ClientKeys(Merge(file, env, flags)) \subseteq {"qbittorrent"}
    BY OfFields, ClientOfFile
  <2>5. PICK f \in TypedField : Value(Merge(file, env, flags), f) \in Malformed
    BY <2>3, <2>4 DEF Readable
  <2>6. f \in Field
    BY Fields DEF TypedField
  <2>7. Value(Merge(file, env, flags), f) =
          LastOf(f, FlagsRead, {g \in DOMAIN env : WordsOf[g] = KeysOf[g]})
    BY <2>6, OfFields, ValueIs
  <2>8. \E set \in {DOMAIN env, {}} :
          LastOf(f, FlagsRead, {g \in DOMAIN env : WordsOf[g] = KeysOf[g]})
            = LastOf(f, FlagsRead, set)
    BY DEF LastOf
  <2> QED BY <2>5, <2>7, <2>8
<1> QED BY <1>1, Invariance, PTL

=============================================================================
