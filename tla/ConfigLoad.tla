------------------------------ MODULE ConfigLoad ------------------------------
(***************************************************************************)
(* One `magnarr start` that loads its configuration: any file, environment *)
(* and flags, and what load_config makes of them.                          *)
(***************************************************************************)
EXTENDS Config

CONSTANTS
  Files,      \* the trees that a config.yaml may hold, Nothing without one
  EnvSets,    \* the sets of fields whose variables are set
  FlagSets    \* the functions from fields to values that flags may give

ASSUME ConfigLoadAssumption ==
  EnvSets \subseteq SUBSET Field /\ \A given \in FlagSets : DOMAIN given \subseteq Field

VARIABLES file, env, flags, cfg

vars == <<file, env, flags, cfg>>

NotLoaded == [state |-> "not loaded"]

Init ==
  /\ file \in Files
  /\ \E S \in EnvSets : env = [f \in S |-> "from env"]
  /\ flags \in FlagSets
  /\ cfg = NotLoaded

Start ==
  /\ cfg = NotLoaded
  /\ cfg' = Load(file, env, flags)
  /\ UNCHANGED <<file, env, flags>>

Spec == Init /\ [][Start]_vars

-----------------------------------------------------------------------------

Loaded == cfg # NotLoaded /\ cfg # Failed

InFile(f) == KeysOf[f] \in DOMAIN file

\* The value of the last source that sets a field: flags, variables, file, default.
LastOf(f, flagged, set) ==
  IF f \in flagged
  THEN IF f \in PathField /\ flags[f] \in DOMAIN Expansion
       THEN Expansion[flags[f]] ELSE flags[f]
  ELSE IF f \in set THEN env[f]
  ELSE IF InFile(f) THEN file[KeysOf[f]]
  ELSE Default[f]

\* A path flag that is not UTF-8 sets nothing.
FlagsRead == {g \in DOMAIN flags : g \in PathField => flags[g] # NotUtf8}

\* Every field has the value of the last source that sets it: defaults < file < env
\* vars < CLI args (the doc of load_config).
Precedence == Loaded => \A f \in Field : cfg[f] = LastOf(f, FlagsRead, DOMAIN env)

\* What of it holds for all fields: a flag comes before a variable, that before the
\* file, and that before the default, whichever sources set the fields beside it.
\* A variable whose words are not the keys of its field may be passed over, but
\* only as if it were not set: the field has the value of the source before, and
\* the fields beside it are not disturbed.
SourceOrder ==
  Loaded => \A f \in Field :
    \/ cfg[f] = LastOf(f, FlagsRead, DOMAIN env)
    \/ WordsOf[f] # KeysOf[f] /\ cfg[f] = LastOf(f, FlagsRead, {})

\* A start is refused for a value that would have been used, or for a file whose
\* client is no table of one variant (which is how init writes it): a malformed
\* value of the file that a flag overrides does no harm, nor does a variable that
\* reaches no field.
RefusedForCause ==
  cfg = Failed =>
    \/ ClientKeys(file) \notin {{}, {"qbittorrent"}}
    \/ \E f \in TypedField, set \in {DOMAIN env, {}} :
         LastOf(f, FlagsRead, set) \in Malformed

=============================================================================
