-------------------------------- MODULE Launch --------------------------------
(***************************************************************************)
(* The life of magnarr processes over one home directory: `magnarr init`   *)
(* of src/cli/init.rs and `magnarr start` of src/cli/start.rs up to the    *)
(* point where it serves, any number of them side by side, each run again  *)
(* after it ended (by its user, or by the restart policy of                *)
(* docker-compose.yaml), killed or failing at any step.                    *)
(*                                                                         *)
(* What Load makes of the sources is in Config, what the poll loop and the *)
(* requests do once they run is in App.  Of the file system there is the   *)
(* home directory, config.yaml in it, and which process has which store    *)
(* open: redb takes an exclusive lock on the file, until the process ends  *)
(* or drops the store.                                                     *)
(***************************************************************************)
EXTENDS Config, Integers

CONSTANTS
  Process,
  Command,     \* [Process -> its command line and environment]
  UserFile,    \* the tree in a config.yaml that a user writes
  Bindable,    \* the listen addresses that TcpListener::bind can resolve
  MaxFaults    \* how often something is killed, or fails to write, at most

ASSUME LaunchAssumption ==
  /\ \A p \in Process : Command[p].run \in {"init", "start"}
  /\ MaxFaults \in Nat

VARIABLES
  home,     \* whether the home directory exists
  file,     \* what config.yaml is: "none", "empty", "default", or "user"'s
  pc,       \* where each process is, "idle" when it has ended or not begun
  cfg,      \* its configuration, Failed before it has one
  lock,     \* the store it has open, NoStore without one
  faults    \* faults still to come

vars == <<home, file, pc, cfg, lock, faults>>

InInit  == {"check", "mkdir", "create", "fill", "init_store", "close"}
InStart == {"load", "open", "spawn", "bind", "serve"}
Running == InInit \cup InStart

FileKind == {"none", "empty", "default", "user"}

NoStore == <<>>
Home    == "home"

Content(f) ==
  IF f = "user" THEN UserFile ELSE IF f = "default" THEN Serialized(Default) ELSE Nothing

StoreOf(p) == Resolve(Home, cfg[p].store_path)

InHome(path) == path[1] = Home

Configured == {"create", "fill", "init_store", "close", "open", "spawn", "bind", "serve"}
HasStore   == {"close", "spawn", "bind", "serve"}

\* The types of the state; a process has a configuration before it goes for the
\* store, and the store it was configured with from then until it ends.
TypeOK ==
  /\ home \in BOOLEAN
  /\ file \in FileKind
  /\ pc \in [Process -> Running \cup {"idle"}]
  /\ DOMAIN cfg = Process /\ DOMAIN lock = Process
  /\ \A p \in Process :
       /\ pc[p] \in Configured => cfg[p] # Failed
       /\ lock[p] = IF pc[p] \in HasStore THEN StoreOf(p) ELSE NoStore
  /\ faults \in 0..MaxFaults

Init ==
  /\ home = FALSE /\ file = "none"
  /\ pc = [p \in Process |-> "idle"]
  /\ cfg = [p \in Process |-> Failed]
  /\ lock = [p \in Process |-> NoStore]
  /\ faults = MaxFaults

Goes(p, from, to) ==
  /\ pc[p] = from
  /\ pc' = [pc EXCEPT ![p] = to]

\* Mutant of Ends: what is locked stays locked, as with a lock file.
EndsLocked(p, from) ==
  /\ pc[p] \in from
  /\ pc' = [pc EXCEPT ![p] = "idle"]
  /\ cfg' = [cfg EXCEPT ![p] = Failed]
  /\ UNCHANGED lock

\* exit(1), the end of main, or a kill: what the process had is gone.
Ends(p, from) ==
  /\ pc[p] \in from
  /\ pc' = [pc EXCEPT ![p] = "idle"]
  /\ cfg' = [cfg EXCEPT ![p] = Failed]
  /\ lock' = [lock EXCEPT ![p] = NoStore]

-----------------------------------------------------------------------------
(* Cli::parse and the match on the command. *)

Invoke(p) ==
  /\ Command[p].known
  /\ Goes(p, "idle", IF Command[p].run = "init" THEN "check" ELSE "load")
  /\ UNCHANGED <<home, file, cfg, lock, faults>>

\* clap ends the process on an argument that Cli and StartArgs do not have: the
\* process is not seen to run at all.
InvokeRefused(p) ==
  /\ ~Command[p].known
  /\ Ends(p, {"idle"})
  /\ UNCHANGED <<home, file, faults>>

-----------------------------------------------------------------------------
(* init::run. *)

HomeExists(p) ==
  /\ home
  /\ Ends(p, {"check"})
  /\ UNCHANGED <<home, file, faults>>

\* Mutant of HomeFree: a directory that is there does no harm, create_dir_all
\* takes it.
HomeUnchecked(p) ==
  /\ Goes(p, "check", "mkdir")
  /\ UNCHANGED <<home, file, cfg, lock, faults>>

HomeFree(p) ==
  /\ ~home
  /\ Goes(p, "check", "mkdir")
  /\ UNCHANGED <<home, file, cfg, lock, faults>>

\* Mutant of MakeHome: the configuration comes from what is there.
MakeHomeOnly(p) ==
  /\ Goes(p, "mkdir", "create")
  /\ home' = TRUE
  /\ UNCHANGED <<file, cfg, lock, faults>>

MakeHome(p) ==
  /\ Goes(p, "mkdir", "create")
  /\ home' = TRUE
  /\ cfg' = [cfg EXCEPT ![p] = Default]
  /\ UNCHANGED <<file, lock, faults>>

\* fs::write makes the file empty, whatever was in it, and then fills it.
CreateFile(p) ==
  /\ Goes(p, "create", "fill")
  /\ file' = "empty"
  /\ UNCHANGED <<home, cfg, lock, faults>>

FillFile(p) ==
  /\ Goes(p, "fill", "init_store")
  /\ file' = "default"
  /\ UNCHANGED <<home, cfg, lock, faults>>

\* The store that init opened is a temporary, dropped at once.
InitEnds(p) ==
  /\ Ends(p, {"close"})
  /\ UNCHANGED <<home, file, faults>>

-----------------------------------------------------------------------------
(* DownloadStore::new, called by both. *)

\* Mutant of StoreOpened: a store may be open more than once.
StoreShared(p) ==
  /\ \/ Goes(p, "init_store", "close") \/ Goes(p, "open", "spawn")
  /\ lock' = [lock EXCEPT ![p] = StoreOf(p)]
  /\ home' = (home \/ InHome(StoreOf(p)))
  /\ UNCHANGED <<file, cfg, faults>>

\* It creates the directories above the store, hence the home directory.
StoreOpened(p) ==
  /\ \/ Goes(p, "init_store", "close") \/ Goes(p, "open", "spawn")
  /\ \A q \in Process : lock[q] # StoreOf(p)
  /\ lock' = [lock EXCEPT ![p] = StoreOf(p)]
  /\ home' = (home \/ InHome(StoreOf(p)))
  /\ UNCHANGED <<file, cfg, faults>>

StoreTaken(p) ==
  /\ Ends(p, {"init_store", "open"})
  /\ \E q \in Process : lock[q] = StoreOf(p)
  /\ home' = (home \/ InHome(StoreOf(p)))
  /\ UNCHANGED <<file, faults>>

-----------------------------------------------------------------------------
(* start::run. *)

\* What load_config makes of each file for each process.
LoadedFrom ==
  [p \in Process |-> [f \in FileKind |->
     Load(Content(f), Command[p].env, Command[p].flags)]]

LoadOf(p) == LoadedFrom[p][file]

Loads(p) ==
  /\ Goes(p, "load", "open")
  /\ LoadOf(p) # Failed
  /\ cfg' = [cfg EXCEPT ![p] = LoadOf(p)]
  /\ UNCHANGED <<home, file, lock, faults>>

LoadFails(p) ==
  /\ Ends(p, {"load"})
  /\ LoadOf(p) = Failed
  /\ UNCHANGED <<home, file, faults>>

\* App::start spawns the poll loop, before there is a listener.
Spawn(p) ==
  /\ Goes(p, "spawn", "bind")
  /\ UNCHANGED <<home, file, cfg, lock, faults>>

Polls(p) == pc[p] \in {"bind", "serve"}

CanBind(p) ==
  /\ cfg[p].listen_addr \in Bindable
  /\ \A q \in Process : pc[q] = "serve" => cfg[q].listen_addr # cfg[p].listen_addr

\* From here on the process waits for a token that nothing cancels.
Bind(p) ==
  /\ Goes(p, "bind", "serve")
  /\ CanBind(p)
  /\ UNCHANGED <<home, file, cfg, lock, faults>>

BindFails(p) ==
  /\ Ends(p, {"bind"})
  /\ ~CanBind(p)
  /\ UNCHANGED <<home, file, faults>>

-----------------------------------------------------------------------------
(* What comes from outside. *)

Fault == faults > 0 /\ faults' = faults - 1

\* A directory, a file or the store cannot be written; DownloadStore::new may
\* have made the home directory by then.
WriteFails(p) ==
  /\ Fault
  /\ Ends(p, {"mkdir", "create", "fill", "init_store", "open"})
  /\ home' \in {home, home \/ (pc[p] \in {"init_store", "open"} /\ InHome(StoreOf(p)))}
  /\ UNCHANGED file

Kill(p) ==
  /\ Fault
  /\ Ends(p, Running)
  /\ UNCHANGED <<home, file>>

\* The user writes a configuration, in a new home directory or over what is there.
Edit ==
  /\ file # "user"
  /\ home' = TRUE
  /\ file' = "user"
  /\ UNCHANGED <<pc, cfg, lock, faults>>

InitStep(p) ==
  HomeExists(p) \/ HomeFree(p) \/ MakeHome(p) \/ CreateFile(p) \/ FillFile(p) \/ InitEnds(p)

StartStep(p) ==
  Loads(p) \/ LoadFails(p) \/ Spawn(p) \/ Bind(p) \/ BindFails(p)

Step(p) == InitStep(p) \/ StartStep(p) \/ StoreOpened(p) \/ StoreTaken(p)

Next ==
  \/ Edit
  \/ \E p \in Process :
       Invoke(p) \/ InvokeRefused(p) \/ Step(p) \/ WriteFails(p) \/ Kill(p)

Spec == Init /\ [][Next]_vars

\* A process that runs goes on, and what has ended is run again (restart:
\* unless-stopped, or a user who does not give up).
Fairness == \A p \in Process : WF_vars(Step(p)) /\ WF_vars(Invoke(p) \/ InvokeRefused(p))

FairSpec == Spec /\ Fairness

-----------------------------------------------------------------------------

\* Two poll loops never work on one store, also while one start is about to fail
\* to bind (its loop runs by then) and another is coming up: App's one loop is one.
OnePoller ==
  \A p, q \in Process : Polls(p) /\ Polls(q) /\ StoreOf(p) = StoreOf(q) => p = q

\* The user's configuration is there, and no init has looked before it was.
Settled ==
  /\ file = "user"
  /\ \A p \in Process : pc[p] \notin {"mkdir", "create", "fill"}

\* A configuration that a user wrote stays, whoever starts or initialises again,
\* unless an init had found no home directory and is still on its way to write
\* (init.rs looks once; create_dir_all and fs::write take what is there).
UserFileKept == [][Settled => Settled']_vars

\* Whatever was killed, failed or raced before, an init between two of its steps
\* included, in the end some start serves and goes on serving, provided that the
\* file is not for ever the one that init writes.
SomeoneServes ==
  <>[](file # "default") => <>[](\E p \in Process : pc[p] = "serve")

=============================================================================
