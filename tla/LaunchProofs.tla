----------------------------- MODULE LaunchProofs -----------------------------
(***************************************************************************)
(* The safety properties of Launch, proved for any number of processes,    *)
(* any command lines, any file and any number of faults.                   *)
(***************************************************************************)
EXTENDS Launch, TLAPS

\* One process at most has a store open.
OneHolder ==
  \A p, q \in Process :
    pc[p] \in HasStore /\ pc[q] \in HasStore /\ StoreOf(p) = StoreOf(q) => p = q

\* Where the file is the user's there is a home directory, so no init that looks
\* from now on gets past its look: without it UserFileKept is not inductive.
FileInHome == file = "user" => home

IInv == TypeOK /\ OneHolder /\ FileInHome

\* The part of IInv that is about processes.
ProcessesOK ==
  /\ pc \in [Process -> Running \cup {"idle"}]
  /\ DOMAIN cfg = Process /\ DOMAIN lock = Process
  /\ \A q \in Process :
       /\ pc[q] \in Configured => cfg[q] # Failed
       /\ lock[q] = IF pc[q] \in HasStore THEN StoreOf(q) ELSE NoStore
  /\ OneHolder

-----------------------------------------------------------------------------

LEMMA DefaultIsSome == Default # Failed
<1>1. "host" \in DOMAIN Default
  BY DEF Default
<1>2. "host" \notin DOMAIN Failed
  BY DEF Failed, Nothing
<1> QED
  BY <1>1, <1>2

\* A step that no process takes.
LEMMA SameProcesses ==
  ASSUME IInv, UNCHANGED <<pc, cfg, lock>>
  PROVE  ProcessesOK'
<1>1. \A q \in Process : StoreOf(q)' = StoreOf(q)
  BY DEF StoreOf, Resolve
<1>2. /\ pc' \in [Process -> Running \cup {"idle"}]
      /\ DOMAIN cfg' = Process /\ DOMAIN lock' = Process
  BY DEF IInv, TypeOK
<1>3. \A q \in Process : pc'[q] = pc[q] /\ cfg'[q] = cfg[q] /\ lock'[q] = lock[q]
  OBVIOUS
<1> QED
  BY <1>1, <1>2, <1>3 DEF IInv, TypeOK, ProcessesOK, OneHolder

\* A step of p without an effect on its store or its configuration.
LEMMA GoesOn ==
  ASSUME IInv, NEW p \in Process, NEW from \in Running \cup {"idle"}, NEW to \in Running,
         Goes(p, from, to), UNCHANGED <<cfg, lock>>,
         to \in Configured => from \in Configured,
         to \in HasStore <=> from \in HasStore
  PROVE  ProcessesOK'
<1> USE DEF IInv, TypeOK, Goes
<1>1. pc' \in [Process -> Running \cup {"idle"}]
  OBVIOUS
<1>2. \A q \in Process : StoreOf(q)' = StoreOf(q)
  BY DEF StoreOf, Resolve
<1>3. \A q \in Process : /\ pc'[q] \in Configured => pc[q] \in Configured
                         /\ pc'[q] \in HasStore <=> pc[q] \in HasStore
  OBVIOUS
<1> QED
  BY <1>1, <1>2, <1>3 DEF ProcessesOK, OneHolder

\* A process ends.
LEMMA ProcessEnds ==
  ASSUME IInv, NEW p \in Process, NEW S, Ends(p, S)
  PROVE  ProcessesOK'
<1> USE DEF IInv, TypeOK, Ends
<1>1. pc' \in [Process -> Running \cup {"idle"}]
  OBVIOUS
<1>2. \A q \in Process \ {p} : StoreOf(q)' = StoreOf(q)
  BY DEF StoreOf, Resolve
<1>3. pc'[p] = "idle" /\ "idle" \notin Configured \cup HasStore
  BY DEF Configured, HasStore
<1>4. \A q \in Process \ {p} : pc'[q] = pc[q] /\ cfg'[q] = cfg[q] /\ lock'[q] = lock[q]
  OBVIOUS
<1>5. lock'[p] = NoStore /\ DOMAIN cfg' = Process /\ DOMAIN lock' = Process
  OBVIOUS
<1> QED
  BY <1>1, <1>2, <1>3, <1>4, <1>5 DEF ProcessesOK, OneHolder

\* A process comes by its configuration.
LEMMA ProcessConfigured ==
  ASSUME IInv, NEW p \in Process, NEW from \in Running, NEW to \in Running, NEW c,
         Goes(p, from, to), UNCHANGED lock, cfg' = [cfg EXCEPT ![p] = c], c # Failed,
         from \notin HasStore, to \notin HasStore
  PROVE  ProcessesOK'
<1> USE DEF IInv, TypeOK, Goes
<1>1. pc' \in [Process -> Running \cup {"idle"}]
  OBVIOUS
<1>2. \A q \in Process \ {p} : StoreOf(q)' = StoreOf(q)
  BY DEF StoreOf, Resolve
<1>3. pc'[p] = to /\ cfg'[p] = c
  OBVIOUS
<1>4. \A q \in Process \ {p} : pc'[q] = pc[q] /\ cfg'[q] = cfg[q]
  OBVIOUS
<1>5. lock'[p] = NoStore /\ DOMAIN cfg' = Process /\ DOMAIN lock' = Process
  OBVIOUS
<1> QED
  BY <1>1, <1>2, <1>3, <1>4, <1>5 DEF ProcessesOK, OneHolder

\* A process comes by its store.
LEMMA ProcessOpens ==
  ASSUME IInv, NEW p \in Process, StoreOpened(p)
  PROVE  ProcessesOK'
<1> USE DEF IInv, TypeOK, Goes, StoreOpened
<1>1. pc' \in [Process -> Running \cup {"idle"}]
  BY DEF Running, InInit, InStart
<1>2. \A q \in Process : StoreOf(q)' = StoreOf(q)
  BY DEF StoreOf, Resolve
<1>3. pc[p] \in Configured /\ pc'[p] \in HasStore /\ lock'[p] = StoreOf(p)
  BY DEF Configured, HasStore
<1>4. \A q \in Process \ {p} : pc'[q] = pc[q] /\ lock'[q] = lock[q]
  OBVIOUS
<1>5. \A q \in Process \ {p} : pc[q] \in HasStore => StoreOf(q) # StoreOf(p)
  OBVIOUS
<1> QED
  BY <1>1, <1>2, <1>3, <1>4, <1>5 DEF ProcessesOK, OneHolder

-----------------------------------------------------------------------------

LEMMA InvInit == Init => IInv
<1> SUFFICES ASSUME Init PROVE IInv
  OBVIOUS
<1>1. \A p \in Process : pc[p] = "idle" /\ lock[p] = NoStore
  BY DEF Init
<1>2. "idle" \notin Configured \cup HasStore
  BY DEF Configured, HasStore
<1>3. faults \in 0..MaxFaults
  BY LaunchAssumption DEF Init
<1> QED
  BY <1>1, <1>2, <1>3 DEF Init, IInv, TypeOK, OneHolder, FileInHome, FileKind

LEMMA InvStep == IInv /\ [Next]_vars => IInv'
<1> SUFFICES ASSUME IInv, [Next]_vars PROVE IInv'
  OBVIOUS
<1> DEFINE Shared ==
      /\ home' \in BOOLEAN /\ file' \in FileKind /\ faults' \in 0..MaxFaults
      /\ FileInHome'
<1>u. UNCHANGED <<home, file, faults>> => Shared
  BY DEF IInv, TypeOK, FileInHome
<1>h. ASSUME home' \in BOOLEAN, home => home', UNCHANGED <<file, faults>> PROVE Shared
  BY <1>h DEF IInv, TypeOK, FileInHome
<1>f. ASSUME Fault, home' \in BOOLEAN, home => home', UNCHANGED file PROVE Shared
  BY <1>f, LaunchAssumption DEF Fault, IInv, TypeOK, FileInHome
<1>o. \A p \in Process : (home \/ InHome(StoreOf(p))) \in BOOLEAN
  BY DEF InHome, IInv, TypeOK
<1>1. ASSUME NEW p \in Process, Invoke(p) \/ InvokeRefused(p) PROVE ProcessesOK' /\ Shared
  <2>1. CASE Invoke(p)
    <3>1. CASE Command[p].run = "init"
      BY <2>1, <3>1, <1>u, GoesOn DEF Invoke, Running, InInit, InStart, Configured, HasStore
    <3>2. CASE Command[p].run # "init"
      BY <2>1, <3>2, <1>u, GoesOn DEF Invoke, Running, InInit, InStart, Configured, HasStore
    <3> QED
      BY <3>1, <3>2
  <2>2. CASE InvokeRefused(p)
    BY <2>2, <1>u, ProcessEnds DEF InvokeRefused
  <2> QED
    BY <1>1, <2>1, <2>2
<1>2. ASSUME NEW p \in Process, InitStep(p) PROVE ProcessesOK' /\ Shared
  <2>1. CASE HomeExists(p) \/ InitEnds(p)
    BY <2>1, <1>u, ProcessEnds DEF HomeExists, InitEnds
  <2>2. CASE HomeFree(p)
    BY <2>2, <1>u, GoesOn DEF HomeFree, Running, InInit, Configured, HasStore
  <2>3. CASE MakeHome(p)
    <3>1. Shared
      BY <2>3, <1>h DEF MakeHome
    <3>2. ProcessesOK'
      BY <2>3, ProcessConfigured, DefaultIsSome DEF MakeHome, Running, InInit, HasStore
    <3> QED
      BY <3>1, <3>2
  <2>4. CASE CreateFile(p) \/ FillFile(p)
    <3>1. ProcessesOK'
      BY <2>4, GoesOn DEF CreateFile, FillFile, Running, InInit, Configured, HasStore
    <3>2. Shared
      BY <2>4 DEF CreateFile, FillFile, IInv, TypeOK, FileInHome, FileKind
    <3> QED
      BY <3>1, <3>2
  <2> QED
    BY <1>2, <2>1, <2>2, <2>3, <2>4 DEF InitStep
<1>3. ASSUME NEW p \in Process, StoreOpened(p) \/ StoreTaken(p) PROVE ProcessesOK' /\ Shared
  <2>1. CASE StoreOpened(p)
    <3>1. Shared
      BY <2>1, <1>h, <1>o DEF StoreOpened
    <3> QED
      BY <2>1, <3>1, ProcessOpens
  <2>2. CASE StoreTaken(p)
    <3>1. Shared
      BY <2>2, <1>h, <1>o DEF StoreTaken
    <3> QED
      BY <2>2, <3>1, ProcessEnds DEF StoreTaken
  <2> QED
    BY <1>3, <2>1, <2>2
<1>4. ASSUME NEW p \in Process, StartStep(p) PROVE ProcessesOK' /\ Shared
  <2>1. CASE Loads(p)
    <3>1. ProcessesOK'
      BY <2>1, ProcessConfigured DEF Loads, Running, InStart, HasStore
    <3> QED
      BY <2>1, <3>1, <1>u DEF Loads
  <2>2. CASE LoadFails(p) \/ BindFails(p)
    BY <2>2, <1>u, ProcessEnds DEF LoadFails, BindFails
  <2>3. CASE Spawn(p) \/ Bind(p)
    BY <2>3, <1>u, GoesOn DEF Spawn, Bind, Running, InStart, Configured, HasStore
  <2> QED
    BY <1>4, <2>1, <2>2, <2>3 DEF StartStep
<1>5. ASSUME NEW p \in Process, WriteFails(p) \/ Kill(p) PROVE ProcessesOK' /\ Shared
  <2>1. home' \in BOOLEAN /\ (home => home')
    BY <1>5 DEF WriteFails, Kill, InHome, IInv, TypeOK
  <2>2. Shared
    BY <1>5, <2>1, <1>f DEF WriteFails, Kill
  <2> QED
    BY <1>5, <2>2, ProcessEnds DEF WriteFails, Kill
<1>6. ASSUME Edit PROVE ProcessesOK' /\ Shared
  <2>1. Shared
    BY <1>6 DEF Edit, IInv, TypeOK, FileInHome, FileKind
  <2>2. ProcessesOK'
    BY <1>6, SameProcesses DEF Edit
  <2> QED
    BY <2>1, <2>2
<1>7. ASSUME UNCHANGED vars PROVE ProcessesOK' /\ Shared
  <2>1. ProcessesOK'
    BY <1>7, SameProcesses DEF vars
  <2> QED
    BY <2>1, <1>7, <1>u DEF vars
<1>8. ProcessesOK' /\ Shared
  <2> HIDE DEF Shared
  <2> QED
    BY <1>1, <1>2, <1>3, <1>4, <1>5, <1>6, <1>7 DEF Next, Step
<1> QED
  BY <1>8 DEF IInv, TypeOK, ProcessesOK

LEMMA Invariance == Spec => []IInv
<1> QED
  BY InvInit, InvStep, PTL DEF Spec

-----------------------------------------------------------------------------

\* Every state has its type, and a process has the store it was configured with
\* open from the moment DownloadStore::new returned until it ends.
THEOREM TypeCorrect == Spec => []TypeOK
<1>1. IInv => TypeOK
  BY DEF IInv
<1> QED
  BY <1>1, Invariance, PTL

\* However many processes are started over however many homes, stores and
\* addresses, a store has one poll loop (start.rs opens the store before it spawns).
THEOREM OneLoopPerStore == Spec => []OnePoller
<1>1. IInv => OnePoller
  BY DEF IInv, OneHolder, OnePoller, Polls, HasStore
<1> QED
  BY <1>1, Invariance, PTL

\* No init that looks at a home with a user's configuration changes it.
THEOREM NeverOverwritten == Spec => UserFileKept
<1>1. IInv /\ [Next]_vars => [Settled => Settled']_vars
  <2> SUFFICES ASSUME IInv, [Next]_vars, Settled PROVE Settled'
    OBVIOUS
  <2> USE DEF IInv, TypeOK, FileInHome, Settled, Goes, Ends
  <2>1. ASSUME NEW p \in Process, Invoke(p) \/ InvokeRefused(p) PROVE Settled'
    BY <2>1 DEF Invoke, InvokeRefused
  <2>2. ASSUME NEW p \in Process, InitStep(p) PROVE Settled'
    BY <2>2 DEF InitStep, HomeExists, HomeFree, MakeHome, CreateFile, FillFile, InitEnds
  <2>3. ASSUME NEW p \in Process, StoreOpened(p) \/ StoreTaken(p) PROVE Settled'
    BY <2>3 DEF StoreOpened, StoreTaken
  <2>4. ASSUME NEW p \in Process, StartStep(p) PROVE Settled'
    BY <2>4 DEF StartStep, Loads, LoadFails, Spawn, Bind, BindFails
  <2>5. ASSUME NEW p \in Process, WriteFails(p) \/ Kill(p) PROVE Settled'
    BY <2>5 DEF WriteFails, Kill
  <2>6. CASE Edit \/ UNCHANGED vars
    BY <2>6 DEF Edit, vars
  <2> QED
    BY <2>1, <2>2, <2>3, <2>4, <2>5, <2>6 DEF Next, Step
<1> QED
  BY <1>1, Invariance, PTL DEF Spec, UserFileKept

=============================================================================
