--------------------------------- MODULE App ---------------------------------
(***************************************************************************)
(* The download service of src/app/mod.rs: concurrent download() requests  *)
(* (tasks of the multi-threaded tokio runtime, one per GraphQL mutation),  *)
(* the one poll task App::start spawns, the repository they share and the  *)
(* torrent client they both call.                                          *)
(*                                                                         *)
(* A step is what happens between two points where another task may        *)
(* interfere: one repository transaction, one message to or from the       *)
(* torrent client, one part of a copy.  A task keeps its own copy of a     *)
(* record across these points, and writes it back whole.                   *)
(*                                                                         *)
(* What may go wrong is chosen by the constant Disturbances, at most       *)
(* MaxDisturbances times in a behaviour:                                   *)
(*   "storage"      a repository operation returns an error                *)
(*   "client"       a status call returns an error                         *)
(*   "lost_answer"  the client takes a magnet but its answer is lost       *)
(*   "drop"         the HTTP peer of a request leaves, so its future is    *)
(*                  dropped where it awaits                                *)
(*   "crash"        the process dies and is started again                  *)
(* and, outside the budget,                                                *)
(*   "slow_add"     a taken magnet is listed by the client only later      *)
(*   "cancel"       the cancellation token is cancelled                    *)
(***************************************************************************)
EXTENDS DownloadStore, Naturals

CONSTANTS
  Request,          \* handlers of concurrent download mutations
  ClientStates,     \* the state names the torrent client reports
  NoMetadata,       \* those it reports before it knows the torrent's content
  Matched,          \* [InfoHash -> the torrents its filter hashes=<text> lets through]
  Disturbances,
  MaxDisturbances

ASSUME DisturbanceAssumption == MaxDisturbances \in Nat

\* A client that seeds a torrent knows its content.
ASSUME MetadataAssumption ==
  /\ {"absent", "adding"} \cap ClientStates = {}
  /\ \A s \in ClientStates : parse_state(s) = "Seeding" => s \notin NoMetadata

\* The service keeps as an info hash whatever text a magnet has for one.  A text
\* that is the hash of no torrent matches none, or, as the empty text and one
\* that joins several hashes do, torrents of other hashes.
ASSUME FilterAssumption ==
  /\ Matched \in [InfoHash -> SUBSET InfoHash]
  /\ \A h \in InfoHash : Matched[h] = {h} \/ h \notin Matched[h]

IsHash(h) == Matched[h] = {h}

VARIABLES
  torrents,    \* [InfoHash -> state in the client], the client's own data
  media,       \* [InfoHash -> how much of what its import copies is in the target]
  rpc,         \* [Request -> where download() is]
  rhash,       \* [Request -> info hash of its magnet]
  answer,      \* [Request -> the answer download() returned]
  lpc,         \* where the poll task is
  list,        \* the records its current pass has still to handle
  cur,         \* the record it is handling
  reply,       \* what the client reported when asked about it
  cancelled,   \* the cancellation token
  budget       \* disturbances still to come

requests == <<rpc, rhash, answer>>
loop     == <<lpc, list, cur, reply>>
vars     == <<db, torrents, media, requests, loop, cancelled, budget>>

TorrentSlot == ClientStates \cup {"absent", "adding"}

\* The torrent the client answers with: its state, and whether it is the one
\* that was asked for, which the code does not look at.
Reply == [state : ClientStates \cup {"absent"}, own : BOOLEAN]

NotFound == [state |-> "absent", own |-> FALSE]

Awaiting == {"submit", "taken"}                      \* awaits the client
Holding  == Awaiting \cup {"confirm", "rollback"}    \* has inserted its record
RequestPC == {"idle", "get", "insert", "done"} \cup Holding

Answer == {"none", "ok", "already_exists", "repository", "torrent_client"}

LoopPC == {"scan_downloading", "scan_submitted", "poll", "apply",
           "scan_importing", "import", "copy", "record",
           "select", "sleep", "stopped"}

\* The types of the state; in particular a status is stored only as one of
\* DownloadStatus, and a task that is about to write has a record to write
\* (DownloadStatus and Download of src/types/download.rs).
TypeOK ==
  /\ StoreTypeOK
  /\ torrents \in [InfoHash -> TorrentSlot]
  /\ media \in [InfoHash -> {"none", "partial", "full"}]
  /\ rpc \in [Request -> RequestPC]
  /\ rhash \in [Request -> InfoHash]
  /\ answer \in [Request -> Answer]
  /\ lpc \in LoopPC
  /\ list \subseteq Download
  /\ cur \in Download \cup {NoRecord}
  /\ lpc \in {"apply", "copy", "record"} => cur \in Download
  /\ reply \in Reply
  /\ cancelled \in BOOLEAN
  /\ budget \in 0..MaxDisturbances

LoopStart ==
  /\ lpc = "scan_downloading"
  /\ list = {}
  /\ cur = NoRecord
  /\ reply = NotFound
  /\ cancelled = FALSE

Init ==
  /\ StoreInit
  /\ torrents = [h \in InfoHash |-> "absent"]
  /\ media = [h \in InfoHash |-> "none"]
  /\ rpc = [r \in Request |-> "idle"]
  /\ rhash \in [Request -> InfoHash]
  /\ answer = [r \in Request |-> "none"]
  /\ LoopStart
  /\ budget = MaxDisturbances

Disturb(kind) ==
  /\ kind \in Disturbances
  /\ budget > 0
  /\ budget' = budget - 1

\* A write to the record of h returns an error: the backend's, or NotFound.
WriteFails(h) == Disturb("storage") \/ (~Exists(h) /\ UNCHANGED budget)

-----------------------------------------------------------------------------
(* download(magnet, target_dir), run by request r. *)

Goto(r, from, to) ==
  /\ rpc[r] \in from
  /\ rpc' = [rpc EXCEPT ![r] = to]
  /\ UNCHANGED rhash

Return(r, from, a) ==
  /\ Goto(r, from, "done")
  /\ answer' = [answer EXCEPT ![r] = a]

Call(r, h) ==
  /\ rpc[r] \in {"idle", "done"}
  /\ rpc' = [rpc EXCEPT ![r] = "get"]
  /\ rhash' = [rhash EXCEPT ![r] = h]
  /\ answer' = [answer EXCEPT ![r] = "none"]
  /\ UNCHANGED <<db, torrents, media, loop, cancelled, budget>>

GetFound(r) ==
  /\ Exists(rhash[r])
  /\ Return(r, {"get"}, "already_exists")
  /\ UNCHANGED <<db, torrents, media, loop, cancelled, budget>>

GetNotFound(r) ==
  /\ ~Exists(rhash[r])
  /\ Goto(r, {"get"}, "insert")
  /\ UNCHANGED <<db, answer, torrents, media, loop, cancelled, budget>>

InsertRecord(r) ==
  /\ Goto(r, {"insert"}, "submit")
  /\ Insert(NewDownload(rhash[r]))
  /\ UNCHANGED <<answer, torrents, media, loop, cancelled, budget>>

\* Another request inserted the same hash since this one looked.
InsertRefused(r) ==
  /\ Exists(rhash[r])
  /\ Return(r, {"insert"}, "repository")
  /\ UNCHANGED <<db, torrents, media, loop, cancelled, budget>>

\* get or insert fails in the backend.
OpenFails(r) ==
  /\ Disturb("storage")
  /\ Return(r, {"get", "insert"}, "repository")
  /\ UNCHANGED <<db, torrents, media, loop, cancelled>>

\* The client takes the magnet; one it already has stays as it is, and of one
\* without a hash it makes no torrent, but answers 200 all the same.
ClientTakes(r) ==
  /\ Goto(r, {"submit"}, "taken")
  /\ \E s \in IF torrents[rhash[r]] # "absent" \/ ~IsHash(rhash[r])
                THEN {torrents[rhash[r]]}
              ELSE IF "slow_add" \in Disturbances THEN {"adding"}
              ELSE ClientStates :
       torrents' = [torrents EXCEPT ![rhash[r]] = s]
  /\ UNCHANGED <<db, answer, media, loop, cancelled, budget>>

ClientConfirms(r) ==
  /\ Goto(r, {"taken"}, "confirm")
  /\ UNCHANGED <<db, answer, torrents, media, loop, cancelled, budget>>

\* The client answers with another status than 200, or cannot be reached.
ClientRefuses(r) ==
  /\ Goto(r, {"submit"}, "rollback")
  /\ UNCHANGED <<db, answer, torrents, media, loop, cancelled, budget>>

\* The same Err reaches download() when the client did take the magnet.
AnswerLost(r) ==
  /\ Disturb("lost_answer")
  /\ Goto(r, {"taken"}, "rollback")
  /\ UNCHANGED <<db, answer, torrents, media, loop, cancelled>>

\* Mutant of Rollback: the record stays.
RollbackForgotten(r) ==
  /\ Return(r, {"rollback"}, "torrent_client")
  /\ UNCHANGED <<db, torrents, media, loop, cancelled, budget>>

Rollback(r) ==
  /\ Return(r, {"rollback"}, "torrent_client")
  /\ Remove(rhash[r])
  /\ UNCHANGED <<torrents, media, loop, cancelled, budget>>

\* A failed rollback is logged; the caller sees the client's error.
RollbackFails(r) ==
  /\ WriteFails(rhash[r])
  /\ Return(r, {"rollback"}, "torrent_client")
  /\ UNCHANGED <<db, torrents, media, loop, cancelled>>

Confirm(r) ==
  /\ Return(r, {"confirm"}, "ok")
  /\ Update([NewDownload(rhash[r]) EXCEPT !.status = "Submitted"])
  /\ UNCHANGED <<torrents, media, loop, cancelled, budget>>

\* Mutant of ConfirmFails: rolls back as for an error of the client.
ConfirmFailsRollsBack(r) ==
  /\ WriteFails(rhash[r])
  /\ Return(r, {"confirm"}, "repository")
  /\ Remove(rhash[r])
  /\ UNCHANGED <<torrents, media, loop, cancelled>>

ConfirmFails(r) ==
  /\ WriteFails(rhash[r])
  /\ Return(r, {"confirm"}, "repository")
  /\ UNCHANGED <<db, torrents, media, loop, cancelled>>

\* The handler's future is dropped at its only await; nothing is rolled back.
Drop(r) ==
  /\ Disturb("drop")
  /\ Goto(r, Awaiting, "idle")
  /\ UNCHANGED <<db, answer, torrents, media, loop, cancelled>>

\* The steps a request takes by itself once it is called.
RequestStep(r) ==
  \/ GetFound(r) \/ GetNotFound(r) \/ InsertRecord(r) \/ InsertRefused(r)
  \/ ClientTakes(r) \/ ClientConfirms(r) \/ ClientRefuses(r)
  \/ Rollback(r) \/ Confirm(r)

RequestDisturbed(r) ==
  \/ OpenFails(r) \/ AnswerLost(r) \/ RollbackFails(r) \/ ConfirmFails(r) \/ Drop(r)

-----------------------------------------------------------------------------
(* poll_downloads: a set of records to ask about, one status call for each. *)
(* The order within a scan is left out: any order may occur here.          *)

At(from, to) ==
  /\ lpc = from
  /\ lpc' = to

ScanDownloading ==
  /\ At("scan_downloading", "scan_submitted")
  /\ list' = ScanByStatus("Downloading")
  /\ UNCHANGED <<db, torrents, media, requests, cur, reply, cancelled, budget>>

\* Mutant of ScanSubmitted: takes the Queued records along.
ScanQueuedToo ==
  /\ At("scan_submitted", "poll")
  /\ list' = list \cup ScanByStatus("Submitted") \cup ScanByStatus("Queued")
  /\ UNCHANGED <<db, torrents, media, requests, cur, reply, cancelled, budget>>

ScanSubmitted ==
  /\ At("scan_submitted", "poll")
  /\ list' = list \cup ScanByStatus("Submitted")
  /\ UNCHANGED <<db, torrents, media, requests, cur, reply, cancelled, budget>>

\* Mutant of ScanFails: the error ends the loop.
ScanFailsForGood ==
  /\ Disturb("storage")
  /\ lpc \in {"scan_downloading", "scan_submitted"}
  /\ lpc' = "stopped"
  /\ list' = {}
  /\ UNCHANGED <<db, torrents, media, requests, cur, reply, cancelled>>

\* Either scan fails: nothing is polled in this pass.
ScanFails ==
  /\ Disturb("storage")
  /\ lpc \in {"scan_downloading", "scan_submitted"}
  /\ lpc' = "scan_importing"
  /\ list' = {}
  /\ UNCHANGED <<db, torrents, media, requests, cur, reply, cancelled>>

PollDone ==
  /\ list = {}
  /\ At("poll", "scan_importing")
  /\ UNCHANGED <<db, torrents, media, requests, list, cur, reply, cancelled, budget>>

\* The client answers with the torrents it lists at this moment, of those that
\* the text matches.  The first of them is taken, whichever that is.
PollAsk(d) ==
  /\ At("poll", "apply")
  /\ d \in list
  /\ list' = list \ {d}
  /\ cur' = d
  /\ LET found == {x \in Matched[d.info_hash] : torrents[x] \in ClientStates}
     IN  reply' \in IF found = {} THEN {NotFound}
                    ELSE {[state |-> torrents[x], own |-> x = d.info_hash] : x \in found}
  /\ UNCHANGED <<db, torrents, media, requests, cancelled, budget>>

\* Any other error than NotFound: the record waits for the next pass.
AskFails(d) ==
  /\ Disturb("client")
  /\ At("poll", "poll")
  /\ d \in list
  /\ list' = list \ {d}
  /\ UNCHANGED <<db, torrents, media, requests, cur, reply, cancelled>>

NewStatus == PolledStatus(parse_state(reply.state), cur.status)

ReportedName ==
  IF reply.state \in NoMetadata THEN "" ELSE IF reply.own THEN "content" ELSE "other"

\* Mutant of Polled: keeps the content name of the first report.
PolledNameKept ==
  [cur EXCEPT !.status = NewStatus,
              !.content_name = IF cur.status = "Submitted" THEN ReportedName ELSE @]

Polled ==
  [cur EXCEPT !.status = NewStatus, !.content_name = ReportedName]

PollKeeps ==
  /\ At("apply", "poll")
  /\ reply # NotFound
  /\ NewStatus = cur.status
  /\ UNCHANGED <<db, torrents, media, requests, list, cur, reply, cancelled, budget>>

PollUpdates ==
  /\ At("apply", "poll")
  /\ reply # NotFound
  /\ NewStatus # cur.status
  /\ Update(Polled)
  /\ UNCHANGED <<torrents, media, requests, list, cur, reply, cancelled, budget>>

PollRemoves ==
  /\ At("apply", "poll")
  /\ reply = NotFound
  /\ Remove(cur.info_hash)
  /\ UNCHANGED <<torrents, media, requests, list, cur, reply, cancelled, budget>>

\* The update or the remove fails, is logged, and the pass goes on.
PollWriteFails ==
  /\ At("apply", "poll")
  /\ WriteFails(cur.info_hash)
  /\ reply = NotFound \/ NewStatus # cur.status
  /\ UNCHANGED <<db, torrents, media, requests, list, cur, reply, cancelled>>

-----------------------------------------------------------------------------
(* import_downloads and import_download. *)

ScanImporting ==
  /\ At("scan_importing", "import")
  /\ list' = ScanByStatus("Importing")
  /\ UNCHANGED <<db, torrents, media, requests, cur, reply, cancelled, budget>>

ScanImportingFails ==
  /\ Disturb("storage")
  /\ At("scan_importing", "select")
  /\ UNCHANGED <<db, torrents, media, requests, list, cur, reply, cancelled>>

ImportDone ==
  /\ list = {}
  /\ At("import", "select")
  /\ UNCHANGED <<db, torrents, media, requests, list, cur, reply, cancelled, budget>>

ImportBreak ==
  /\ cancelled
  /\ list # {}
  /\ At("import", "select")
  /\ list' = {}
  /\ UNCHANGED <<db, torrents, media, requests, cur, reply, cancelled, budget>>

ImportBegin(d) ==
  /\ ~cancelled
  /\ At("import", "copy")
  /\ d \in list
  /\ list' = list \ {d}
  /\ cur' = d
  /\ UNCHANGED <<db, torrents, media, requests, reply, cancelled, budget>>

\* Files are written one at a time; one an earlier attempt left is truncated.
CopyPart ==
  /\ At("copy", "copy")
  /\ media[cur.info_hash] # "partial"
  /\ media' = [media EXCEPT ![cur.info_hash] = "partial"]
  /\ UNCHANGED <<db, torrents, requests, list, cur, reply, cancelled, budget>>

CopyFinishes ==
  /\ At("copy", "record")
  /\ media' = [media EXCEPT ![cur.info_hash] = "full"]
  /\ cur' = [cur EXCEPT !.status = "Imported", !.imported_path = cur.content_name]
  /\ UNCHANGED <<db, torrents, requests, list, reply, cancelled, budget>>

\* Mutant of CopyFails: the inner Err of spawn_blocking's result is dropped.
CopyFailsUnseen ==
  /\ At("copy", "record")
  /\ cur' = [cur EXCEPT !.status = "Imported", !.imported_path = cur.content_name]
  /\ UNCHANGED <<db, torrents, media, requests, list, reply, cancelled, budget>>

CopyFails ==
  /\ At("copy", "record")
  /\ cur' = [cur EXCEPT !.status = "Failed", !.error = TRUE]
  /\ UNCHANGED <<db, torrents, media, requests, list, reply, cancelled, budget>>

RecordImport ==
  /\ At("record", "import")
  /\ Update(cur)
  /\ UNCHANGED <<torrents, media, requests, list, cur, reply, cancelled, budget>>

\* Mutant of RecordFails: copies again at once.
RecordFailsRetried ==
  /\ At("record", "copy")
  /\ WriteFails(cur.info_hash)
  /\ UNCHANGED <<db, torrents, media, requests, list, cur, reply, cancelled>>

\* The record stays Importing, and the next pass copies again.
RecordFails ==
  /\ At("record", "import")
  /\ WriteFails(cur.info_hash)
  /\ UNCHANGED <<db, torrents, media, requests, list, cur, reply, cancelled>>

-----------------------------------------------------------------------------
(* The select! that ends a pass. *)

\* Mutant of Select: a plain sleep, with no branch on the token.
SelectSleeps ==
  /\ At("select", "sleep")
  /\ UNCHANGED <<db, torrents, media, requests, list, cur, reply, cancelled, budget>>

Select ==
  /\ At("select", IF cancelled THEN "stopped" ELSE "sleep")
  /\ UNCHANGED <<db, torrents, media, requests, list, cur, reply, cancelled, budget>>

Wake ==
  /\ At("sleep", "scan_downloading")
  /\ UNCHANGED <<db, torrents, media, requests, list, cur, reply, cancelled, budget>>

SleepCancelled ==
  /\ cancelled
  /\ At("sleep", "stopped")
  /\ UNCHANGED <<db, torrents, media, requests, list, cur, reply, cancelled, budget>>

LoopStep ==
  \/ ScanDownloading \/ ScanSubmitted \/ PollDone
  \/ PollKeeps \/ PollUpdates \/ PollRemoves
  \/ ScanImporting \/ ImportDone \/ ImportBreak
  \/ CopyPart \/ CopyFinishes \/ CopyFails \/ RecordImport
  \/ Select \/ Wake \/ SleepCancelled
  \/ \E d \in list : PollAsk(d) \/ ImportBegin(d)

LoopDisturbed ==
  \/ ScanFails \/ PollWriteFails \/ ScanImportingFails \/ RecordFails
  \/ \E d \in list : AskFails(d)

-----------------------------------------------------------------------------
(* The client's own doings, the token, and the process. *)

\* A torrent the client has goes from any state to any other.
TorrentMoves(h) ==
  /\ torrents[h] # "absent"
  /\ \E s \in ClientStates : torrents' = [torrents EXCEPT ![h] = s]
  /\ UNCHANGED <<db, media, requests, loop, cancelled, budget>>

\* Its user deletes it.
TorrentDeleted(h) ==
  /\ torrents[h] # "absent"
  /\ torrents' = [torrents EXCEPT ![h] = "absent"]
  /\ UNCHANGED <<db, media, requests, loop, cancelled, budget>>

Cancel ==
  /\ "cancel" \in Disturbances
  /\ ~cancelled
  /\ cancelled' = TRUE
  /\ UNCHANGED <<db, torrents, media, requests, loop, budget>>

\* The process ends, as start::run returns once the token is cancelled or in a
\* crash, and starts again over the same file.
Restart ==
  /\ Disturb("crash") \/ (cancelled /\ UNCHANGED budget)
  /\ rpc' = [r \in Request |-> "idle"]
  /\ answer' = [r \in Request |-> "none"]
  /\ lpc' = "scan_downloading"
  /\ list' = {}
  /\ cur' = NoRecord
  /\ reply' = NotFound
  /\ cancelled' = FALSE
  /\ UNCHANGED <<db, torrents, media, rhash>>

Next ==
  \/ \E r \in Request :
       RequestStep(r) \/ RequestDisturbed(r) \/ \E h \in InfoHash : Call(r, h)
  \/ LoopStep \/ LoopDisturbed
  \/ \E h \in InfoHash : TorrentMoves(h) \/ TorrentDeleted(h)
  \/ Cancel \/ Restart

Spec == Init /\ [][Next]_vars

\* The runtime runs every task that is ready, redb answers, and so does the
\* client, or its connection breaks (no call has a timeout of its own).
\* Nothing is assumed of the callers, the token, the user or the failures.
Fairness ==
  /\ WF_vars(LoopStep)
  /\ \A r \in Request : WF_vars(RequestStep(r))

FairSpec == Spec /\ Fairness

-----------------------------------------------------------------------------
(* Safety. *)

Fresh(d) == db[d.info_hash] = d

\* The record copy a task holds across an await, a copy or another task's
\* transaction is what the repository still holds when the task writes it
\* back: no update is lost, none recreates a removed record, and no rollback
\* removes a record that has moved on (App::download, poll_downloads and
\* import_download write whole records without reading again).
RequestCopiesFresh ==
  \A r \in Request : rpc[r] \in Holding => Fresh(NewDownload(rhash[r]))

CopyOf(d) ==   \* what import_download read, recovered from what it will write
  [d EXCEPT !.status = "Importing", !.imported_path = "none", !.error = FALSE]

LoopCopiesFresh ==
  /\ \A d \in list : Fresh(d)
  /\ lpc \in {"apply", "copy"} => Fresh(cur)
  /\ lpc = "record" => Fresh(CopyOf(cur))

CopiesFresh == RequestCopiesFresh /\ LoopCopiesFresh

\* Of the requests that race on one magnet at most one goes past the insert and
\* talks to the client, so a rollback never removes the record of another.
OneSubmitter ==
  \A r, q \in Request :
    rpc[r] \in Holding /\ rpc[q] \in Holding /\ rhash[r] = rhash[q] => r = q

\* A torrent the service has given to the client has a record that tells where
\* it goes, however the request ended, provided the client lists a torrent as
\* soon as it has it and its answers arrive (download() rolls back on any error
\* of the call, poll_downloads removes what the client does not list).
NoOrphanTorrent ==
  \A h \in InfoHash : torrents[h] # "absent" => Exists(h)

\* A record that says Imported has all of its content in the target directory,
\* also when earlier attempts were cut off by a crash or were not recorded; the
\* path is recorded by that transition only, an error by a failure only.
ImportedIsCopied ==
  \A h \in InfoHash : Exists(h) =>
    /\ db[h].status = "Imported" => media[h] = "full"
    /\ (db[h].imported_path # "none") = (db[h].status = "Imported")
    /\ db[h].error => db[h].status = "Failed"

\* What is imported is the content of one torrent, never the client's whole
\* download directory, as with an empty content_name; and it is the record's own
\* torrent where the info hash is one.  Where it is not, status() may answer with
\* any other torrent, whose content is then imported: nothing in the code looks.
ImportsOwnContent ==
  \A h \in InfoHash : db[h].status \in {"Importing", "Imported"} =>
    /\ db[h].content_name # ""
    /\ IsHash(h) => db[h].content_name = "content"

\* Every record goes through its life as the abstract specification says.
Lifecycle ==
  INSTANCE DownloadLifecycle
  WITH Name   <- ContentName \ {""},
       status <- [h \in InfoHash |-> db[h].status],
       path   <- [h \in InfoHash |-> IF Exists(h) THEN db[h].imported_path ELSE "none"]

FollowsLifecycle == Lifecycle!Spec

-----------------------------------------------------------------------------
(* Liveness, under FairSpec. *)

\* A record leaves Queued: download() ends by confirming or by rolling back
\* (the DownloadService doc promises one of the two).
QueuedResolves ==
  \A h \in InfoHash : db[h].status = "Queued" ~> db[h].status # "Queued"

\* What of it holds with every kind of failure: a record that a request still holds
\* when nothing fails any more leaves Queued, unless the service is shut down first,
\* also if the client's answer was lost.
HeldResolves ==
  \A h \in InfoHash :
    (/\ db[h].status = "Queued" /\ budget = 0 /\ ~cancelled
     /\ \E r \in Request : rpc[r] \in Holding /\ rhash[r] = h)
      ~> (db[h].status # "Queued" \/ cancelled)

\* A torrent that ends up seeding gets its record imported, or declared failed,
\* or was gone from the client when the poll loop looked, as long as the loop is
\* not cancelled, and whatever failed before.
SeedingIsImported ==
  \A h \in InfoHash :
    <>[](torrents[h] = "uploading" /\ ~cancelled) =>
      (db[h].status \in Pending \cup {"Importing"}
         ~> db[h].status \in Terminal \cup {"none"})

\* The poll loop stops after the token is cancelled, wherever it is then.
StopsOnCancel == cancelled ~> (lpc = "stopped" \/ ~cancelled)

=============================================================================
