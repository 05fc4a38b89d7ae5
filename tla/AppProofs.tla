------------------------------ MODULE AppProofs ------------------------------
(***************************************************************************)
(* The safety properties of App, proved for every set of requests, of info *)
(* hashes and of client states, and for every choice of disturbances.      *)
(***************************************************************************)
EXTENDS App, TLAPS

\* What the loop's list and its current record are at each of its steps.
\* CopiesFresh alone is not inductive: that a write to the current record
\* leaves the other copies fresh needs the list not to hold it twice, and that
\* a rollback leaves them fresh needs their status to be past Queued.  Nor is
\* ImportsOwnContent without what the client's answer is about.
LoopInv ==
  /\ lpc \in {"scan_downloading", "scan_importing", "select", "sleep", "stopped"} =>
       list = {}
  /\ lpc = "scan_submitted" => \A d \in list : d.status = "Downloading"
  /\ lpc \in {"poll", "apply"} => \A d \in list : d.status \in Pending
  /\ lpc \in {"import", "copy", "record"} => \A d \in list : d.status = "Importing"
  /\ lpc = "apply" =>
       /\ cur \notin list /\ cur.status \in Pending
       /\ IsHash(cur.info_hash) => reply = NotFound \/ reply.own
  /\ lpc = "copy" => cur \notin list /\ cur.status = "Importing"
  /\ lpc = "record" =>
       /\ CopyOf(cur) \notin list
       /\ \/ /\ cur.status = "Imported"
             /\ cur.imported_path \in {"content", "other"}
             /\ ~cur.error
             /\ media[cur.info_hash] = "full"
          \/ /\ cur.status = "Failed"
             /\ cur.imported_path = "none"

\* A name of what may be copied for the record of h.
OwnName(h, name) == name # "" /\ (IsHash(h) => name = "content")

RecordInv == ImportedIsCopied /\ ImportsOwnContent

IInv == TypeOK /\ CopiesFresh /\ OneSubmitter /\ LoopInv /\ RecordInv

-----------------------------------------------------------------------------
(* Facts about records and the store. *)

LEMMA NewDownloadType ==
  ASSUME NEW h \in InfoHash
  PROVE  /\ NewDownload(h) \in Download
         /\ NewDownload(h).info_hash = h
         /\ NewDownload(h).status = "Queued"
         /\ NewDownload(h).imported_path = "none"
         /\ NewDownload(h).content_name = ""
         /\ NewDownload(h).error = FALSE
  BY DEF NewDownload, Download, DownloadStatus, ContentName

LEMMA NoRecordType ==
  /\ NoRecord.status = "none"
  /\ NoRecord \notin Download
  BY DEF NoRecord, Download, DownloadStatus

LEMMA ExistsType ==
  ASSUME StoreTypeOK, NEW h \in InfoHash
  PROVE  /\ Exists(h) <=> db[h] \in Download
         /\ Exists(h) <=> db[h] # NoRecord
         /\ Exists(h) => db[h].info_hash = h
  BY NoRecordType DEF StoreTypeOK, Exists, Download, DownloadStatus

LEMMA PolledStatusType ==
  ASSUME NEW s, NEW old \in DownloadStatus
  PROVE  PolledStatus(parse_state(s), old) \in DownloadStatus
  BY DEF PolledStatus, parse_state, DownloadStatus

LEMMA WriteType ==
  ASSUME StoreTypeOK, NEW d \in Download,
         db' = [db EXCEPT ![d.info_hash] = d]
  PROVE  StoreTypeOK'
  BY DEF StoreTypeOK, Download

LEMMA RemoveType ==
  ASSUME StoreTypeOK, NEW h \in InfoHash, Remove(h)
  PROVE  StoreTypeOK'
  BY DEF StoreTypeOK, Remove

LEMMA ScanType ==
  ASSUME StoreTypeOK, NEW s \in DownloadStatus
  PROVE  /\ ScanByStatus(s) \subseteq Download
         /\ \A d \in ScanByStatus(s) : d.status = s /\ Fresh(d)
  BY ExistsType DEF ScanByStatus, Exists, Fresh, DownloadStatus

LEMMA NotFoundType ==
  /\ NotFound \in Reply
  /\ NotFound.state = "absent"
  BY DEF NotFound, Reply

-----------------------------------------------------------------------------
(* Type correctness. *)

LEMMA TypeInit == Init => TypeOK
<1> SUFFICES ASSUME Init PROVE TypeOK
  OBVIOUS
<1>1. StoreTypeOK
  BY DEF Init, StoreInit, StoreTypeOK
<1>2. /\ torrents \in [InfoHash -> TorrentSlot]
      /\ media \in [InfoHash -> {"none", "partial", "full"}]
  BY DEF Init, TorrentSlot
<1>3. /\ rpc \in [Request -> RequestPC]
      /\ rhash \in [Request -> InfoHash]
      /\ answer \in [Request -> Answer]
  BY DEF Init, RequestPC, Answer
<1>4. LoopStart /\ budget \in 0..MaxDisturbances
  BY DisturbanceAssumption DEF Init
<1> QED
  BY <1>1, <1>2, <1>3, <1>4, NotFoundType DEF LoopStart, TypeOK, LoopPC

LEMMA RequestType ==
  ASSUME TypeOK, NEW r \in Request, RequestStep(r) \/ RequestDisturbed(r)
  PROVE  TypeOK'
<1> rhash[r] \in InfoHash
  BY DEF TypeOK
<1> DEFINE Kept == db' = db \/ Remove(rhash[r])
                   \/ \E d \in Download : db' = [db EXCEPT ![d.info_hash] = d]
<1>1. ASSUME Kept PROVE StoreTypeOK'
  <2>1. CASE db' = db
    BY <2>1 DEF TypeOK, StoreTypeOK
  <2>2. CASE Remove(rhash[r])
    BY <2>2, RemoveType DEF TypeOK
  <2>3. CASE \E d \in Download : db' = [db EXCEPT ![d.info_hash] = d]
    BY <2>3, WriteType DEF TypeOK
  <2> QED
    BY <1>1, <2>1, <2>2, <2>3
<1> DEFINE Submitted == [NewDownload(rhash[r]) EXCEPT !.status = "Submitted"]
<1>2. Submitted \in Download
  BY DEF Submitted, NewDownload, Download, DownloadStatus, ContentName
<1>3. NewDownload(rhash[r]) \in Download
  BY NewDownloadType
<1> HIDE DEF Submitted
<1>4. Kept
  BY <1>2, <1>3
  DEF RequestStep, RequestDisturbed, GetFound, GetNotFound, InsertRecord, InsertRefused,
      OpenFails, ClientTakes, ClientConfirms, ClientRefuses, AnswerLost, Rollback,
      RollbackFails, Confirm, ConfirmFails, Drop, Insert, Update, Submitted
<1>5. /\ rpc' \in [Request -> RequestPC]
      /\ answer' \in [Request -> Answer]
      /\ rhash' = rhash
  BY DEF TypeOK, RequestStep, RequestDisturbed, GetFound, GetNotFound, InsertRecord,
      InsertRefused, OpenFails, ClientTakes, ClientConfirms, ClientRefuses, AnswerLost,
      Rollback, RollbackFails, Confirm, ConfirmFails, Drop, Goto, Return, RequestPC,
      Holding, Awaiting, Answer
<1>6. torrents' \in [InfoHash -> TorrentSlot]
  BY DEF TypeOK, RequestStep, RequestDisturbed, GetFound, GetNotFound, InsertRecord,
      InsertRefused, OpenFails, ClientTakes, ClientConfirms, ClientRefuses, AnswerLost,
      Rollback, RollbackFails, Confirm, ConfirmFails, Drop, TorrentSlot
<1>7. UNCHANGED <<media, loop, cancelled>>
  BY DEF RequestStep, RequestDisturbed, GetFound, GetNotFound, InsertRecord,
      InsertRefused, OpenFails, ClientTakes, ClientConfirms, ClientRefuses, AnswerLost,
      Rollback, RollbackFails, Confirm, ConfirmFails, Drop
<1>8. budget' \in 0..MaxDisturbances
  BY DisturbanceAssumption
  DEF TypeOK, RequestStep, RequestDisturbed, GetFound, GetNotFound, InsertRecord,
      InsertRefused, OpenFails, ClientTakes, ClientConfirms, ClientRefuses, AnswerLost,
      Rollback, RollbackFails, Confirm, ConfirmFails, Drop, Disturb, WriteFails
<1> HIDE DEF Kept
<1> QED
  BY <1>1, <1>4, <1>5, <1>6, <1>7, <1>8 DEF TypeOK, loop

LEMMA LoopType ==
  ASSUME TypeOK, LoopStep \/ LoopDisturbed
  PROVE  TypeOK'
<1> DEFINE Copy == cur.info_hash \in InfoHash
<1>1. StoreTypeOK'
  <2>1. ASSUME PollUpdates PROVE StoreTypeOK'
    <3>1. Polled \in Download
      BY <2>1, PolledStatusType
      DEF PollUpdates, At, TypeOK, Polled, NewStatus, ReportedName, Download, ContentName
    <3>2. Polled.info_hash = cur.info_hash
      BY <2>1 DEF PollUpdates, At, TypeOK, Polled, Download
    <3> QED
      BY <2>1, <3>1, <3>2, WriteType DEF PollUpdates, Update, TypeOK
  <2>2. ASSUME PollRemoves PROVE StoreTypeOK'
    BY <2>2, RemoveType DEF PollRemoves, At, TypeOK, Download
  <2>3. ASSUME RecordImport PROVE StoreTypeOK'
    BY <2>3, WriteType DEF RecordImport, At, Update, TypeOK
  <2>4. PollUpdates \/ PollRemoves \/ RecordImport \/ UNCHANGED db
    BY DEF LoopStep, LoopDisturbed, ScanDownloading, ScanSubmitted, ScanFails, PollDone,
        PollAsk, AskFails, PollKeeps, PollWriteFails, ScanImporting, ScanImportingFails,
        ImportDone, ImportBreak, ImportBegin, CopyPart, CopyFinishes, CopyFails,
        RecordFails, Select, Wake, SleepCancelled
  <2> QED
    BY <2>1, <2>2, <2>3, <2>4 DEF TypeOK, StoreTypeOK
<1>2. UNCHANGED <<torrents, requests, cancelled>>
  BY DEF LoopStep, LoopDisturbed, ScanDownloading, ScanSubmitted, ScanFails, PollDone,
      PollAsk, AskFails, PollKeeps, PollUpdates, PollRemoves, PollWriteFails,
      ScanImporting, ScanImportingFails, ImportDone, ImportBreak, ImportBegin, CopyPart,
      CopyFinishes, CopyFails, RecordImport, RecordFails, Select, Wake, SleepCancelled
<1>3. budget' \in 0..MaxDisturbances
  BY DisturbanceAssumption
  DEF TypeOK, Disturb, WriteFails,
      LoopStep, LoopDisturbed, ScanDownloading, ScanSubmitted, ScanFails, PollDone,
      PollAsk, AskFails, PollKeeps, PollUpdates, PollRemoves, PollWriteFails,
      ScanImporting, ScanImportingFails, ImportDone, ImportBreak, ImportBegin, CopyPart,
      CopyFinishes, CopyFails, RecordImport, RecordFails, Select, Wake, SleepCancelled
<1>4. media' \in [InfoHash -> {"none", "partial", "full"}]
  BY DEF TypeOK,
      LoopStep, LoopDisturbed, ScanDownloading, ScanSubmitted, ScanFails, PollDone,
      PollAsk, AskFails, PollKeeps, PollUpdates, PollRemoves, PollWriteFails,
      ScanImporting, ScanImportingFails, ImportDone, ImportBreak, ImportBegin, CopyPart,
      CopyFinishes, CopyFails, RecordImport, RecordFails, Select, Wake, SleepCancelled
<1>5. /\ lpc' \in LoopPC
      /\ list' \subseteq Download
  <2>1. \A s \in DownloadStatus : ScanByStatus(s) \subseteq Download
    BY ScanType DEF TypeOK
  <2>2. {"Downloading", "Submitted", "Importing"} \subseteq DownloadStatus
    BY DEF DownloadStatus
  <2> QED
    BY <2>1, <2>2
    DEF TypeOK, LoopPC, At,
      LoopStep, LoopDisturbed, ScanDownloading, ScanSubmitted, ScanFails, PollDone,
      PollAsk, AskFails, PollKeeps, PollUpdates, PollRemoves, PollWriteFails,
      ScanImporting, ScanImportingFails, ImportDone, ImportBreak, ImportBegin, CopyPart,
      CopyFinishes, CopyFails, RecordImport, RecordFails, Select, Wake, SleepCancelled
<1>6. /\ cur' \in Download \cup {NoRecord}
      /\ lpc' \in {"apply", "copy", "record"} => cur' \in Download
  <2>1. ASSUME CopyFinishes PROVE cur' \in Download
    BY <2>1 DEF CopyFinishes, At, TypeOK, Download, DownloadStatus, ContentName
  <2>2. ASSUME CopyFails PROVE cur' \in Download
    BY <2>2 DEF CopyFails, At, TypeOK, Download, DownloadStatus
  <2>3. ASSUME NEW d \in list, PollAsk(d) \/ ImportBegin(d) PROVE cur' \in Download
    BY <2>3 DEF PollAsk, ImportBegin, TypeOK
  <2>4. \/ CopyFinishes \/ CopyFails
        \/ \E d \in list : PollAsk(d) \/ ImportBegin(d)
        \/ /\ UNCHANGED cur
           /\ lpc' \in {"apply", "copy", "record"} => lpc \in {"apply", "copy", "record"}
    BY DEF At, TypeOK, LoopStep, LoopDisturbed, ScanDownloading, ScanSubmitted, ScanFails,
        PollDone, AskFails, PollKeeps, PollUpdates, PollRemoves, PollWriteFails,
        ScanImporting, ScanImportingFails, ImportDone, ImportBreak, CopyPart,
        RecordImport, RecordFails, Select, Wake, SleepCancelled
  <2> QED
    BY <2>1, <2>2, <2>3, <2>4 DEF TypeOK
<1>7. reply' \in Reply
  <2>1. ASSUME NEW d \in list, PollAsk(d) PROVE reply' \in Reply
    <3>1. CASE reply' = NotFound
      BY <3>1, NotFoundType
    <3>2. ASSUME NEW x \in Matched[d.info_hash], torrents[x] \in ClientStates,
                 reply' = [state |-> torrents[x], own |-> x = d.info_hash]
          PROVE  reply' \in Reply
      <4> DEFINE own == x = d.info_hash
      <4>1. own \in BOOLEAN
        OBVIOUS
      <4>2. reply' = [state |-> torrents[x], own |-> own]
        BY <3>2
      <4> HIDE DEF own
      <4> QED
        BY <3>2, <4>1, <4>2 DEF Reply
    <3> QED
      BY <2>1, <3>1, <3>2 DEF PollAsk
  <2>2. (\E d \in list : PollAsk(d)) \/ UNCHANGED reply
    BY DEF LoopStep, LoopDisturbed, ScanDownloading, ScanSubmitted, ScanFails, PollDone,
        AskFails, PollKeeps, PollUpdates, PollRemoves, PollWriteFails, ScanImporting,
        ScanImportingFails, ImportDone, ImportBreak, ImportBegin, CopyPart, CopyFinishes,
        CopyFails, RecordImport, RecordFails, Select, Wake, SleepCancelled
  <2> QED
    BY <2>1, <2>2 DEF TypeOK
<1> QED
  BY <1>1, <1>2, <1>3, <1>4, <1>5, <1>6, <1>7 DEF TypeOK, requests

LEMMA TypeStep == TypeOK /\ [Next]_vars => TypeOK'
<1> SUFFICES ASSUME TypeOK, [Next]_vars PROVE TypeOK'
  OBVIOUS
<1>1. ASSUME NEW r \in Request, NEW h \in InfoHash, Call(r, h) PROVE TypeOK'
  BY <1>1 DEF Call, TypeOK, StoreTypeOK, loop, RequestPC, Answer
<1>2. ASSUME NEW h \in InfoHash, TorrentMoves(h) \/ TorrentDeleted(h) PROVE TypeOK'
  BY <1>2 DEF TorrentMoves, TorrentDeleted, TypeOK, StoreTypeOK, requests, loop, TorrentSlot
<1>3. CASE Cancel
  BY <1>3 DEF Cancel, TypeOK, StoreTypeOK, requests, loop
<1>4. ASSUME Restart PROVE TypeOK'
  <2>1. StoreTypeOK'
    BY <1>4 DEF Restart, TypeOK, StoreTypeOK
  <2>2. /\ rpc' \in [Request -> RequestPC]
        /\ answer' \in [Request -> Answer]
    BY <1>4 DEF Restart, RequestPC, Answer
  <2>3. budget' \in 0..MaxDisturbances
    BY <1>4, DisturbanceAssumption DEF Restart, Disturb, TypeOK
  <2>4. LoopStart'
    BY <1>4 DEF Restart, LoopStart
  <2> QED
    BY <1>4, <2>1, <2>2, <2>3, <2>4, NotFoundType DEF Restart, LoopStart, TypeOK, LoopPC
<1>5. CASE UNCHANGED vars
  BY <1>5 DEF vars, TypeOK, StoreTypeOK, requests, loop
<1> QED
  BY <1>1, <1>2, <1>3, <1>4, <1>5, RequestType, LoopType DEF Next

\* Every variable keeps its type, whatever the requests, the loop, the client
\* and the failures do.
THEOREM TypeCorrect == Spec => []TypeOK
<1>1. Init => TypeOK
  BY TypeInit
<1>2. TypeOK /\ [Next]_vars => TypeOK'
  BY TypeStep
<1> QED
  BY <1>1, <1>2, PTL DEF Spec

-----------------------------------------------------------------------------
(* The inductive invariant. *)

LEMMA InvInit == Init => IInv
<1> SUFFICES ASSUME Init PROVE IInv
  OBVIOUS
<1>1. TypeOK
  BY TypeInit
<1>2. \A h \in InfoHash : ~Exists(h) /\ db[h].status = "none"
  BY NoRecordType DEF Init, StoreInit, Exists
<1>3. RecordInv
  BY <1>2 DEF RecordInv, ImportedIsCopied, ImportsOwnContent
<1>4. CopiesFresh /\ OneSubmitter
  BY DEF Init, LoopStart, CopiesFresh, RequestCopiesFresh, LoopCopiesFresh, OneSubmitter,
      Holding, Awaiting
<1>5. LoopInv
  BY DEF Init, LoopStart, LoopInv
<1> QED
  BY <1>1, <1>3, <1>4, <1>5 DEF IInv

\* What a request holds is Queued, what the loop holds is past it: a write to a
\* record of one kind leaves the copies of the other kind fresh.
LEMMA RequestHoldsQueued ==
  ASSUME IInv, NEW r \in Request, rpc[r] \in Holding
  PROVE  /\ db[rhash[r]] = NewDownload(rhash[r])
         /\ db[rhash[r]].status = "Queued"
<1>1. rhash[r] \in InfoHash
  BY DEF IInv, TypeOK
<1>2. Fresh(NewDownload(rhash[r]))
  BY DEF IInv, CopiesFresh, RequestCopiesFresh
<1>3. /\ NewDownload(rhash[r]).info_hash = rhash[r]
      /\ NewDownload(rhash[r]).status = "Queued"
  BY <1>1, NewDownloadType
<1> QED
  BY <1>2, <1>3 DEF Fresh

LEMMA LoopHoldsLater ==
  ASSUME IInv
  PROVE  /\ \A d \in list : /\ d.info_hash \in InfoHash
                            /\ db[d.info_hash] = d
                            /\ d.status \in Pending \cup {"Importing"}
         /\ lpc \in {"apply", "copy", "record"} =>
              /\ cur.info_hash \in InfoHash
              /\ db[cur.info_hash].status \in Pending \cup {"Importing"}
<1>1. ASSUME NEW d \in list PROVE d.status \in Pending \cup {"Importing"}
  BY DEF IInv, LoopInv, TypeOK, LoopPC, Pending
<1>2. lpc = "record" =>
        CopyOf(cur).status = "Importing" /\ CopyOf(cur).info_hash = cur.info_hash
  BY DEF CopyOf, IInv, TypeOK, Download
<1> QED
  BY <1>1, <1>2 DEF IInv, TypeOK, CopiesFresh, LoopCopiesFresh, LoopInv, Fresh, Download

\* A write to a record that is absent or Queued does not concern the loop.
LEMMA LoopFrame ==
  ASSUME IInv, UNCHANGED <<loop, media>>,
         NEW h \in InfoHash, db[h].status \in {"none", "Queued"},
         \A x \in InfoHash \ {h} : db'[x] = db[x]
  PROVE  LoopCopiesFresh' /\ LoopInv'
<1>1. \A d \in list : d.info_hash \in InfoHash \ {h}
  BY LoopHoldsLater DEF Pending
<1>2. lpc \in {"apply", "copy", "record"} => cur.info_hash \in InfoHash \ {h}
  BY LoopHoldsLater DEF Pending
<1>3. lpc = "record" => CopyOf(cur).info_hash = cur.info_hash
  BY DEF CopyOf, IInv, TypeOK, Download
<1>4. LoopCopiesFresh'
  BY <1>1, <1>2, <1>3 DEF IInv, CopiesFresh, LoopCopiesFresh, Fresh, loop, CopyOf
<1>5. LoopInv'
  BY DEF IInv, LoopInv, loop, CopyOf
<1> QED
  BY <1>4, <1>5

\* A write to a record past Queued does not concern the requests.
LEMMA RequestFrame ==
  ASSUME IInv, UNCHANGED <<rpc, rhash>>,
         NEW h \in InfoHash, db[h].status \in Pending \cup {"Importing"},
         \A x \in InfoHash \ {h} : db'[x] = db[x]
  PROVE  RequestCopiesFresh' /\ OneSubmitter'
<1>1. ASSUME NEW r \in Request, rpc[r] \in Holding PROVE rhash[r] \in InfoHash \ {h}
  BY <1>1, RequestHoldsQueued DEF Pending, IInv, TypeOK
<1>2. ASSUME NEW r \in Request, rpc[r] \in Holding
      PROVE  NewDownload(rhash[r]).info_hash = rhash[r]
  BY <1>1, <1>2, NewDownloadType
<1>3. RequestCopiesFresh'
  BY <1>1, <1>2 DEF IInv, CopiesFresh, RequestCopiesFresh, Fresh, NewDownload
<1>4. OneSubmitter'
  BY DEF IInv, OneSubmitter
<1> QED
  BY <1>3, <1>4

\* RecordInv is about one record at a time.
LEMMA RecordFrame ==
  ASSUME IInv, NEW h \in InfoHash,
         \A x \in InfoHash \ {h} : db'[x] = db[x] /\ media'[x] = media[x],
         Exists(h)' =>
           /\ db'[h].status = "Imported" => media'[h] = "full"
           /\ (db'[h].imported_path # "none") = (db'[h].status = "Imported")
           /\ db'[h].error => db'[h].status = "Failed",
         db'[h].status \in {"Importing", "Imported"} => OwnName(h, db'[h].content_name)
  PROVE  RecordInv'
<1>1. ImportedIsCopied'
  BY DEF IInv, RecordInv, ImportedIsCopied, Exists
<1>2. ImportsOwnContent'
  BY DEF IInv, RecordInv, ImportsOwnContent, OwnName
<1> QED
  BY <1>1, <1>2 DEF RecordInv

-----------------------------------------------------------------------------
(* Every step preserves it: first the requests'. *)

LEMMA InsertSafe ==
  ASSUME IInv, NEW r \in Request, InsertRecord(r)
  PROVE  CopiesFresh' /\ OneSubmitter' /\ LoopInv' /\ RecordInv'
<1> DEFINE h == rhash[r]
<1>1. h \in InfoHash /\ ~Exists(h) /\ db[h].status = "none"
  BY NewDownloadType DEF IInv, TypeOK, InsertRecord, Insert, Exists
<1>2. db' = [db EXCEPT ![h] = NewDownload(h)]
  BY <1>1, NewDownloadType DEF InsertRecord, Insert
<1>3. db'[h] = NewDownload(h) /\ \A x \in InfoHash \ {h} : db'[x] = db[x]
  BY <1>1, <1>2 DEF IInv, TypeOK, StoreTypeOK
<1>4. rpc' = [rpc EXCEPT ![r] = "submit"] /\ rhash' = rhash
  BY DEF InsertRecord, Goto
<1>5. ASSUME NEW q \in Request, rpc[q] \in Holding
      PROVE  /\ rhash[q] \in InfoHash \ {h}
             /\ NewDownload(rhash[q]).info_hash = rhash[q]
  <2>1. rhash[q] \in InfoHash /\ db[rhash[q]].status = "Queued"
    BY <1>5, RequestHoldsQueued DEF IInv, TypeOK
  <2> QED
    BY <1>1, <2>1, NewDownloadType
<1>6. LoopCopiesFresh' /\ LoopInv'
  <2>1. UNCHANGED <<loop, media>>
    BY DEF InsertRecord
  <2> HIDE DEF h
  <2> QED
    BY <1>1, <1>3, <2>1, LoopFrame
<1>7. RequestCopiesFresh'
  <2> SUFFICES ASSUME NEW q \in Request, rpc'[q] \in Holding
               PROVE  Fresh(NewDownload(rhash[q]))'
    BY <1>4 DEF RequestCopiesFresh, NewDownload, Fresh
  <2>1. CASE q = r
    BY <1>1, <1>3, <1>4, <2>1, NewDownloadType DEF Fresh, NewDownload
  <2>2. CASE q # r
    <3>1. rpc[q] \in Holding
      BY <1>4, <2>2 DEF IInv, TypeOK
    <3>2. Fresh(NewDownload(rhash[q]))
      BY <3>1 DEF IInv, CopiesFresh, RequestCopiesFresh
    <3> QED
      BY <1>3, <1>4, <1>5, <3>1, <3>2 DEF Fresh, NewDownload
  <2> QED
    BY <2>1, <2>2
<1>8. OneSubmitter'
  <2>1. \A q \in Request : q # r /\ rpc'[q] \in Holding => rhash[q] # h
    BY <1>4, <1>5 DEF IInv, TypeOK
  <2> QED
    BY <1>4, <2>1 DEF IInv, OneSubmitter, TypeOK
<1>9. RecordInv'
  <2>1. media' = media
    BY DEF InsertRecord
  <2>2. /\ NewDownload(h).status = "Queued"
        /\ NewDownload(h).imported_path = "none"
        /\ NewDownload(h).error = FALSE
    BY <1>1, NewDownloadType
  <2> HIDE DEF h
  <2> QED
    BY <1>1, <1>3, <2>1, <2>2, RecordFrame
<1> QED
  BY <1>6, <1>7, <1>8, <1>9 DEF CopiesFresh

\* A request ends and writes to, or removes, the record it holds.
LEMMA ReleaseSafe ==
  ASSUME IInv, NEW r \in Request, rpc[r] \in Holding,
         NEW pc \in {"done", "idle"}, rpc' = [rpc EXCEPT ![r] = pc],
         UNCHANGED <<rhash, media, loop>>,
         \A x \in InfoHash \ {rhash[r]} : db'[x] = db[x],
         Exists(rhash[r])' =>
           db'[rhash[r]].imported_path = "none" /\ db'[rhash[r]].error = FALSE,
         db'[rhash[r]].status \in {"none", "Submitted"}
  PROVE  CopiesFresh' /\ OneSubmitter' /\ LoopInv' /\ RecordInv'
<1> DEFINE h == rhash[r]
<1>1. h \in InfoHash /\ db[h].status = "Queued"
  BY RequestHoldsQueued DEF IInv, TypeOK
<1>2. ASSUME NEW q \in Request, rpc'[q] \in Holding
      PROVE  /\ rpc[q] \in Holding /\ q # r
             /\ rhash[q] \in InfoHash \ {h}
             /\ NewDownload(rhash[q]).info_hash = rhash[q]
  <2>1. q # r /\ rpc[q] \in Holding
    BY <1>2 DEF IInv, TypeOK, Holding, Awaiting
  <2>2. rhash[q] \in InfoHash \ {h}
    BY <2>1 DEF IInv, TypeOK, OneSubmitter
  <2> QED
    BY <2>1, <2>2, NewDownloadType
<1>3. RequestCopiesFresh'
  <2> SUFFICES ASSUME NEW q \in Request, rpc'[q] \in Holding
               PROVE  Fresh(NewDownload(rhash[q]))'
    BY DEF RequestCopiesFresh, NewDownload, Fresh
  <2>1. Fresh(NewDownload(rhash[q]))
    BY <1>2 DEF IInv, CopiesFresh, RequestCopiesFresh
  <2> QED
    BY <1>2, <2>1 DEF Fresh, NewDownload
<1>4. OneSubmitter'
  BY <1>2 DEF IInv, OneSubmitter
<1>5. LoopCopiesFresh' /\ LoopInv'
  <2> HIDE DEF h
  <2>1. \A x \in InfoHash \ {h} : db'[x] = db[x]
    BY DEF h
  <2> QED
    BY <1>1, <2>1, LoopFrame
<1>6. RecordInv'
  <2>1. /\ \A x \in InfoHash \ {h} : db'[x] = db[x] /\ media'[x] = media[x]
        /\ Exists(h)' => db'[h].imported_path = "none" /\ db'[h].error = FALSE
        /\ db'[h].status \in {"none", "Submitted"}
    OBVIOUS
  <2> HIDE DEF h
  <2> QED
    BY <1>1, <2>1, RecordFrame
<1> QED
  BY <1>3, <1>4, <1>5, <1>6 DEF CopiesFresh

\* The other steps of a request leave the store alone.
LEMMA RequestQuiet ==
  ASSUME IInv, NEW r \in Request, NEW pc, rpc' = [rpc EXCEPT ![r] = pc],
         pc \in Holding => rpc[r] \in Holding,
         rhash' = rhash
           \/ (pc \notin Holding /\ \A q \in Request \ {r} : rhash'[q] = rhash[q]),
         UNCHANGED <<db, media, loop>>
  PROVE  CopiesFresh' /\ OneSubmitter' /\ LoopInv' /\ RecordInv'
<1>1. ASSUME NEW q \in Request, rpc'[q] \in Holding
      PROVE  rpc[q] \in Holding /\ rhash'[q] = rhash[q]
  BY <1>1 DEF IInv, TypeOK
<1>2. RequestCopiesFresh' /\ OneSubmitter'
  BY <1>1 DEF IInv, CopiesFresh, RequestCopiesFresh, OneSubmitter, Fresh, NewDownload
<1>3. LoopCopiesFresh' /\ LoopInv'
  BY DEF IInv, CopiesFresh, LoopCopiesFresh, LoopInv, loop, Fresh, CopyOf
<1>4. RecordInv'
  BY DEF IInv, RecordInv, ImportedIsCopied, ImportsOwnContent, Exists
<1> QED
  BY <1>2, <1>3, <1>4 DEF CopiesFresh

LEMMA RequestSafe ==
  ASSUME IInv, NEW r \in Request, RequestStep(r) \/ RequestDisturbed(r)
  PROVE  CopiesFresh' /\ OneSubmitter' /\ LoopInv' /\ RecordInv'
<1> DEFINE Goal == CopiesFresh' /\ OneSubmitter' /\ LoopInv' /\ RecordInv'
<1>t. rhash[r] \in InfoHash /\ db \in [InfoHash -> Download \cup {NoRecord}]
  BY DEF IInv, TypeOK, StoreTypeOK
<1>1. ASSUME InsertRecord(r) PROVE Goal
  BY <1>1, InsertSafe
<1>2. ASSUME Rollback(r) PROVE Goal
  <2>1. /\ rpc[r] \in Holding
        /\ rpc' = [rpc EXCEPT ![r] = "done"]
        /\ UNCHANGED <<rhash, media, loop>>
    BY <1>2 DEF Rollback, Return, Goto, Holding
  <2>2. db' = [db EXCEPT ![rhash[r]] = NoRecord]
    BY <1>2 DEF Rollback, Remove
  <2>3. /\ \A x \in InfoHash \ {rhash[r]} : db'[x] = db[x]
        /\ db'[rhash[r]].status = "none"
    BY <1>t, <2>2, NoRecordType
  <2>4. ~Exists(rhash[r])'
    BY <2>1, <2>3 DEF Exists
  <2> QED
    BY <2>1, <2>3, <2>4, ReleaseSafe
<1>3. ASSUME Confirm(r) PROVE Goal
  <2> DEFINE d == [NewDownload(rhash[r]) EXCEPT !.status = "Submitted"]
  <2>1. /\ rpc[r] \in Holding
        /\ rpc' = [rpc EXCEPT ![r] = "done"]
        /\ UNCHANGED <<rhash, media, loop>>
    BY <1>3 DEF Confirm, Return, Goto, Holding
  <2>2. /\ d.info_hash = rhash[r]
        /\ d.status = "Submitted" /\ d.imported_path = "none" /\ d.error = FALSE
    BY DEF NewDownload
  <2>3. db' = [db EXCEPT ![rhash[r]] = d]
    BY <1>3, <2>2 DEF Confirm, Update
  <2>4. /\ \A x \in InfoHash \ {rhash[r]} : db'[x] = db[x]
        /\ db'[rhash[r]] = d
    BY <1>t, <2>3
  <2> QED
    BY <2>1, <2>2, <2>4, ReleaseSafe
<1>4. ASSUME ~InsertRecord(r), ~Rollback(r), ~Confirm(r) PROVE Goal
  <2>1. PICK pc :
          /\ rpc' = [rpc EXCEPT ![r] = pc]
          /\ pc \in Holding => rpc[r] \in Holding
          /\ rhash' = rhash
          /\ UNCHANGED <<db, media, loop>>
    BY <1>4
    DEF RequestStep, RequestDisturbed, GetFound, GetNotFound, InsertRefused, OpenFails,
        ClientTakes, ClientConfirms, ClientRefuses, AnswerLost, RollbackFails,
        ConfirmFails, Drop, Return, Goto, Holding, Awaiting
  <2> QED
    BY <2>1, RequestQuiet
<1> QED
  BY <1>1, <1>2, <1>3, <1>4

-----------------------------------------------------------------------------
(* Then the loop's. *)

\* The loop writes its current record, or removes it, and takes up the next.
LEMMA LoopWriteSafe ==
  ASSUME IInv, lpc \in {"apply", "record"}, UNCHANGED <<requests, media, list>>,
         NEW h, h = cur.info_hash,
         NEW e, db' = [db EXCEPT ![h] = e],
         lpc' = IF lpc = "apply" THEN "poll" ELSE "import",
         e # NoRecord =>
           /\ (e.imported_path # "none") = (e.status = "Imported")
           /\ e.error => e.status = "Failed"
           /\ e.status = "Imported" => media[h] = "full",
         e.status \in {"Importing", "Imported"} => OwnName(h, e.content_name)
  PROVE  CopiesFresh' /\ OneSubmitter' /\ LoopInv' /\ RecordInv'
<1>1. h \in InfoHash /\ db[h].status \in Pending \cup {"Importing"}
  BY LoopHoldsLater
<1>2. db'[h] = e /\ \A x \in InfoHash \ {h} : db'[x] = db[x]
  BY <1>1 DEF IInv, TypeOK, StoreTypeOK
<1>3. \A d \in list : d.info_hash \in InfoHash \ {h} /\ db[d.info_hash] = d
  <2>1. db[h] \notin list
    <3>1. CASE lpc = "apply"
      BY <3>1 DEF IInv, CopiesFresh, LoopCopiesFresh, LoopInv, Fresh
    <3>2. CASE lpc = "record"
      <4>1. CopyOf(cur).info_hash = h
        BY <3>2 DEF CopyOf, IInv, TypeOK, Download
      <4> QED
        BY <3>2, <4>1 DEF IInv, CopiesFresh, LoopCopiesFresh, LoopInv, Fresh
    <3> QED
      BY <3>1, <3>2
  <2> QED
    BY <2>1, LoopHoldsLater
<1>4. RequestCopiesFresh' /\ OneSubmitter'
  BY <1>1, <1>2, RequestFrame DEF requests
<1>5. LoopCopiesFresh'
  BY <1>2, <1>3 DEF LoopCopiesFresh, Fresh
<1>6. LoopInv'
  BY DEF IInv, LoopInv
<1>7. RecordInv'
  <2>1. Exists(h)' => e # NoRecord
    BY <1>2, NoRecordType DEF Exists
  <2>2. \A x \in InfoHash \ {h} : db'[x] = db[x] /\ media'[x] = media[x]
    BY <1>2
  <2>3. Exists(h)' =>
           /\ db'[h].status = "Imported" => media'[h] = "full"
           /\ (db'[h].imported_path # "none") = (db'[h].status = "Imported")
           /\ db'[h].error => db'[h].status = "Failed"
    BY <1>2, <2>1
  <2>4. db'[h].status \in {"Importing", "Imported"} => OwnName(h, db'[h].content_name)
    BY <1>2
  <2> QED
    BY <1>1, <2>2, <2>3, <2>4, RecordFrame
<1> QED
  BY <1>4, <1>5, <1>6, <1>7 DEF CopiesFresh

\* What the loop knows of the record it is about to write.
LEMMA ApplyFacts ==
  ASSUME IInv, lpc = "apply"
  PROVE  /\ cur \in Download /\ db[cur.info_hash] = cur
         /\ cur.status \in Pending
         /\ cur.imported_path = "none" /\ cur.error = FALSE
<1>1. cur \in Download /\ db[cur.info_hash] = cur /\ cur.status \in Pending
  BY DEF IInv, TypeOK, CopiesFresh, LoopCopiesFresh, LoopInv, Fresh
<1>2. cur.info_hash \in InfoHash /\ Exists(cur.info_hash)
  BY <1>1 DEF Download, Exists, Pending
<1>3. /\ (cur.imported_path # "none") = (cur.status = "Imported")
      /\ cur.error => cur.status = "Failed"
  BY <1>1, <1>2 DEF IInv, RecordInv, ImportedIsCopied
<1>4. cur.imported_path = "none"
  BY <1>1, <1>3 DEF Pending
<1>5. cur.error = FALSE
  BY <1>1, <1>3 DEF Pending, Download
<1> QED
  BY <1>1, <1>4, <1>5

LEMMA CopyFacts ==
  ASSUME IInv, lpc = "copy"
  PROVE  /\ cur \in Download /\ db[cur.info_hash] = cur
         /\ cur.status = "Importing" /\ OwnName(cur.info_hash, cur.content_name)
         /\ cur.imported_path = "none" /\ cur.error = FALSE
         /\ cur \notin list
<1>1. /\ cur \in Download /\ db[cur.info_hash] = cur /\ cur.status = "Importing"
      /\ cur \notin list
  BY DEF IInv, TypeOK, CopiesFresh, LoopCopiesFresh, LoopInv, Fresh
<1>2. cur.info_hash \in InfoHash /\ Exists(cur.info_hash)
  BY <1>1 DEF Download, Exists
<1>3. /\ (cur.imported_path # "none") = (cur.status = "Imported")
      /\ cur.error => cur.status = "Failed"
      /\ OwnName(cur.info_hash, cur.content_name)
  BY <1>1, <1>2 DEF IInv, RecordInv, ImportedIsCopied, ImportsOwnContent, OwnName
<1>4. cur.imported_path = "none"
  BY <1>1, <1>3
<1>5. cur.error = FALSE
  BY <1>1, <1>3 DEF Download
<1> QED
  BY <1>1, <1>3, <1>4, <1>5

\* What the client reports when it seeds comes with the torrent's content.
LEMMA PolledFacts ==
  ASSUME IInv, lpc = "apply", reply # NotFound, NewStatus # cur.status
  PROVE  /\ Polled \in Download /\ Polled.info_hash = cur.info_hash
         /\ Polled.status \in {"Importing", "Downloading", "Failed"}
         /\ Polled.status = "Importing" => OwnName(cur.info_hash, Polled.content_name)
         /\ Polled.imported_path = "none" /\ Polled.error = FALSE
<1> DEFINE state == parse_state(reply.state)
<1>1. reply \in Reply /\ cur.status \in DownloadStatus
  BY ApplyFacts DEF IInv, TypeOK, Download
<1>2. state \in TorrentState
  BY DEF state, parse_state, TorrentState
<1>3. /\ NewStatus \in {"Importing", "Downloading", "Failed"}
      /\ NewStatus = "Importing" => state = "Seeding"
  <2> HIDE DEF state
  <2>1. NewStatus = PolledStatus(state, cur.status)
    BY DEF NewStatus, state
  <2>2. CASE state = "Seeding"
    BY <2>1, <2>2 DEF PolledStatus
  <2>3. CASE state \in {"Downloading", "Paused"}
    BY <2>1, <2>3 DEF PolledStatus
  <2>4. CASE state = "Error"
    BY <2>1, <2>4 DEF PolledStatus
  <2>5. CASE state = "Unknown"
    BY <2>1, <2>5 DEF PolledStatus
  <2> QED
    BY <1>2, <2>2, <2>3, <2>4, <2>5 DEF TorrentState
<1>4. NewStatus = "Importing" => reply.state \notin NoMetadata
  BY <1>1, <1>3, MetadataAssumption DEF Reply, parse_state, DownloadingNames,
     SeedingNames, PausedNames, ErrorNames
<1> HIDE DEF state
<1>5. NewStatus \in DownloadStatus
  BY <1>3 DEF DownloadStatus
<1>6. Polled \in Download /\ Polled.info_hash = cur.info_hash
  BY <1>5, ApplyFacts DEF Polled, ReportedName, Download, ContentName
<1>7. /\ Polled.status = NewStatus
      /\ Polled.imported_path = "none" /\ Polled.error = FALSE
      /\ Polled.content_name = ReportedName
  BY ApplyFacts DEF Polled, Download
<1>8. NewStatus = "Importing" => OwnName(cur.info_hash, ReportedName)
  BY <1>4 DEF OwnName, ReportedName, IInv, LoopInv
<1> QED
  BY <1>3, <1>6, <1>7, <1>8

LEMMA CopyOfType ==
  ASSUME NEW d \in Download
  PROVE  /\ CopyOf(d) \in Download
         /\ CopyOf(d).info_hash = d.info_hash
         /\ CopyOf(d).status = "Importing"
  BY DEF CopyOf, Download, DownloadStatus, ContentName

\* A step that neither writes to the store nor moves a request.
LEMMA LoopQuiet ==
  ASSUME IInv, UNCHANGED <<db, requests>>,
         \A h \in InfoHash : media'[h] = media[h] \/ db[h].status # "Imported",
         LoopCopiesFresh', LoopInv'
  PROVE  CopiesFresh' /\ OneSubmitter' /\ LoopInv' /\ RecordInv'
<1>1. RequestCopiesFresh' /\ OneSubmitter'
  BY DEF IInv, CopiesFresh, RequestCopiesFresh, OneSubmitter, requests, Fresh, NewDownload
<1>2. RecordInv'
  BY DEF IInv, RecordInv, ImportedIsCopied, ImportsOwnContent, Exists
<1> QED
  BY <1>1, <1>2 DEF CopiesFresh

LEMMA LoopSafe ==
  ASSUME IInv, LoopStep \/ LoopDisturbed
  PROVE  CopiesFresh' /\ OneSubmitter' /\ LoopInv' /\ RecordInv'
<1> DEFINE Goal == CopiesFresh' /\ OneSubmitter' /\ LoopInv' /\ RecordInv'
           Quiet == LoopCopiesFresh' /\ LoopInv'
<1>s. \A s \in DownloadStatus : \A d \in ScanByStatus(s) : d.status = s /\ Fresh(d)
  BY ScanType DEF IInv, TypeOK
<1>1. ASSUME ScanDownloading PROVE Goal
  <2>1. Quiet
    BY <1>1, <1>s
    DEF ScanDownloading, At, LoopCopiesFresh, LoopInv, Fresh, DownloadStatus
  <2> QED
    BY <1>1, <2>1, LoopQuiet DEF ScanDownloading
<1>2. ASSUME ScanSubmitted PROVE Goal
  <2>1. \A d \in list : d.status = "Downloading" /\ Fresh(d)
    BY <1>2 DEF ScanSubmitted, At, IInv, LoopInv, CopiesFresh, LoopCopiesFresh
  <2>2. Quiet
    BY <1>2, <1>s, <2>1
    DEF ScanSubmitted, At, LoopCopiesFresh, LoopInv, Fresh, DownloadStatus, Pending
  <2> QED
    BY <1>2, <2>2, LoopQuiet DEF ScanSubmitted
<1>3. ASSUME ScanFails \/ PollDone \/ ScanImportingFails \/ ImportDone \/ ImportBreak
             \/ Select \/ Wake \/ SleepCancelled
      PROVE  Goal
  <2>1. list' = {} /\ lpc' \in {"scan_downloading", "scan_importing", "select", "sleep",
                                "stopped"}
    BY <1>3
    DEF ScanFails, PollDone, ScanImportingFails, ImportDone, ImportBreak, Select, Wake,
        SleepCancelled, At, IInv, LoopInv
  <2>2. Quiet
    BY <2>1 DEF LoopCopiesFresh, LoopInv
  <2> QED
    BY <1>3, <2>2, LoopQuiet
    DEF ScanFails, PollDone, ScanImportingFails, ImportDone, ImportBreak, Select, Wake,
        SleepCancelled
<1>4. ASSUME NEW d \in list, PollAsk(d) PROVE Goal
  <2>1. Fresh(d) /\ d.status \in Pending /\ d \notin list'
    BY <1>4 DEF PollAsk, At, IInv, CopiesFresh, LoopCopiesFresh, LoopInv
  <2>a. IsHash(d.info_hash) => reply' = NotFound \/ reply'.own
    <3> SUFFICES ASSUME Matched[d.info_hash] = {d.info_hash}, reply' # NotFound
                 PROVE  reply'.own
      BY DEF IsHash
    <3>1. PICK x \in Matched[d.info_hash] :
            reply' = [state |-> torrents[x], own |-> x = d.info_hash]
      BY <1>4 DEF PollAsk
    <3>2. (x = d.info_hash) = TRUE
      OBVIOUS
    <3>3. reply' = [state |-> torrents[x], own |-> TRUE]
      BY <3>1, <3>2, Zenon
    <3> QED
      BY <3>3
  <2>2. Quiet
    BY <1>4, <2>1, <2>a
    DEF PollAsk, At, IInv, CopiesFresh, LoopCopiesFresh, LoopInv, Fresh
  <2> QED
    BY <1>4, <2>2, LoopQuiet DEF PollAsk
<1>5. ASSUME NEW d \in list, AskFails(d) PROVE Goal
  <2>1. Quiet
    BY <1>5 DEF AskFails, At, IInv, CopiesFresh, LoopCopiesFresh, LoopInv, Fresh
  <2> QED
    BY <1>5, <2>1, LoopQuiet DEF AskFails
<1>6. ASSUME PollKeeps \/ PollWriteFails PROVE Goal
  <2>1. Quiet
    BY <1>6
    DEF PollKeeps, PollWriteFails, At, IInv, CopiesFresh, LoopCopiesFresh, LoopInv, Fresh
  <2> QED
    BY <1>6, <2>1, LoopQuiet DEF PollKeeps, PollWriteFails
<1>7. ASSUME PollUpdates PROVE Goal
  <2>1. lpc = "apply" /\ lpc' = "poll" /\ UNCHANGED <<requests, media, list>>
    BY <1>7 DEF PollUpdates, At
  <2>2. /\ Polled \in Download /\ Polled.info_hash = cur.info_hash
        /\ Polled.status \in {"Importing", "Downloading", "Failed"}
        /\ Polled.status = "Importing" => OwnName(cur.info_hash, Polled.content_name)
        /\ Polled.imported_path = "none" /\ Polled.error = FALSE
    BY <1>7, <2>1, PolledFacts DEF PollUpdates
  <2>3. db' = [db EXCEPT ![cur.info_hash] = Polled]
    BY <1>7, <2>2 DEF PollUpdates, Update
  <2> QED
    BY <2>1, <2>2, <2>3, LoopWriteSafe
<1>8. ASSUME PollRemoves PROVE Goal
  <2>1. lpc = "apply" /\ lpc' = "poll" /\ UNCHANGED <<requests, media, list>>
    BY <1>8 DEF PollRemoves, At
  <2>2. db' = [db EXCEPT ![cur.info_hash] = NoRecord]
    BY <1>8 DEF PollRemoves, Remove
  <2> QED
    BY <2>1, <2>2, LoopWriteSafe, NoRecordType
<1>9. ASSUME ScanImporting PROVE Goal
  <2>1. Quiet
    BY <1>9, <1>s
    DEF ScanImporting, At, LoopCopiesFresh, LoopInv, Fresh, DownloadStatus
  <2> QED
    BY <1>9, <2>1, LoopQuiet DEF ScanImporting
<1>10. ASSUME NEW d \in list, ImportBegin(d) PROVE Goal
  <2>1. Fresh(d) /\ d.status = "Importing" /\ d \notin list'
    BY <1>10 DEF ImportBegin, At, IInv, CopiesFresh, LoopCopiesFresh, LoopInv
  <2>2. Quiet
    BY <1>10, <2>1
    DEF ImportBegin, At, IInv, CopiesFresh, LoopCopiesFresh, LoopInv, Fresh
  <2> QED
    BY <1>10, <2>2, LoopQuiet DEF ImportBegin
<1>11. ASSUME lpc = "copy"
       PROVE  \A h \in InfoHash : db[h].status = "Imported" => h # cur.info_hash
  BY <1>11, CopyFacts
<1>12. ASSUME CopyPart PROVE Goal
  <2>1. Quiet
    BY <1>12 DEF CopyPart, At, IInv, CopiesFresh, LoopCopiesFresh, LoopInv, Fresh
  <2>2. \A h \in InfoHash : media'[h] = media[h] \/ db[h].status # "Imported"
    BY <1>11, <1>12 DEF CopyPart, At, IInv, TypeOK
  <2> QED
    BY <1>12, <2>1, <2>2, LoopQuiet DEF CopyPart
<1>13. ASSUME CopyFinishes \/ CopyFails PROVE Goal
  <2>1. lpc = "copy" /\ lpc' = "record" /\ UNCHANGED <<db, requests, list>>
    BY <1>13 DEF CopyFinishes, CopyFails, At
  <2>2. /\ cur \in Download /\ db[cur.info_hash] = cur
        /\ cur.status = "Importing" /\ OwnName(cur.info_hash, cur.content_name)
        /\ cur.imported_path = "none" /\ cur.error = FALSE
        /\ cur \notin list
    BY <2>1, CopyFacts
  <2>3. CopyOf(cur)' = cur
    BY <1>13, <2>2 DEF CopyOf, CopyFinishes, CopyFails, Download
  <2>4. LoopCopiesFresh'
    BY <2>1, <2>2, <2>3 DEF IInv, CopiesFresh, LoopCopiesFresh, Fresh
  <2>5. LoopInv'
    <3>0. cur.content_name \in {"content", "other"}
      BY <2>2 DEF OwnName, Download, ContentName
    <3>1. \/ /\ cur'.status = "Imported" /\ cur'.imported_path \in {"content", "other"}
             /\ cur'.error = FALSE
             /\ media'[cur'.info_hash] = "full"
          \/ cur'.status = "Failed" /\ cur'.imported_path = "none"
      <4>1. CASE CopyFinishes
        <5>1. /\ cur'.status = "Imported" /\ cur'.imported_path = cur.content_name
              /\ cur'.error = FALSE /\ cur'.info_hash = cur.info_hash
          BY <2>2, <4>1 DEF CopyFinishes, Download
        <5>2. media'[cur.info_hash] = "full"
          BY <2>2, <4>1 DEF CopyFinishes, IInv, TypeOK, Download
        <5> QED
          BY <3>0, <5>1, <5>2
      <4>2. CASE CopyFails
        BY <2>2, <4>2 DEF CopyFails, Download
      <4> QED
        BY <1>13, <4>1, <4>2
    <3>2. CopyOf(cur)' \notin list' /\ \A d \in list' : d.status = "Importing"
      BY <2>1, <2>2, <2>3 DEF IInv, LoopInv
    <3> QED
      BY <2>1, <3>1, <3>2 DEF LoopInv
  <2>6. \A h \in InfoHash : media'[h] = media[h] \/ db[h].status # "Imported"
    BY <1>11, <1>13, <2>1 DEF CopyFinishes, CopyFails, IInv, TypeOK
  <2> QED
    BY <2>1, <2>4, <2>5, <2>6, LoopQuiet
<1>14. ASSUME RecordImport PROVE Goal
  <2>1. lpc = "record" /\ lpc' = "import" /\ UNCHANGED <<requests, media, list>>
    BY <1>14 DEF RecordImport, At
  <2>2. db' = [db EXCEPT ![cur.info_hash] = cur]
    BY <1>14 DEF RecordImport, Update
  <2>3. cur \in Download /\ CopyOf(cur).info_hash = cur.info_hash
    BY <2>1, CopyOfType DEF IInv, TypeOK
  <2>4. cur.status = "Imported" => OwnName(cur.info_hash, cur.content_name)
    <3>1. db[cur.info_hash] = CopyOf(cur)
      BY <2>1, <2>3 DEF IInv, CopiesFresh, LoopCopiesFresh, Fresh
    <3>2. OwnName(cur.info_hash, CopyOf(cur).content_name)
      BY <2>3, <3>1, CopyOfType DEF IInv, RecordInv, ImportsOwnContent, Download, OwnName
    <3> QED
      BY <2>3, <3>2 DEF CopyOf, Download
  <2>5. \/ /\ cur.status = "Imported" /\ cur.imported_path # "none" /\ ~cur.error
           /\ media[cur.info_hash] = "full"
        \/ cur.status = "Failed" /\ cur.imported_path = "none"
    BY <2>1 DEF IInv, LoopInv
  <2> QED
    BY <2>1, <2>2, <2>4, <2>5, LoopWriteSafe
<1>15. ASSUME RecordFails PROVE Goal
  <2>1. Quiet
    BY <1>15 DEF RecordFails, At, IInv, CopiesFresh, LoopCopiesFresh, LoopInv, Fresh
  <2> QED
    BY <1>15, <2>1, LoopQuiet DEF RecordFails
<1> QED
  BY <1>1, <1>2, <1>3, <1>4, <1>5, <1>6, <1>7, <1>8, <1>9, <1>10, <1>12, <1>13, <1>14,
     <1>15
  DEF LoopStep, LoopDisturbed

-----------------------------------------------------------------------------
(* Then all of them. *)

LEMMA InvStep == IInv /\ [Next]_vars => IInv'
<1> SUFFICES ASSUME IInv, [Next]_vars
             PROVE  CopiesFresh' /\ OneSubmitter' /\ LoopInv' /\ RecordInv'
  BY TypeStep DEF IInv
<1> DEFINE Goal == CopiesFresh' /\ OneSubmitter' /\ LoopInv' /\ RecordInv'
<1>1. ASSUME NEW r \in Request, NEW h \in InfoHash, Call(r, h) PROVE Goal
  <2>1. /\ rpc' = [rpc EXCEPT ![r] = "get"]
        /\ "get" \notin Holding
        /\ \A q \in Request \ {r} : rhash'[q] = rhash[q]
        /\ UNCHANGED <<db, media, loop>>
    BY <1>1 DEF Call, Holding, Awaiting, IInv, TypeOK
  <2> QED
    BY <2>1, RequestQuiet
<1>2. ASSUME NEW r \in Request, RequestStep(r) \/ RequestDisturbed(r) PROVE Goal
  BY <1>2, RequestSafe
<1>3. ASSUME LoopStep \/ LoopDisturbed PROVE Goal
  BY <1>3, LoopSafe
<1>4. ASSUME \/ \E h \in InfoHash : TorrentMoves(h) \/ TorrentDeleted(h)
             \/ Cancel
             \/ UNCHANGED vars
      PROVE  Goal
  <2>1. UNCHANGED <<db, media, requests, lpc, list, cur, reply>>
    BY <1>4 DEF TorrentMoves, TorrentDeleted, Cancel, vars, loop
  <2>2. LoopCopiesFresh' /\ LoopInv'
    BY <2>1 DEF IInv, CopiesFresh, LoopCopiesFresh, LoopInv, Fresh, CopyOf
  <2> QED
    BY <2>1, <2>2, LoopQuiet
<1>5. ASSUME Restart PROVE Goal
  <2>1. RequestCopiesFresh' /\ OneSubmitter'
    BY <1>5 DEF Restart, RequestCopiesFresh, OneSubmitter, Holding, Awaiting
  <2>2. LoopCopiesFresh' /\ LoopInv'
    BY <1>5 DEF Restart, LoopCopiesFresh, LoopInv
  <2>3. RecordInv'
    BY <1>5 DEF Restart, IInv, RecordInv, ImportedIsCopied, ImportsOwnContent, Exists
  <2> QED
    BY <2>1, <2>2, <2>3 DEF CopiesFresh
<1> QED
  BY <1>1, <1>2, <1>3, <1>4, <1>5 DEF Next

\* Every reachable state satisfies the inductive invariant IInv: the tasks of
\* src/app/mod.rs hold fresh copies, a request one of a Queued record, the loop
\* only of records past Queued.
THEOREM Invariance == Spec => []IInv
  BY InvInit, InvStep, PTL DEF Spec

\* No request ever writes back a record that has changed since it was read,
\* although download() holds it across its call of the torrent client and
\* writes it whole.
THEOREM NoStaleWrite == Spec => []RequestCopiesFresh
<1>1. IInv => RequestCopiesFresh
  BY DEF IInv, CopiesFresh
<1> QED
  BY <1>1, Invariance, PTL

\* Nor does the poll loop, which holds whole lists of records across the calls
\* and the copies it makes for the ones before them.
THEOREM NoStaleWriteOfLoop == Spec => []LoopCopiesFresh
<1>1. IInv => LoopCopiesFresh
  BY DEF IInv, CopiesFresh
<1> QED
  BY <1>1, Invariance, PTL

\* At most one of the requests for one magnet is past its insert.
THEOREM OneSubmission == Spec => []OneSubmitter
<1>1. IInv => OneSubmitter
  BY DEF IInv
<1> QED
  BY <1>1, Invariance, PTL

\* A record says Imported only when its content is completely copied.
THEOREM ImportComplete == Spec => []ImportedIsCopied
<1>1. IInv => ImportedIsCopied
  BY DEF IInv, RecordInv
<1> QED
  BY <1>1, Invariance, PTL

\* An import copies the content of a torrent and never the client's whole download
\* directory, as long as the client knows the content of what it seeds
\* (MetadataAssumption); and the torrent is the record's own where the client finds
\* that one by the record's info hash (IsHash).
THEOREM ImportOwn == Spec => []ImportsOwnContent
<1>1. IInv => ImportsOwnContent
  BY DEF IInv, RecordInv
<1> QED
  BY <1>1, Invariance, PTL

-----------------------------------------------------------------------------
(* App implements DownloadLifecycle. *)

lstatus == [h \in InfoHash |-> db[h].status]
lpath   == [h \in InfoHash |-> IF Exists(h) THEN db[h].imported_path ELSE "none"]

\* A step that changes one record makes that change in the mapped state.
LEMMA MappedWrite ==
  ASSUME StoreTypeOK, NEW h \in InfoHash, NEW d \in Download \cup {NoRecord},
         db' = [db EXCEPT ![h] = d]
  PROVE  /\ lstatus' = [lstatus EXCEPT ![h] = d.status]
         /\ lpath' = [lpath EXCEPT ![h] = IF d = NoRecord THEN "none" ELSE d.imported_path]
<1>1. \A x \in InfoHash : db'[x] = IF x = h THEN d ELSE db[x]
  BY DEF StoreTypeOK
<1>2. d.status # "none" <=> d # NoRecord
  BY NoRecordType DEF Download, DownloadStatus
<1>3. lstatus' = [x \in InfoHash |-> IF x = h THEN d.status ELSE db[x].status]
  BY <1>1 DEF lstatus
<1>4. lpath' = [x \in InfoHash |->
                 IF x = h THEN IF d = NoRecord THEN "none" ELSE d.imported_path
                 ELSE IF Exists(x) THEN db[x].imported_path ELSE "none"]
  <2>1. \A x \in InfoHash : Exists(x)' <=> IF x = h THEN d # NoRecord ELSE Exists(x)
    BY <1>1, <1>2 DEF Exists
  <2> QED
    BY <1>1, <2>1 DEF lpath
<1>5. lstatus' = [lstatus EXCEPT ![h] = d.status]
  BY <1>3 DEF lstatus
<1> QED
  BY <1>4, <1>5 DEF lpath

LEMMA MappedStutter ==
  ASSUME UNCHANGED db
  PROVE  UNCHANGED Lifecycle!vars
  BY DEF Lifecycle!vars, Exists

\* The abstract step of moving h, in terms of the mapped state.
LEMMA MappedMoves ==
  ASSUME NEW h \in InfoHash, NEW from, NEW to, lstatus[h] \in from,
         lstatus' = [lstatus EXCEPT ![h] = to]
  PROVE  Lifecycle!Moves(h, from, to)
  BY DEF lstatus, Lifecycle!Moves

\* The path a record without an import has in the mapped state.
LEMMA NoPathYet ==
  ASSUME IInv, NEW h \in InfoHash, db[h].status # "Imported"
  PROVE  lpath[h] = "none"
  BY DEF IInv, RecordInv, ImportedIsCopied, lpath

LEMMA MappedStep ==
  ASSUME IInv, [Next]_vars
  PROVE  [Lifecycle!Next]_(Lifecycle!vars)
<1> DEFINE Goal == [Lifecycle!Next]_(Lifecycle!vars)
<1>t. StoreTypeOK /\ \A r \in Request : rhash[r] \in InfoHash
  BY DEF IInv, TypeOK
<1>m. ASSUME NEW h \in InfoHash, NEW d \in Download \cup {NoRecord},
             db' = [db EXCEPT ![h] = d],
             \/ db[h].status = "none" /\ d.status = "Queued"
             \/ db[h].status = "Queued" /\ d.status = "Submitted"
             \/ db[h].status = "Submitted" /\ d.status = "Downloading"
             \/ db[h].status \in Pending /\ d.status = "Importing"
             \/ db[h].status \in {"Queued"} \cup Pending /\ d.status = "none"
             \/ db[h].status = "Importing" /\ d.status = "Imported"
             \/ db[h].status \in Pending \cup {"Importing"} /\ d.status = "Failed",
             d # NoRecord =>
               IF d.status = "Imported" THEN d.imported_path \in {"content", "other"}
                                        ELSE d.imported_path = "none"
      PROVE  Goal
  <2>1. /\ lstatus' = [lstatus EXCEPT ![h] = d.status]
        /\ lpath' = [lpath EXCEPT ![h] = IF d = NoRecord THEN "none" ELSE d.imported_path]
    BY <1>m, <1>t, MappedWrite
  <2>2. lstatus[h] = db[h].status /\ lpath[h] = "none"
    BY <1>m, NoPathYet DEF lstatus, Pending
  <2>3. d = NoRecord <=> d.status = "none"
    BY NoRecordType DEF Download, DownloadStatus
  <2>4. ASSUME d.status # "Imported" PROVE lpath' = lpath
    <3>1. (IF d = NoRecord THEN "none" ELSE d.imported_path) = "none"
      BY <1>m, <2>4
    <3>2. lpath' = [lpath EXCEPT ![h] = "none"]
      BY <2>1, <3>1
    <3> QED
      BY <2>2, <3>2 DEF lpath
  <2>5. ASSUME d.status = "Imported"
        PROVE  \E name \in ContentName \ {""} : lpath' = [lpath EXCEPT ![h] = name]
    BY <1>m, <2>1, <2>3, <2>5 DEF ContentName
  <2>6. ASSUME NEW from, db[h].status \in from PROVE Lifecycle!Moves(h, from, d.status)
    BY <2>1, <2>2, <2>6, MappedMoves
  <2>7. CASE db[h].status = "none" /\ d.status = "Queued"
    BY <2>4, <2>6, <2>7 DEF Lifecycle!Next, Lifecycle!Accept, lpath
  <2>8. CASE db[h].status = "Queued" /\ d.status = "Submitted"
    BY <2>4, <2>6, <2>8 DEF Lifecycle!Next, Lifecycle!Confirm, lpath
  <2>9. CASE db[h].status = "Submitted" /\ d.status = "Downloading"
    BY <2>4, <2>6, <2>9 DEF Lifecycle!Next, Lifecycle!Progress, lpath
  <2>10. CASE db[h].status \in Pending /\ d.status = "Importing"
    BY <2>4, <2>6, <2>10 DEF Lifecycle!Next, Lifecycle!Complete, lpath, Pending
  <2>11. CASE db[h].status \in {"Queued"} \cup Pending /\ d.status = "none"
    BY <2>4, <2>6, <2>11 DEF Lifecycle!Next, Lifecycle!Forget, lpath, Pending
  <2>12. CASE db[h].status = "Importing" /\ d.status = "Imported"
    BY <2>5, <2>6, <2>12 DEF Lifecycle!Next, Lifecycle!Import, lpath
  <2>13. CASE db[h].status \in Pending \cup {"Importing"} /\ d.status = "Failed"
    BY <2>4, <2>6, <2>13 DEF Lifecycle!Next, Lifecycle!Fail, lpath, Pending
  <2> QED
    BY <1>m, <2>7, <2>8, <2>9, <2>10, <2>11, <2>12, <2>13
<1>1. ASSUME NEW r \in Request, InsertRecord(r) PROVE Goal
  <2> DEFINE d == NewDownload(rhash[r])
  <2>1. /\ d \in Download /\ d.info_hash = rhash[r] /\ d.status = "Queued"
        /\ d.imported_path = "none"
    BY <1>t, NewDownloadType
  <2>2. db[rhash[r]].status = "none" /\ db' = [db EXCEPT ![rhash[r]] = d]
    BY <1>1, <2>1 DEF InsertRecord, Insert, Exists
  <2> HIDE DEF d
  <2> QED
    BY <1>m, <1>t, <2>1, <2>2
<1>2. ASSUME NEW r \in Request, Rollback(r) PROVE Goal
  <2>1. db[rhash[r]].status = "Queued"
    BY <1>2, RequestHoldsQueued DEF Rollback, Return, Goto, Holding
  <2>2. db' = [db EXCEPT ![rhash[r]] = NoRecord]
    BY <1>2 DEF Rollback, Remove
  <2> QED
    BY <1>m, <1>t, <2>1, <2>2, NoRecordType
<1>3. ASSUME NEW r \in Request, Confirm(r) PROVE Goal
  <2> DEFINE d == [NewDownload(rhash[r]) EXCEPT !.status = "Submitted"]
  <2>1. db[rhash[r]].status = "Queued"
    BY <1>3, RequestHoldsQueued DEF Confirm, Return, Goto, Holding
  <2>2. /\ d \in Download /\ d.info_hash = rhash[r] /\ d.status = "Submitted"
        /\ d.imported_path = "none"
    BY <1>t DEF NewDownload, Download, DownloadStatus, ContentName
  <2>3. db' = [db EXCEPT ![rhash[r]] = d]
    BY <1>3, <2>2 DEF Confirm, Update
  <2> HIDE DEF d
  <2> QED
    BY <1>m, <1>t, <2>1, <2>2, <2>3
<1>4. ASSUME PollUpdates PROVE Goal
  <2>1. lpc = "apply"
    BY <1>4 DEF PollUpdates, At
  <2>2. cur.info_hash \in InfoHash /\ db[cur.info_hash] = cur /\ cur.status \in Pending
    BY <2>1, ApplyFacts DEF Download
  <2>3. /\ Polled \in Download /\ Polled.info_hash = cur.info_hash
        /\ Polled.status \in {"Importing", "Downloading", "Failed"}
        /\ Polled.imported_path = "none"
        /\ Polled.status # cur.status
    <3>1. Polled.status = NewStatus
      BY <2>1, ApplyFacts DEF Polled, Download
    <3> QED
      BY <1>4, <2>1, <3>1, PolledFacts DEF PollUpdates
  <2>4. db' = [db EXCEPT ![cur.info_hash] = Polled]
    BY <1>4, <2>3 DEF PollUpdates, Update
  <2> QED
    BY <1>m, <2>2, <2>3, <2>4 DEF Pending
<1>5. ASSUME PollRemoves PROVE Goal
  <2>1. lpc = "apply" /\ db' = [db EXCEPT ![cur.info_hash] = NoRecord]
    BY <1>5 DEF PollRemoves, At, Remove
  <2>2. cur.info_hash \in InfoHash /\ db[cur.info_hash] = cur /\ cur.status \in Pending
    BY <2>1, ApplyFacts DEF Download
  <2> QED
    BY <1>m, <2>1, <2>2, NoRecordType
<1>6. ASSUME RecordImport PROVE Goal
  <2>1. lpc = "record" /\ cur \in Download /\ db' = [db EXCEPT ![cur.info_hash] = cur]
    BY <1>6 DEF RecordImport, At, Update, IInv, TypeOK
  <2>2. cur.info_hash \in InfoHash /\ db[cur.info_hash].status = "Importing"
    BY <2>1, CopyOfType DEF IInv, CopiesFresh, LoopCopiesFresh, Fresh, Download
  <2>3. \/ cur.status = "Imported" /\ cur.imported_path \in {"content", "other"}
        \/ cur.status = "Failed" /\ cur.imported_path = "none"
    BY <2>1 DEF IInv, LoopInv
  <2> QED
    BY <1>m, <2>1, <2>2, <2>3
<1>7. ASSUME \A r \in Request : ~InsertRecord(r) /\ ~Rollback(r) /\ ~Confirm(r),
             ~PollUpdates, ~PollRemoves, ~RecordImport
      PROVE  UNCHANGED db
  BY <1>7
  DEF Next, vars, RequestStep, RequestDisturbed, GetFound, GetNotFound, InsertRefused,
      OpenFails, ClientTakes, ClientConfirms, ClientRefuses, AnswerLost, RollbackFails,
      ConfirmFails, Drop, Call, LoopStep, LoopDisturbed, ScanDownloading, ScanSubmitted,
      ScanFails, PollDone, PollAsk, AskFails, PollKeeps, PollWriteFails, ScanImporting,
      ScanImportingFails, ImportDone, ImportBreak, ImportBegin, CopyPart, CopyFinishes,
      CopyFails, RecordFails, Select, Wake, SleepCancelled, TorrentMoves,
      TorrentDeleted, Cancel, Restart
<1> QED
  BY <1>1, <1>2, <1>3, <1>4, <1>5, <1>6, <1>7, MappedStutter

\* Whatever runs concurrently and whatever fails, a stored record takes only the
\* steps DownloadLifecycle allows: it is never imported without being seen
\* complete, never leaves Imported or Failed, and never vanishes once its import
\* has begun.
THEOREM Refinement == Spec => FollowsLifecycle
<1>1. Init => Lifecycle!Init
  BY NoRecordType DEF Init, StoreInit, Lifecycle!Init, Exists
<1>2. IInv /\ [Next]_vars => [Lifecycle!Next]_(Lifecycle!vars)
  BY MappedStep
<1> QED
  BY <1>1, <1>2, Invariance, PTL DEF Spec, FollowsLifecycle, Lifecycle!Spec

-----------------------------------------------------------------------------
(* Torrents and records. *)

PromptClient == {"lost_answer", "slow_add"} \cap Disturbances = {}

\* NoOrphanTorrent rests on two facts about what is under way: the client does
\* not have a magnet that is not yet sent or was refused, nor a torrent it just
\* reported as not found, nor one for a text that is no hash.
OrphanInv ==
  /\ NoOrphanTorrent
  /\ \A r \in Request :
       rpc[r] \in {"submit", "rollback"} => torrents[rhash[r]] = "absent"
  /\ lpc = "apply" /\ reply = NotFound => torrents[cur.info_hash] = "absent"
  /\ \A h \in InfoHash : torrents[h] # "adding" /\ (~IsHash(h) => torrents[h] = "absent")

LEMMA OrphanStep ==
  ASSUME PromptClient, IInv, IInv', OrphanInv, [Next]_vars
  PROVE  OrphanInv'
<1>t. /\ \A r \in Request : rhash[r] \in InfoHash
      /\ torrents \in [InfoHash -> TorrentSlot]
      /\ rpc \in [Request -> RequestPC]
      /\ db \in [InfoHash -> Download \cup {NoRecord}]
  BY DEF IInv, TypeOK, StoreTypeOK
<1>h. \A h \in InfoHash : torrents[h] \in ClientStates \cup {"absent"}
  BY <1>t DEF TorrentSlot, OrphanInv
<1>q. \A r \in Request : rpc[r] \in Holding => Exists(rhash[r])
  BY RequestHoldsQueued DEF Exists
\* Steps that leave the torrents alone, start no submission and take no record
\* away, and give no new answer.
<1>1. ASSUME UNCHANGED <<torrents, cur, reply>>,
             lpc' = "apply" => lpc = "apply",
             \A h \in InfoHash : Exists(h) => Exists(h)',
             \A r \in Request : rpc'[r] \in {"submit", "rollback"} =>
               rpc[r] \in {"submit", "rollback"} /\ rhash'[r] = rhash[r]
      PROVE  OrphanInv'
  BY <1>1 DEF OrphanInv, NoOrphanTorrent
<1>2. ASSUME NEW r \in Request, NEW h \in InfoHash, Call(r, h) PROVE OrphanInv'
  BY <1>1, <1>2, <1>t DEF Call, loop, Exists
<1>3. ASSUME NEW r \in Request,
             \/ GetFound(r) \/ GetNotFound(r) \/ InsertRefused(r) \/ OpenFails(r)
             \/ ClientConfirms(r) \/ ClientRefuses(r) \/ RollbackFails(r)
             \/ ConfirmFails(r) \/ Drop(r)
      PROVE  OrphanInv'
  <2>1. UNCHANGED <<torrents, cur, reply, lpc, rhash, db>>
    BY <1>3
    DEF GetFound, GetNotFound, InsertRefused, OpenFails, ClientConfirms, ClientRefuses,
        RollbackFails, ConfirmFails, Drop, Return, Goto, loop
  <2>2. \A q \in Request : rpc'[q] \in {"submit", "rollback"} =>
          rpc[q] \in {"submit", "rollback"}
    BY <1>3, <1>t
    DEF GetFound, GetNotFound, InsertRefused, OpenFails, ClientConfirms, ClientRefuses,
        RollbackFails, ConfirmFails, Drop, Return, Goto
  <2> QED
    BY <1>1, <2>1, <2>2 DEF Exists
<1>4. ASSUME NEW r \in Request, InsertRecord(r) PROVE OrphanInv'
  <2>1. UNCHANGED <<torrents, loop, rhash>> /\ ~Exists(rhash[r])
    BY <1>4, NewDownloadType, <1>t DEF InsertRecord, Goto, Insert
  <2>2. torrents[rhash[r]] = "absent"
    BY <2>1, <1>t DEF OrphanInv, NoOrphanTorrent
  <2>3. \A q \in Request \ {r} : rpc'[q] = rpc[q]
    BY <1>4, <1>t DEF InsertRecord, Goto
  <2>4. \A h \in InfoHash : Exists(h) => Exists(h)'
    <3>1. /\ NewDownload(rhash[r]).info_hash = rhash[r]
          /\ NewDownload(rhash[r]).status # "none"
      BY <1>t, NewDownloadType
    <3> QED
      BY <1>4, <1>t, <3>1 DEF InsertRecord, Insert, Exists
  <2> QED
    BY <2>1, <2>2, <2>3, <2>4 DEF OrphanInv, NoOrphanTorrent, loop
<1>5. ASSUME NEW r \in Request, ClientTakes(r) PROVE OrphanInv'
  <2>1. /\ rpc[r] \in Holding /\ rpc'[r] = "taken"
        /\ \A q \in Request \ {r} : rpc'[q] = rpc[q]
        /\ UNCHANGED <<db, loop, rhash>>
    BY <1>5, <1>t DEF ClientTakes, Goto, Holding, Awaiting
  <2>2. /\ torrents'[rhash[r]] \in ClientStates \cup {"absent"}
        /\ ~IsHash(rhash[r]) => torrents'[rhash[r]] = "absent"
        /\ \A h \in InfoHash \ {rhash[r]} : torrents'[h] = torrents[h]
    BY <1>5, <1>t, <1>h DEF ClientTakes, PromptClient, OrphanInv
  <2>3. \A q \in Request \ {r} : rpc[q] \in {"submit", "rollback"} => rhash[q] # rhash[r]
    BY <2>1 DEF IInv, OneSubmitter, Holding, Awaiting
  <2>4. lpc = "apply" => cur.info_hash \in InfoHash \ {rhash[r]}
    BY <2>1, RequestHoldsQueued, LoopHoldsLater DEF Pending
  <2>5. "adding" \notin ClientStates
    BY MetadataAssumption
  <2>6. NoOrphanTorrent'
    BY <1>q, <2>1, <2>2 DEF OrphanInv, NoOrphanTorrent, Exists
  <2> QED
    BY <1>t, <2>1, <2>2, <2>3, <2>4, <2>5, <2>6 DEF OrphanInv, loop
<1>6. ASSUME NEW r \in Request, AnswerLost(r) PROVE OrphanInv'
  BY <1>6 DEF AnswerLost, Disturb, PromptClient
<1>7. ASSUME NEW r \in Request, Rollback(r) PROVE OrphanInv'
  <2>1. /\ rpc[r] = "rollback" /\ rpc' = [rpc EXCEPT ![r] = "done"]
        /\ UNCHANGED <<torrents, loop, rhash>>
        /\ db' = [db EXCEPT ![rhash[r]] = NoRecord]
    BY <1>7 DEF Rollback, Return, Goto, Remove
  <2>2. \A q \in Request : rpc'[q] \in {"submit", "rollback"} => rpc'[q] = rpc[q]
    BY <1>t, <2>1
  <2>3. \A h \in InfoHash \ {rhash[r]} : Exists(h)' = Exists(h)
    BY <1>t, <2>1 DEF Exists
  <2> QED
    BY <2>1, <2>2, <2>3 DEF OrphanInv, NoOrphanTorrent, loop
<1>8. ASSUME NEW r \in Request, Confirm(r) PROVE OrphanInv'
  <2> DEFINE d == [NewDownload(rhash[r]) EXCEPT !.status = "Submitted"]
  <2>1. d.info_hash = rhash[r] /\ d.status = "Submitted"
    BY DEF NewDownload
  <2>2. db' = [db EXCEPT ![rhash[r]] = d]
    BY <1>8, <2>1 DEF Confirm, Update
  <2>3. \A h \in InfoHash : Exists(h) => Exists(h)'
    BY <1>t, <2>1, <2>2 DEF Exists
  <2>4. /\ UNCHANGED <<torrents, loop, rhash>>
        /\ \A q \in Request : rpc'[q] \in {"submit", "rollback"} => rpc'[q] = rpc[q]
    BY <1>8, <1>t DEF Confirm, Return, Goto
  <2> QED
    BY <1>1, <2>3, <2>4 DEF loop
<1>9. ASSUME NEW d \in list, PollAsk(d) PROVE OrphanInv'
  <2>1. d.info_hash \in InfoHash /\ torrents[d.info_hash] \in ClientStates \cup {"absent"}
    BY <1>h, LoopHoldsLater
  <2>2. ASSUME reply' = NotFound PROVE torrents[d.info_hash] = "absent"
    <3>1. CASE IsHash(d.info_hash)
      <4>1. d.info_hash \in Matched[d.info_hash]
        BY <3>1 DEF IsHash
      <4> QED
        BY <1>9, <2>1, <2>2, <4>1, <1>h, <1>t, MetadataAssumption, FilterAssumption
        DEF PollAsk, NotFound
    <3>2. CASE ~IsHash(d.info_hash)
      BY <2>1, <3>2 DEF OrphanInv
    <3> QED
      BY <3>1, <3>2
  <2> QED
    BY <1>9, <2>2 DEF PollAsk, At, OrphanInv, NoOrphanTorrent, requests, Exists
<1>10. ASSUME PollUpdates PROVE OrphanInv'
  <2>1. lpc = "apply" /\ lpc' = "poll" /\ UNCHANGED <<torrents, requests, cur, reply>>
    BY <1>10 DEF PollUpdates, At
  <2>2. /\ Polled.info_hash = cur.info_hash
        /\ Polled.status \in {"Importing", "Downloading", "Failed"}
    BY <1>10, <2>1, PolledFacts DEF PollUpdates
  <2>3. db' = [db EXCEPT ![cur.info_hash] = Polled]
    BY <1>10, <2>2 DEF PollUpdates, Update
  <2>4. \A h \in InfoHash : Exists(h) => Exists(h)'
    BY <1>t, <2>2, <2>3 DEF Exists
  <2> QED
    BY <1>1, <2>1, <2>4 DEF requests
<1>11. ASSUME PollRemoves PROVE OrphanInv'
  <2>1. /\ lpc = "apply" /\ lpc' = "poll" /\ reply = NotFound
        /\ UNCHANGED <<torrents, requests, cur>>
        /\ db' = [db EXCEPT ![cur.info_hash] = NoRecord]
    BY <1>11 DEF PollRemoves, At, Remove
  <2>2. \A h \in InfoHash \ {cur.info_hash} : Exists(h)' = Exists(h)
    BY <1>t, <2>1 DEF Exists
  <2> QED
    BY <2>1, <2>2 DEF OrphanInv, NoOrphanTorrent, requests
<1>12. ASSUME RecordImport PROVE OrphanInv'
  <2>1. /\ lpc = "record" /\ lpc' = "import" /\ cur \in Download
        /\ UNCHANGED <<torrents, requests, cur, reply>>
        /\ db' = [db EXCEPT ![cur.info_hash] = cur]
    BY <1>12 DEF RecordImport, At, Update, IInv, TypeOK
  <2>2. \A h \in InfoHash : Exists(h) => Exists(h)'
    BY <1>t, <2>1 DEF Exists, Download, DownloadStatus
  <2> QED
    BY <1>1, <2>1, <2>2 DEF requests
<1>13. ASSUME \/ ScanDownloading \/ ScanSubmitted \/ PollDone \/ PollKeeps
              \/ ScanImporting \/ ImportDone \/ ImportBreak
              \/ CopyPart \/ CopyFinishes \/ CopyFails
              \/ Select \/ Wake \/ SleepCancelled
              \/ LoopDisturbed
              \/ \E d \in list : ImportBegin(d)
       PROVE  OrphanInv'
  <2>1. UNCHANGED <<db, torrents, requests>> /\ lpc' # "apply"
    BY <1>13
    DEF LoopDisturbed, ScanDownloading, ScanSubmitted, ScanFails, PollDone, AskFails,
        PollKeeps, PollWriteFails, ScanImporting, ScanImportingFails, ImportDone,
        ImportBreak, ImportBegin, CopyPart, CopyFinishes, CopyFails, RecordFails,
        Select, Wake, SleepCancelled, At
  <2> QED
    BY <2>1 DEF OrphanInv, NoOrphanTorrent, requests, Exists
<1>14. ASSUME NEW h \in InfoHash, TorrentMoves(h) PROVE OrphanInv'
  <2>1. /\ torrents[h] # "absent" /\ torrents'[h] \in ClientStates
        /\ \A x \in InfoHash \ {h} : torrents'[x] = torrents[x]
        /\ UNCHANGED <<db, requests, loop>>
    BY <1>14, <1>t DEF TorrentMoves
  <2> QED
    BY <1>t, <2>1, MetadataAssumption, LoopHoldsLater
    DEF OrphanInv, NoOrphanTorrent, requests, loop, Exists
<1>15. ASSUME NEW h \in InfoHash, TorrentDeleted(h) PROVE OrphanInv'
  <2>1. /\ torrents'[h] = "absent"
        /\ \A x \in InfoHash \ {h} : torrents'[x] = torrents[x]
        /\ UNCHANGED <<db, requests, loop>>
    BY <1>15, <1>t DEF TorrentDeleted
  <2> QED
    BY <1>t, <2>1, LoopHoldsLater DEF OrphanInv, NoOrphanTorrent, requests, loop, Exists
<1>16. CASE Cancel \/ UNCHANGED vars
  BY <1>1, <1>16 DEF Cancel, vars, requests, loop, Exists
<1>17. CASE Restart
  BY <1>1, <1>17 DEF Restart, OrphanInv, NoOrphanTorrent, Exists
<1> QED
  BY <1>2, <1>3, <1>4, <1>5, <1>6, <1>7, <1>8, <1>9, <1>10, <1>11, <1>12, <1>13, <1>14,
     <1>15, <1>16, <1>17
  DEF Next, RequestStep, RequestDisturbed, LoopStep

\* With a client that lists what it has and whose answers arrive, no torrent is
\* left in the client without a record, whatever else fails: storage, status
\* calls, callers that leave, crashes.
THEOREM NoOrphans ==
  ASSUME PromptClient
  PROVE  Spec => []NoOrphanTorrent
<1>1. Init => OrphanInv
  <2> SUFFICES ASSUME Init PROVE OrphanInv
    OBVIOUS
  <2>1. /\ \A h \in InfoHash : torrents[h] = "absent"
        /\ \A r \in Request : rpc[r] = "idle"
        /\ lpc = "scan_downloading"
    BY DEF Init, LoopStart
  <2> QED
    BY <2>1 DEF OrphanInv, NoOrphanTorrent
<1>2. IInv /\ IInv' /\ OrphanInv /\ [Next]_vars => OrphanInv'
  BY OrphanStep
<1>3. OrphanInv => NoOrphanTorrent
  BY DEF OrphanInv
<1> QED
  BY <1>1, <1>2, <1>3, Invariance, PTL DEF Spec

=============================================================================
