---------------------------- MODULE DownloadStore ----------------------------
(***************************************************************************)
(* The repository of src/app/repository.rs as src/store/download.rs        *)
(* implements it over one redb file: a table of downloads keyed by info    *)
(* hash.  Every operation is one redb transaction, hence one atomic and    *)
(* durable step, and a scan reads the snapshot its transaction opened.     *)
(* The index order of a scan is left out: callers here only need the set.  *)
(***************************************************************************)
EXTENDS DownloadTypes

VARIABLE db   \* [InfoHash -> record or NoRecord], the contents of the file

NoRecord == [status |-> "none"]

StoreTypeOK ==
  /\ db \in [InfoHash -> Download \cup {NoRecord}]
  /\ \A h \in InfoHash : db[h] # NoRecord => db[h].info_hash = h

StoreInit == db = [h \in InfoHash |-> NoRecord]

Exists(h) == db[h].status # "none"

\* Mutant of Insert: an upsert.
InsertOver(d) == db' = [db EXCEPT ![d.info_hash] = d]

\* insert, refused with AlreadyExists when the key is taken.
Insert(d) ==
  /\ ~Exists(d.info_hash)
  /\ db' = [db EXCEPT ![d.info_hash] = d]

\* update replaces the whole record.
Update(d) ==
  /\ Exists(d.info_hash)
  /\ db' = [db EXCEPT ![d.info_hash] = d]

Remove(h) == db' = [db EXCEPT ![h] = NoRecord]

ScanByStatus(s) == {db[h] : h \in {x \in InfoHash : db[x].status = s}}

=============================================================================
