------------------------------ MODULE ImportCopy ------------------------------
(***************************************************************************)
(* One import in detail: import_download and copy_recursive of             *)
(* src/app/mod.rs on a file system, with a target that may be anywhere,    *)
(* also inside the content or the download directory itself, while the     *)
(* torrent client moves or deletes the content, the disk fills up, and the *)
(* process dies and imports again.  App has the same import as two steps   *)
(* (CopyPart, CopyFinishes), which ImplementsImportTask justifies.         *)
(*                                                                         *)
(* A file system maps the paths that exist, sequences of names, to "dir"   *)
(* or to what a file holds.  Links are left out.  The operations of        *)
(* std::fs are external: create_dir_all makes what is missing or fails     *)
(* without an effect, read_dir lists what is there when it is called, copy *)
(* opens its source, truncates its destination and then writes to it.      *)
(***************************************************************************)
EXTENDS Integers, SequencesExt

CONSTANTS
  DownloadDir, ContentName,   \* what the source is joined from
  Starts,       \* the file systems and target directories to begin with
  MaxPath,      \* names in a path, at most
  MaxRestarts,
  Vanishing     \* whether the client takes content away during the import

Path == Seq(STRING)

Above(p) == {SubSeq(p, 1, n) : n \in 1..Len(p)}

\* A finite tree of paths, none of which is too long; what is above one that exists
\* is a directory.
FileSystem(f) ==
  /\ DOMAIN f \subseteq Path /\ IsFiniteSet(DOMAIN f)
  /\ \A p \in DOMAIN f :
       /\ Len(p) <= MaxPath /\ f[p] # "none"
       /\ \A q \in Above(p) \ {p} : q \in DOMAIN f /\ f[q] = "dir"

ASSUME ImportAssumption ==
  /\ MaxPath \in Nat /\ MaxRestarts \in Nat /\ Vanishing \in BOOLEAN
  /\ DownloadDir \in Path /\ ContentName \in STRING
  /\ \A start \in Starts : FileSystem(start.fs) /\ start.target \in Path

VARIABLES
  fs,        \* the file system
  target,    \* target_dir of the record
  todo,      \* the calls of copy_recursive still to make, the next one first
  data,      \* what the open source file holds
  pc,        \* "copy" -> "write" -> "copy" ... -> "record" -> "over"
  outcome,   \* "none", "imported" or "failed"
  first,     \* history: the file system before the import
  gone,      \* history: the paths the client took away
  restarts   \* restarts still to come

vars == <<fs, target, todo, data, pc, outcome, first, gone, restarts>>

Src == Append(DownloadDir, ContentName)
Dst == Append(target, ContentName)

Call(s, d) == [src |-> s, dst |-> d]

Exists(p) == p \in DOMAIN fs
IsDir(p)  == Exists(p) /\ fs[p] = "dir"

With(f, g) == [p \in DOMAIN f \cup DOMAIN g |-> IF p \in DOMAIN g THEN g[p] ELSE f[p]]

\* create_dir_all(p)
DirsFit(p)  == Len(p) <= MaxPath /\ \A q \in Above(p) : Exists(q) => IsDir(q)
WithDirs(p) == With(fs, [q \in Above(p) |-> "dir"])

\* read_dir(p), of the file system f
Listed(f, p) == {q \in DOMAIN f : Len(q) = Len(p) + 1 /\ IsPrefix(p, q)}

\* The types of the state: the file system stays a tree, a file is open in "write"
\* only, and there is an outcome only when there is nothing more to do.
TypeOK ==
  /\ pc \in {"copy", "write", "record", "over"}
  /\ (data # "none") = (pc = "write")
  /\ pc = "write" => todo # <<>>
  /\ outcome \in IF pc \in {"record", "over"} THEN {"imported", "failed"} ELSE {"none"}
  /\ pc \in {"record", "over"} => todo = <<>>
  /\ FileSystem(fs)
  /\ restarts \in 0..MaxRestarts

Init ==
  /\ \E start \in Starts : fs = start.fs /\ target = start.target
  /\ todo = <<Call(Src, Dst)>>
  /\ data = "none"
  /\ pc = "copy"
  /\ outcome = "none"
  /\ first = fs
  /\ gone = {}
  /\ restarts = MaxRestarts

Ends(o) == pc' = "record" /\ outcome' = o /\ todo' = <<>> /\ data' = "none"

-----------------------------------------------------------------------------
(* copy_recursive(src, dst), for a directory ... *)

\* Mutant of Visits: what the target has already is not copied again.
VisitsMissing(listing, d) ==
  {Call(q, Append(d, Last(q))) : q \in {x \in listing : Append(d, Last(x)) \notin DOMAIN fs}}

\* The calls for the entries of a directory.
Visits(listing, d) == {Call(q, Append(d, Last(q))) : q \in listing}

CopyDir ==
  /\ pc = "copy" /\ todo # <<>>
  /\ LET c == Head(todo)
     IN  /\ IsDir(c.src) /\ DirsFit(c.dst)
         /\ fs' = WithDirs(c.dst)
         /\ \E order \in SetToSeqs(Visits(Listed(fs', c.src), c.dst)) :
              todo' = order \o Tail(todo)
  /\ UNCHANGED <<target, data, pc, outcome, first, gone, restarts>>

\* Mutant of CopyDirFails: what cannot be made is skipped.
CopyDirSkipped ==
  /\ pc = "copy" /\ todo # <<>>
  /\ IsDir(Head(todo).src) /\ ~DirsFit(Head(todo).dst)
  /\ todo' = Tail(todo)
  /\ UNCHANGED <<fs, target, data, pc, outcome, first, gone, restarts>>

CopyDirFails ==
  /\ pc = "copy" /\ todo # <<>>
  /\ IsDir(Head(todo).src) /\ ~DirsFit(Head(todo).dst)
  /\ Ends("failed")
  /\ UNCHANGED <<fs, target, first, gone, restarts>>

-----------------------------------------------------------------------------
(* ... and for anything else. *)

\* Mutant of FileFits: a directory in the way is replaced.
FileFitsAnyhow(c) == Exists(c.src) /\ Len(c.dst) <= MaxPath

FileFits(c) == Exists(c.src) /\ ~IsDir(c.dst) /\ Len(c.dst) <= MaxPath

\* The source is open, the destination is truncated: empty both, if they are one.
OpenFile ==
  /\ pc = "copy" /\ todo # <<>>
  /\ LET c == Head(todo)
     IN  /\ ~IsDir(c.src) /\ DirsFit(Front(c.dst)) /\ FileFits(c)
         /\ fs' = With(WithDirs(Front(c.dst)), [p \in {c.dst} |-> "empty"])
         /\ data' = IF c.src = c.dst THEN "empty" ELSE fs[c.src]
  /\ pc' = "write"
  /\ UNCHANGED <<target, todo, outcome, first, gone, restarts>>

\* The source is gone, or a directory or a file is in the way of the destination.
OpenFileFails ==
  /\ pc = "copy" /\ todo # <<>>
  /\ LET c == Head(todo)
     IN  /\ ~IsDir(c.src)
         /\ \/ ~DirsFit(Front(c.dst)) /\ UNCHANGED fs
            \/ DirsFit(Front(c.dst)) /\ ~FileFits(c) /\ fs' = WithDirs(Front(c.dst))
  /\ Ends("failed")
  /\ UNCHANGED <<target, first, gone, restarts>>

\* Mutant of WriteFile: the file is moved.
WriteFileMoved ==
  /\ pc = "write"
  /\ fs' = [q \in DOMAIN fs \ {Head(todo).src} |->
             IF q = Head(todo).dst THEN data ELSE fs[q]]
  /\ todo' = Tail(todo)
  /\ data' = "none"
  /\ pc' = "copy"
  /\ UNCHANGED <<target, outcome, first, gone, restarts>>

WriteFile ==
  /\ pc = "write"
  /\ fs' = IF Exists(Head(todo).dst) THEN [fs EXCEPT ![Head(todo).dst] = data] ELSE fs
  /\ todo' = Tail(todo)
  /\ data' = "none"
  /\ pc' = "copy"
  /\ UNCHANGED <<target, outcome, first, gone, restarts>>

\* The disk is full.
WriteFileFails ==
  /\ pc = "write"
  /\ Ends("failed")
  /\ UNCHANGED <<fs, target, first, gone, restarts>>

-----------------------------------------------------------------------------

CopyDone ==
  /\ pc = "copy" /\ todo = <<>>
  /\ Ends("imported")
  /\ UNCHANGED <<fs, target, first, gone, restarts>>

\* Mutant of Record: a failed import is tried again.
RecordRetriesFailed ==
  /\ pc = "record"
  /\ IF outcome = "failed"
     THEN pc' = "copy" /\ todo' = <<Call(Src, Dst)>> /\ outcome' = "none"
     ELSE pc' = "over" /\ UNCHANGED <<todo, outcome>>
  /\ UNCHANGED <<fs, target, data, first, gone, restarts>>

\* The update of the record; one that fails leaves it to be imported again.
Record ==
  /\ pc = "record"
  /\ pc' = "over"
  /\ UNCHANGED <<fs, target, todo, data, outcome, first, gone, restarts>>

\* Mutant of Restart: what the attempt before came to is kept.
RestartKeepsOutcome ==
  /\ restarts > 0
  /\ pc # "over"
  /\ restarts' = restarts - 1
  /\ pc' = "copy" /\ todo' = <<Call(Src, Dst)>> /\ data' = "none"
  /\ UNCHANGED <<fs, target, outcome, first, gone>>

\* A crash, or a record that was not updated: the import starts over.
Restart ==
  /\ restarts > 0
  /\ pc # "over"
  /\ restarts' = restarts - 1
  /\ pc' = "copy" /\ todo' = <<Call(Src, Dst)>> /\ data' = "none" /\ outcome' = "none"
  /\ UNCHANGED <<fs, target, first, gone>>

\* The client moves or deletes part of the content, or all of it.
Vanish(p) ==
  /\ Vanishing
  /\ pc # "over"
  /\ IsPrefix(Src, p) /\ p \in DOMAIN first
  /\ LET below == {q \in DOMAIN fs : IsPrefix(p, q)}
     IN  /\ fs' = [q \in DOMAIN fs \ below |-> fs[q]]
         /\ gone' = gone \cup below
  /\ UNCHANGED <<target, todo, data, pc, outcome, first, restarts>>

Step ==
  \/ CopyDir \/ CopyDirFails \/ OpenFile \/ OpenFileFails \/ WriteFile \/ WriteFileFails
  \/ CopyDone \/ Record

Next == Step \/ Restart \/ \E p \in DOMAIN fs : Vanish(p)

\* The blocking task runs; how often the process dies is bounded.
Spec == Init /\ [][Next]_vars /\ WF_vars(Step)

-----------------------------------------------------------------------------

Content == {p \in DOMAIN first : IsPrefix(Src, p) /\ first[p] # "dir"}

Target(p) == target \o SubSeq(p, Len(DownloadDir) + 1, Len(p))

\* The content and what is made of it in the target do not meet.  The download
\* directory itself is no such target, nor one above it that it is reached from by
\* a directory with the name of the content.
Apart(f, t) ==
  IF IsPrefix(Src, t) THEN Append(t, ContentName) \notin DOMAIN f
  ELSE ~IsPrefix(Append(t, ContentName), Src)

ContentApart == \A start \in Starts : Apart(start.fs, start.target)

\* All of the content is in the target, but for what the client took away.
Copied == \A p \in Content \ gone : Target(p) \in DOMAIN fs /\ fs[Target(p)] = first[p]

\* An import that reports success has put all of the content into the target:
\* whatever earlier attempts left there, in whatever order directories are listed,
\* and wherever the target is
\* ("Copies the torrent save directory into download.target_dir").
Complete == outcome = "imported" => Copied

\* An import takes nothing from the client: what is still there of the content is
\* as it was, so that the torrent goes on seeding.
SourceKept ==
  \A p \in Content \ gone : p \in DOMAIN fs /\ fs[p] = first[p]

\* A file that is in the way is not replaced: nothing outside the paths that the
\* content takes in the target is changed, and no file makes room for a directory.
OthersKept ==
  \A p \in DOMAIN first \ gone :
    fs[p] # first[p] => \E q \in Content : p = Target(q) /\ first[p] # "dir"

Task == INSTANCE ImportTask WITH copied <- Copied, recorded <- pc = "over"

\* The poll loop may treat an import as one task: once it has succeeded the content
\* stays in the target until that is recorded, though the client may take away what
\* it was copied from; a failure turns into a success only by another attempt; and
\* what is recorded is final.
ImplementsImportTask == Task!Spec

\* The import ends, also when each directory that it makes is one more to copy.
ImportEnds == <>(pc = "over")

=============================================================================
