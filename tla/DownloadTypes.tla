---------------------------- MODULE DownloadTypes ----------------------------
(***************************************************************************)
(* The value types of src/types: a download record, its status, and the    *)
(* state a torrent client reports for a torrent.                           *)
(*                                                                         *)
(* A content name and a path are abstracted to what decides what an import *)
(* copies: "" is the missing name (joining it to a directory yields the    *)
(* directory itself), "content" the file or root folder of the torrent     *)
(* with the record's info hash, "other" that of another torrent.           *)
(***************************************************************************)

CONSTANT InfoHash   \* the texts magnets have for one, the keys of the store

DownloadStatus ==
  {"Queued", "Submitted", "Downloading", "Importing", "Imported", "Failed"}

Pending  == {"Submitted", "Downloading"}   \* what the poll loop asks about
Terminal == {"Imported", "Failed"}         \* what nothing reads back

ContentName == {"", "content", "other"}

Download ==
  [info_hash     : InfoHash,
   status        : DownloadStatus,
   content_name  : ContentName,
   imported_path : ContentName \cup {"none"},   \* relative to target_dir
   error         : BOOLEAN]                     \* an error text is recorded

\* Download::new
NewDownload(h) ==
  [info_hash |-> h, status |-> "Queued", content_name |-> "",
   imported_path |-> "none", error |-> FALSE]

-----------------------------------------------------------------------------

TorrentState == {"Downloading", "Seeding", "Paused", "Error", "Unknown"}

\* qBittorrent's state names, as parse_state groups them.
DownloadingNames == {"downloading", "stalledDL", "checkingDL", "forcedDL", "metaDL"}
SeedingNames     == {"uploading", "stalledUP", "checkingUP", "forcedUP", "seeding"}
PausedNames      == {"pausedDL", "pausedUP", "stoppedDL", "stoppedUP"}
ErrorNames       == {"error", "missingFiles", "unknown"}

parse_state(s) ==
  CASE s \in DownloadingNames -> "Downloading"
    [] s \in SeedingNames     -> "Seeding"
    [] s \in PausedNames      -> "Paused"
    [] s \in ErrorNames       -> "Error"
    [] OTHER                  -> "Unknown"

\* Mutant of PolledStatus: a state the service does not know is stored as it is.
PolledStatusUnknown(state, old) ==
  CASE state = "Seeding"                   -> "Importing"
    [] state \in {"Downloading", "Paused"} -> "Downloading"
    [] state = "Error"                     -> "Failed"
    [] state = "Unknown"                   -> state

\* The status poll_downloads derives from a reported torrent state, given the
\* status the record had when the poll began.
PolledStatus(state, old) ==
  CASE state = "Seeding"                   -> "Importing"
    [] state \in {"Downloading", "Paused"} -> "Downloading"
    [] state = "Error"                     -> "Failed"
    [] state = "Unknown"                   -> old

=============================================================================
