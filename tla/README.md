# Magnarr in TLA+

Magnarr (the Rust crate under `src/`) takes magnet links through a GraphQL
mutation, hands them to a torrent client (qBittorrent), polls the client until a
torrent is complete, and copies its content into a target directory.  These
modules describe that system, TLC checks them on small instances, and TLAPS
proves every safety property of them that a passing run checks, for every value of
the constants.  Liveness is left to TLC.

## 1. The system

| part | state it keeps | operations | interacts with |
|---|---|---|---|
| download service, submission (`src/app/mod.rs` `download`, `service.rs`) | none of its own; a record it builds and holds across an `await` | `download`, `downloads` | store, torrent client; called by GraphQL, many at once |
| download service, poll loop (`App::start`, `poll_downloads`, `import_downloads`, `import_download`) | the records of the current pass | one pass: scan, one status call per record, import, sleep or stop | store, torrent client, file system, cancellation token |
| store (`src/store/download.rs`, `src/app/repository.rs`) | one redb file: table by info hash, two indexes | insert, get, update, remove, four scans with cursors | every operation is one transaction |
| torrent client (`src/client/qbittorrent.rs`) | configuration only | download, status, login | `AuthenticatedClient`, qBittorrent |
| authenticated HTTP client (`src/client/http.rs`) | session (id, client) behind an `RwLock`; cookie jar | `with_auth`, `session`, `renew_session` | shared by all concurrent calls |
| GraphQL API (`src/graphql`) | none | query `downloads` (pages), mutation `download` | service; the handler's future is dropped when the HTTP peer leaves |
| magnet links (`src/types/magnet.rs`, `src/graphql/scalars.rs`) | none | parse a URI pair by pair; keep its text and parse it again | GraphQL, the store's records |
| configuration (`src/cli/config.rs`) | none | load from defaults, `config.yaml`, environment, flags; resolve paths; written by `init` | `init`, `start` |
| process (`src/cli/start.rs`, `init.rs`, `mod.rs`, `main.rs`) | home directory, store lock, listen address, cancellation token | command line, `init`, start order, end | everything; other processes over one home |
| release (`scripts/prepare-release.mjs`, `release.yaml`) | version and changelog in `main`, tags, GitHub releases | plan, apply, push commit, push tag, release | git, GitHub, commits that come to `main` meanwhile |

Where it is hard, and what makes each part correct:

* **Whole-record writes.**  `download()` and the poll loop read a record, wait
  (for the client, for a copy that may take hours), and write the *whole* record
  back without reading again.  Correct only if nobody changed the record
  meanwhile.  (`CopiesFresh`, `FollowsLifecycle`)
* **Racing submissions.**  Two requests for one magnet may both pass the `get`;
  only one may reach the client, or a rollback removes another's record.
  (`OneSubmitter`)
* **Partial failure.**  Every repository call and client call may fail; the
  answer of a call that succeeded may be lost; the caller may leave; the process
  may die.  Afterwards a torrent in the client must have a record, a record must
  not be stuck.  (`NoOrphanTorrent`, `QueuedResolves`, `SeedingIsImported`)
* **Imports.**  A copy is cut off or its result is not recorded, and is done
  again; a missing content name would make it copy everything the client ever
  downloaded, and the name is that of the first torrent the client answers with,
  whichever that is.  (`ImportedIsCopied`, `ImportsOwnContent`)
  Below that, a file is truncated before it is written, the target may lie in the
  content itself, things are in the way, content vanishes, the disk fills up.
  (`Complete`, `SourceKept`, `OthersKept`, `ImportEnds`)
* **Shutdown.**  The token is looked at in two places only. (`StopsOnCancel`)
* **Magnets.**  Which of several `xt` and `dn` pairs counts depends on an early
  `break`; the key of a record is parsed again whenever it is read.
  (`ParsedAsSpecified`, `RereadSame`)
* **Sources of the configuration.**  Four sources are merged leaf by leaf, with
  three ways of naming a field.  (`Precedence`, `SourceOrder`, `RefusedForCause`)
* **Processes side by side.**  `init` looks once and writes later; a start runs its
  poll loop before it has its address; either is killed anywhere and run again.
  (`OnePoller`, `UserFileKept`, `SomeoneServes`)
* **Releases.**  A run takes many minutes, in which `main` moves, and consists of
  pushes between which it may fail; the next run must take that up.
  (`VersionSaysChanges`, `TagIsPrepared`, `DueIsTagged`)
* **Pages.**  A reader's pages are separate snapshots with the store changing in
  between, and its cursor may name a record that is gone.  What stays must be shown,
  and once.  (`NoneMissed`, `PagesInOrder`)
* **Sessions.**  Calls that find the session expired together must not renew it
  one each, must not repeat a request that was carried out, and must not block
  one another for ever.  (`RenewedOncePerExpiry`, `RetriedWithNewer`,
  `ServedOnce`, `CallsEnd`)

`PROJECT.json` lists every hazard with its line.

## 2. The modules

| module | models | kind |
|---|---|---|
| `DownloadTypes` | `src/types`, `parse_state`, the status derived by a poll | operators |
| `DownloadStore` | the repository: one atomic operator per transaction | data component, variable `db` |
| `DownloadLifecycle` | what the service promises about one record | abstract specification |
| `App` | submission, poll loop, import, client, token, restart | state machine over `DownloadStore` |
| `AppProofs` | theorems about `App` | TLAPS |
| `MCApp` | instances of `App` | TLC |
| `ClientCall` | what a caller may rely on when it calls the client | abstract specification |
| `HttpSession` | `AuthenticatedClient` as the qBittorrent client uses it | state machine |
| `HttpSessionProofs` | theorems about `HttpSession` | TLAPS |
| `MCHttpSession` | instances of `HttpSession` | TLC |
| `Pagination` | the `downloads` query, its scans and cursors, over `DownloadLifecycle` | state machine |
| `PaginationProofs` | theorems about `Pagination` | TLAPS |
| `MCPagination` | instance of `Pagination` | TLC |
| `Magnet` | `Magnet::from_str` as the API and the store call it | state machine |
| `MagnetProofs`, `MCMagnet` | theorems about `Magnet`, its instance | TLAPS, TLC |
| `Config` | `load_config`, what `init` writes, path resolution | operators |
| `ConfigLoad` | one start that loads its configuration | state machine |
| `ConfigLoadProofs`, `MCConfigLoad` | theorems about `ConfigLoad`, its instance | TLAPS, TLC |
| `Launch` | processes over a home directory, with `Config`'s `Load` | state machine |
| `LaunchProofs`, `MCLaunch` | theorems about `Launch`, its instance | TLAPS, TLC |
| `ImportTask` | what the poll loop may rely on when it imports | abstract specification |
| `ImportCopy` | one import with `copy_recursive` on a file system | state machine |
| `ImportCopyProofs`, `MCImportCopy` | theorems about `ImportCopy`, its instances | TLAPS, TLC |
| `Release` | the release workflow with plan and apply | state machine |
| `ReleaseProofs`, `MCRelease` | theorems about `Release`, its instance | TLAPS, TLC |

`App` and `HttpSession` meet in `ClientCall`.  `HttpSession` is shown to
implement it: a call reaches the server's handler at most once, succeeds only if
it did, and may fail either way.  That is all `App` assumes when `download()`
awaits the client: `ClientTakes` is `Take`, `ClientConfirms` is `Succeed`,
`ClientRefuses` and `AnswerLost` are `Fail` before and after the take.

`Pagination` composes a reader with `DownloadLifecycle` rather than with `App`: a
reader changes nothing, `App` implements `DownloadLifecycle`, and so what holds of
a walk over records that live that way holds of a walk over `App`'s.  A page does not
depend on the path of an import, so `Pagination` has one `Name` for it where `App` has two.

`App` and `ImportCopy` meet in `ImportTask` in the same way.  `ImportCopy` is the
import of one `App` step in detail, and is shown to implement the task: any part of the
content may be in the target while it copies, it succeeds only with all of it there,
that stays until the outcome is recorded, and an import that is not recorded is done
again.  That is all `App` assumes: `CopyPart` is `Copies`, `CopyFinishes` is
`Finishes`, `CopyFails` is `Fails`, `RecordImport` is `Records`, and `RecordFails` and
`Restart` are `Again`.  `App` counts a copy as full only once it has finished.

`Launch` uses `Config` to know what a start makes of the file it finds, and ends
where `App` begins: a process that `Polls` runs one `App`.  `OnePoller` is what
allows `App` to have one loop per store.

Definitions whose comment starts with "Mutant of X" are deliberate mistakes.
No action uses them; each is what X could have been by a plausible slip, and
putting it in X's place breaks the property `PROJECT.json` names.

### App and the code

One step is what happens between two points at which another task can interfere:
one repository transaction, one message to or from the client, one part of a
copy.  Code between two such points runs on private data and belongs to the step.

* `rpc[r]` says where request `r` is in `download()`: `get`, `insert`, `submit`
  (awaits, client has not acted), `taken` (awaits, client has acted), `confirm`
  or `rollback` (answer is there, write to come), `done`.  The record the request
  holds is `NewDownload(rhash[r])`, a function of its hash, so no variable keeps it.
* `lpc` says where the poll task is; `list` is what it still has to handle, `cur`
  the record in hand.  `record` is the point after the copy, when `cur` already has
  the outcome and the update is to come.  `get_pending_downloads` scans Downloading
  and then Submitted in two transactions, so these are two steps: a record that
  moves between them would be seen twice or not at all.
* `WriteFails` gives the two ways an update or a remove returns `Err`: a
  backend error, and `NotFound` when the record is not there.  The second is never
  taken in a reachable state, which is what `CopiesFresh` says.
* `Drop` is the handler's future dropped by hyper when the peer leaves
  (`graphql_handler` awaits `download` directly, nothing spawns it).  `Restart`
  is a crash, or the return of `start::run`, and a new process over the same file.
* `Cancel` is the contract of `App::start`: cancelling the token stops the loop.
  In `start::run` nothing cancels it, so today a signal simply ends the process,
  which is `Restart` at any step.
* `PollAsk` is the status call.  The service keeps as an info hash whatever text a
  magnet has for one, an empty one included, sends it as `hashes=<text>`, and takes
  the first torrent of the answer without comparing hashes.  `Matched` is the client's
  filter: a text that is a torrent's hash lets that torrent through, any other text
  none or other torrents (`FilterAssumption`), any of which may be first.  `reply.own`
  tells whether it is the one asked for, and decides in `ReportedName` whose content
  name it is; no guard reads it.
* `TorrentMoves` and `TorrentDeleted` are qBittorrent and its user.

Abstracted: a scan's order and its index (any order may occur, and a snapshot is
a set); names to missing, the record's own torrent's or another's; files of one torrent
to none, some or all of them copied, one target per hash; `created_at`, `updated_at`, the magnet text and
`target_dir`, which nothing branches on; log lines.  `poll_interval` is positive.
Torrents that a user adds to the client directly are left out: the service does not
look at what it has no record of, but for a text that is no hash, which finds them like
the torrents of other records.  A magnet that reaches the client after its
request was dropped is not a step of its own: the client takes it before the
drop, and `slow_add` lets it be listed later.

### HttpSession and the code

`pc[c]` says where call `c` is in `with_auth`: `session` (asks for the read lock),
`login_wait` (gave it up, asks for the write lock), `login` (holds it, awaits the
login), `send`, `answer` (server has acted), `refused` (401 or 403, in
`renew_session`), `relogin` (holds the write lock), `resend`, `done`.  All clones
of the reqwest client share a cookie jar, so whether the server accepts a request
is one boolean, `jarAccepted`, whichever session the call was handed.  The lock
needs no variable: it is held exactly in `login` and `relogin`.  Which waiter is
next is left open; tokio is first-come first-served, one of these orders.
`LoginEnd` counts every answer that is not 401 or 403 as a login, because
`make_login_fn` does: `hollow` counts the logins after which the server still accepts
nothing (`NotGranted`).

### Pagination and the code

`query` holds the arguments a reader repeats with every page, `after` its cursor,
`walk` is over when a page came with `hasNextPage` false.  `page`, `shown` and
`owed` are history variables for the properties.  `Page` is one call of
`QueryRoot::downloads`: `Scan` is what `prefix`, `range` and `after` leave of the
index (the four scans differ in having the first two), `Listings` its one order,
`Taken` the `take(limit + 1)` and the `truncate`.  `created` may get any value at
the insert: `Download::new` reads the clock before it, in parallel tasks, and the
clock may be set back.  From the library (collette) it is assumed that a Multi index
orders equal keys by the item's key and that a cursor is such a key, valid as long
as it is in the scan's prefix and range, whether or not its entry still exists.  A
reader that mixes cursors of different queries is not modelled (the library rejects
them as out of bounds), and one that gets a page without entries keeps its cursor.
Errors give the reader nothing and have no step.  A time is a number and 0 bounds
nothing, so `from: 0` stands for its absence.

A reader writes statuses and orders as the API has them.  `AsDomain`, `AppOrder` and
`Direction` are the conversions on the way in, `AsApi` the one on the way out; `owed`
and `PagesInOrder` are stated in the API's terms, so a conversion that took one value
for another would break them.

`NoneMissed` is about records that are there throughout the walk.  A record that is
inserted during the walk may or may not be shown; in particular an ascending reader
that follows the end for new records misses one whose clock reading is older than
its cursor.

### Magnet and the code

A text is kept as what the code looks at: a GraphQL value is of one of four kinds, a
query is a sequence of pairs, a pair has a key, the namespace of its value and the
text after that.  `pc` is `parse` (before the URI is split), `loop` (with `i` the next
pair), `done`.  `Dn`, `Xt` and `BtihUrn` list spellings, one of each that the
case-insensitive comparisons accept.  `Reparse` is the second reading of the text
that was kept: `Deserialize` of a stored record, or a reader that submits
`magnetUri` again.  `Says` is the reference, without a loop: a pair counts if not both
a hash and a name stand before it, and the last one that counts wins.

### Config, ConfigLoad and the code

A source is a function from key paths to values.  `KeysOf` has the keys of each field,
`WordsOf` the words of its variable's name.  `EnvTree` uses `WordsOf` because the
separator `_` makes each word a key; so `MAGNARR_STORE_PATH` reaches `store.path`,
and `MAGNARR_APP_POLL_INTERVAL` reaches no field.  `FlagTree` drops a path that is no
UTF-8 and expands `~`; flags of other fields are parsed by clap, and have neither.  `Merge` puts flags before variables before the file,
`Readable` is what `try_deserialize` requires, `Load` fills in defaults.  `Serialized`
is what `serde_yaml` writes of a configuration as the reader of config-rs then sees it:
the variant of the torrent client is lost, as a tag.

### Launch and the code

`pc[p]` is what process `p` does next: `check`, `mkdir`, `create`, `fill`,
`init_store`, `close` in `init`, where `fs::write` is the two steps create (truncate)
and fill; `load`, `open`, `spawn`, `bind`, `serve` in `start`.  `lock[p]` is the store
it has open, which redb lets no one else open.  `DownloadStore::new` creates
the directories above the store, so a start makes the home directory too.  A process
that ended is `idle` and is invoked again: a user does it, or the restart policy of
`docker-compose.yaml`.  `Edit` is a user who writes `config.yaml`.  Only a kill or a
failing write (`Fault`) is bounded.

### ImportCopy and the code

`fs` maps paths to `"dir"` or to what a file holds; `todo` is the recursion of
`copy_recursive`, unrolled into the calls still to make, in any order a directory may be
listed.  A call for a directory makes the destination (`create_dir_all`) and then lists
the source, in this order, which matters when the destination is in the source.
`OpenFile` is `std::fs::copy` up to the truncation of its destination, `WriteFile` the
rest.  `Record` writes the outcome, after which nothing changes; `Restart` is a crash,
or an update that fails and has the import repeated.  `Vanish` is the torrent client
moving or deleting content.

### Release and the code

`step` is where the run is: `test` (the jobs it needs), `checkout`, `plan`, `apply`,
`push`, `push_tag`, `release`, `end`.  `main` is a sequence of commits, each with the
manifest's version and the changelog's headings; `tree` the working copy of the
release job; `base` the commit it works on.  A heading has its date, because `updateChangelog` refuses only
the very same heading.  Every step can fail (`StepFails`); what was only local is then
gone, what was pushed stays.  `Merge` is a pull request, in between any two steps.

## 3. The runs

| run | instance | question | states |
|---|---|---|---|
| `race` | 2 requests, 1 hash, 3 client states, all disturbances, 2 of them, fair | does one request per magnet reach the client; do requests write back fresh records only; does a record follow its abstract life; is a torrent that seeds for good imported; does the loop stop once cancelled; does a record that a request holds leave Queued | 269 660 |
| `batch` | 1 request, a hash and an empty one, 3 client states, prompt client, 2 disturbances | is the loop's batch fresh while records come, go and change; is an import complete and of the right content; does every torrent have a record | 453 450 |
| `calls` | 3 calls, 1 expiry, 1 hollow login, fair | is a session renewed once; is a retry made with a newer one; is a call one request; does it end | 270 989 |
| `pages` | 3 hashes, 2 times, page sizes -1 to 3 with a maximum of 2, all queries with a status or none | is a record that stays shown; is one shown twice | 1 786 914 |
| `parse` | up to 4 of 6 pairs, in any order and number | is a magnet read as the reference says, and again from the text kept | 17 057 |
| `sources` | 11 files, up to 2 variables or all, up to 2 flags or all | do the sources count in their order; what is a start refused for | 62 016 |
| `home` | `init`, 3 starts, a refused command, 2 faults, fair | one poll loop per store; a user's configuration kept; does some start serve in the end | 24 435 |
| `copy` | a file or a folder, 5 targets apart and 2 in the content, 1 restart, vanishing content | is what is called imported complete; is the source kept; is anything else harmed; does it end; is it an `ImportTask` | 102 072 |
| `versions` | 2 merges of 4 kinds, 2 faults, 3 days, fair | does a version say what changed; is a tag prepared; is what is due tagged in the end | 145 305 |
| `dropped` | expected to fail | a dropped request leaves its record Queued | |
| `documented` | expected to fail | the variable of the container image counts for nothing | |
| `same_directory` | expected to fail | an import into the download directory empties the files | |

Why the bounds are enough.  Records of different hashes meet only in the loop's
batch, so two hashes and one request suffice there, and one hash with two
requests for everything about races (a third request for the same hash can only
do what the second does: be refused).  Two disturbances give each pair: a crash
after a failed write, a failed retry of a failed import, a drop during a lost
answer.  Requests may be made again without bound (`Call` from `done`).  The
client's states are one of a kind: without metadata, seeding, and an error in `race`
or one that `parse_state` does not know in `batch`; paused is treated as downloading.
The empty hash of `batch` matches the torrents of all other records, the worst case of
`FilterAssumption`; it has none of its own.  Three calls, an expiry and a hollow login, which leaves the jar
without a session like an expiry, let one call be handed an old session, a second
renew it and a third find the new one no good.  Three records
and pages of up to two give a page before, one at and one after any change; two
times give equal and different creation times, and a `from` that excludes.  Four
pairs give two of each kind that counts, in any order, and the break between them.
Fields meet in the configuration only where they share a table, which two of a source
do.  In `home` two starts share a store and two an address, and two faults let an
`init` fail and a start that took its place be killed.  The content of `copy` has a
directory in a directory and a file in each; `Vanish` and a full disk may come in any
step.  In `versions` two merges between two tags are enough for one bump to hide
another; two faults and three days for a run to fail between its pushes, the next one
to fail on the heading of the day, and one after that to be free of it.  The
theorems in section 5 have none of these bounds.

Deadlock is checked in `race`, `batch`, `dropped`, `calls`, `pages`, `home` and
`versions`.  `Idle` in `HttpSession` is the state in which every call has ended; `App`
never stops because requests may always come, nor does `Launch`, as what has ended is
run again, nor `Release`.  `parse`, `sources`, `documented`, `copy` and `same_directory` model one
parsing, one load and one import, which do stop, and have the check off.

**Fairness.**  `App`'s `Fairness` is weak fairness of `LoopStep` and of each
request's `RequestStep`: tokio runs every ready task, redb returns, and a call of
the client ends.  The last is an assumption on the environment: no HTTP call has a
timeout (`qbittorrent.rs:36`), so a peer that keeps a connection open without
answering stops the loop.  Nothing is assumed of callers, the token, the user and
the failures.  A failed copy is one of the loop's fair steps' outcomes, hence
`SeedingIsImported` allows Failed.  `HttpSession` has weak fairness of each call.
`Launch` has it of what a process does, and of its being run again
(`restart: unless-stopped`, or a user who does not give up).  All addresses in `home`
can be bound: a start that fails for ever on its address takes the store each
time it comes up, and could starve the others, so that only `OnePoller` and
`UserFileKept`, which are proved, speak of it.  `ImportCopy` has weak fairness of the
blocking task.  `Release` has it of a run and of time, and strong fairness of
`Dispatch(FALSE)`: maintainers who keep running the workflow for real, whatever
dry runs come between.  Nothing fails on the last day, which stands for all days to
come on which nothing fails.

### What the failing runs show

* `dropped`: `service.rs:12-14` promises Submitted or a rollback.  When the HTTP
  peer leaves during the client call, the record stays Queued; the poll loop does
  not read Queued records, and the magnet is refused as existing ever after.  A
  crash there, or a rollback that fails, ends the same way.  `HeldResolves` is what
  remains of the promise.
* `documented`: `config.rs:121` says `defaults < file < env vars < CLI args`, and
  `Dockerfile:21` sets `MAGNARR_SERVER_LISTEN_ADDR`.  The separator `_` makes that
  variable the key `server.listen.addr`, and the field keeps its default; of the eight
  fields only `store.path` has a variable that counts.  `SourceOrder` is what remains of
  the documented order, for any of the two: it holds of the code as it is and
  would hold if every variable reached its field.
* `same_directory`: `app/mod.rs:226-227` says that the import copies the content into
  the target.  When the target is the download directory, source and destination are
  the same file, which `std::fs::copy` truncates before it reads it: the record becomes
  Imported and the files of the torrent are empty.

### What else the models show of the code

These follow from the guards of the models, and are told here without a run of their
own.

* `download()` rolls back on any error of the client call, also when the client took
  the magnet and the answer was lost (`AnswerLost`): the torrent then runs without a
  record.  `service.rs:13-14` speaks of a client that *rejects* the magnet.
* `pausedUP` and `stoppedUP` are complete torrents, but are taken for Paused, then
  Downloading (`parse_state`, `PolledStatus`): one that stays stopped is polled for
  ever and never imported, where `README.md:11-15` names importing completed files.
* The loop waits for a status call without a timeout and without looking at its token
  (`qbittorrent.rs:36`, `app/mod.rs:154`), where `app/mod.rs:123` says that it exits
  cleanly when cancelled.  `StopsOnCancel` needs the fairness above for this.
* A record under a text that is no torrent's hash is polled and imported with the state
  and the content of another torrent (`PollAsk`, `ReportedName`): `Magnet::from_str`
  takes an empty info hash (`magnet.rs:41`), the client answers 200 to the magnet, and
  `qbittorrent.rs:89,100-106` takes the first torrent of a list that is then
  unfiltered.  `ImportsOwnContent` says what is left: the content of one torrent, never
  the whole download directory, and the record's own where its info hash is one.
* A client that does not list at once a torrent it has taken gets its record removed by
  the poll loop (`PollRemoves`, `slow_add`; `app/mod.rs:175`).
* Calls that find no session at all log in one after the other, each replacing the
  session of the one before (`LoginBegin`; `http.rs:52`); only renewals are counted by
  `RenewedOncePerExpiry`.
* A start is refused for the file that `init` wrote (`Serialized`, `Readable`), which
  `RefusedForCause` takes for a cause and `SomeoneServes` excludes, and the
  default listen address, which has a scheme, cannot be bound (`config.rs:51`,
  `start.rs:86`); `README.md:99-101` has `start` load this configuration and launch the
  service.
* The command of `docker-compose.yaml:8-11` has `--config`, which there is not
  (`InvokeRefused`), so that the container is restarted for ever.
* What is merged while the tests of a release run is tagged without having been tested
  by it (`Test`, `Checkout`; `release.yaml:57-67`), where `RELEASE.md:51` has the
  workflow run the tests.
* A run that fails after the push of its tag leaves a version without a GitHub release:
  the next run finds nothing to release since that tag (`NothingToRelease`).
  `RELEASE.md:58` has the tag trigger Publish; `publish.yaml:3-5` runs on a published
  release.

## 4. Abstract specifications

`DownloadLifecycle` has one status and one path per hash and seven steps.  `App`
implements it by reading `status` and `path` off the stored record.  It says, among
others, that nothing leaves Imported or Failed, that a record whose import has begun
does not vanish, and that Queued is left only to Submitted or by removal.
`ClientCall` and `ImportTask`, of which `App` assumes that they hold and which
`HttpSession` and `ImportCopy` implement, are described in section 2.

## 5. What is proved

For every set of requests, hashes, client states and calls (for the pages, every
finite set of hashes), every file system to import on, every number of commits, and
for every choice and number of disturbances:

| theorem | says |
|---|---|
| `AppProofs!TypeCorrect` | `Spec => []TypeOK` |
| `AppProofs!NoStaleWrite` | no request writes back a record that changed since it read it |
| `AppProofs!OneSubmission` | one request per magnet is past its insert |
| `AppProofs!ImportComplete` | Imported means completely copied |
| `AppProofs!ImportOwn` | an import copies the content of a torrent, never the whole download directory, and its own where the info hash is one |
| `AppProofs!Refinement` | `App` implements `DownloadLifecycle` |
| `AppProofs!NoOrphans` | with a prompt client every submitted torrent has a record |
| `AppProofs!NoStaleWriteOfLoop` | nor does the poll loop, across its batches, calls and copies |
| `HttpSessionProofs!TypeCorrect` | `Spec => []TypeOK` |
| `HttpSessionProofs!NoDoubleService` | a call is carried out at most once |
| `HttpSessionProofs!RenewalsBounded` | no more renewals than expiries and logins in vain |
| `HttpSessionProofs!NewerSession` | a retry uses a newer session |
| `HttpSessionProofs!Refinement` | `HttpSession` implements `ClientCall` |
| `PaginationProofs!TypeCorrect` | `Spec => []TypeOK`; a cursor is one the walk has shown |
| `PaginationProofs!Complete` | a walk to the last page has shown every record that matched throughout |
| `PaginationProofs!Ordered` | every page comes after the ones before it |
| `MagnetProofs!TypeCorrect` | `Spec => []TypeOK`, which no run checks: the state is one function's locals |
| `MagnetProofs!Correct` | a magnet of any number of pairs is read as the reference says |
| `MagnetProofs!RoundTrip` | the text that is kept reads back to the same magnet |
| `LaunchProofs!TypeCorrect` | `Spec => []TypeOK`; a process has its store open from its opening to its end |
| `LaunchProofs!OneLoopPerStore` | no two poll loops on one store |
| `LaunchProofs!NeverOverwritten` | a user's configuration stays once no `init` is on its way to write |
| `ConfigLoadProofs!Ordered` | flags come before variables, these before the file, that before the default; a variable that is passed over does as if it were not set |
| `ConfigLoadProofs!NoOtherRefusal` | a start is refused only for a value that would count, or for the client's table |
| `ImportCopyProofs!TypeCorrect` | `Spec => []TypeOK`; the file system stays a tree, wherever the target is |
| `ImportCopyProofs!AllCopied` | an import that succeeds has all of the content in the target (\*) |
| `ImportCopyProofs!ContentKept` | what the client still has of the content is as it was (\*) |
| `ImportCopyProofs!RestKept` | only files of the content's names in the target are replaced (\*) |
| `ImportCopyProofs!Refinement` | `ImportCopy` implements `ImportTask` (\*) |
| `ReleaseProofs!TypeCorrect` | `Spec => []TypeOK` |
| `ReleaseProofs!VersionsSay` | a version says what changed since the one tagged before it |
| `ReleaseProofs!TagsPrepared` | the commit of a tag has its version and its heading, and loses none |

(\*) under `ContentApart`, see below.

Assumptions: the bounds are natural numbers (`DisturbanceAssumption`,
`BoundsAssumption`, `LaunchAssumption`, `MagnetAssumption`), a process of `Launch` is an
`init` or a `start`, the text of a pair is not the model's "none", hashes and times of
`Pagination` are numbers (for their order) with finitely many hashes and readers ask for
statuses of the API (`PaginationAssumption`), and two on the client.
`MetadataAssumption`: the names "absent" and "adding" are not its states, and a client
that reports a torrent as seeding knows its content.  `FilterAssumption`: a text it
filters by lets through the torrent with that hash, or none or others if it is the hash
of none.  `ImportOwn` rests on both; without the first `content_name` could be empty and the import would copy the client's
whole download directory.  `NoOrphans` is proved under `PromptClient`, a
condition on the constants: no lost answers, no slow additions.  After a lost answer
the record is rolled back; a slow client makes the poll loop remove a record whose
torrent is about to appear.

`ImportAssumption` has an import begin on a finite tree of paths, none longer than the
system takes; how many there are, what they hold and where the target is are free.
`ReleaseAssumption` has a first version and a first day.  `ConfigLoadAssumption` says
that variables and flags are of fields; the file, and so the table of the client in it,
may be anything.

`ContentApart` is a condition on the constants, not an assumption: the instance of
`same_directory` is one of the module that breaks it, and that run shows what happens
then.  It excludes three targets.  One is the download directory.  One is above it,
where a directory of the content's name is on the way: with the content `T` in
`/a/T`, an import to `/a` writes `/a/T/T/T/f` to `/a/T/T/f`, which may be another file
of the content.  The last is a target in the
content in which the content's name is taken.  The other targets in the content are
covered: an import to one never succeeds, and takes nothing away.  `MCImportCopy`
assumes the condition of the starts of `copy`, and its opposite of that of
`same_directory`, so TLC checks that it means what it should.

**The argument for `App`.**  `CopiesFresh` is not inductive.  A request's write
must leave the loop's copies fresh and the other way round, and nothing in the code
locks a record.  What separates them is the status: a request holds a record only
while it is Queued, the loop holds only Submitted, Downloading and Importing ones
(`LoopInv`), so they never hold the same record.  Among requests `OneSubmitter` does
the same, because the insert refuses a taken key.  Inside the loop `LoopInv` says the
record in hand is no longer in the list.  `IInv` is the conjunction of these with
`RecordInv` (`ImportedIsCopied` and `ImportsOwnContent`); it is inductive, and the
refinement follows from it step by step.

**The argument for `HttpSession`.**  `RenewedOncePerExpiry` needs an account:
`RenewalDue` holds when a renewal of the *current* session is still to come (the
jar's cookie is dead, or a refused call still has the current id), and then an
expiry, or a login in vain, must be left for it.  A hollow `LoginEnd` makes one due
again and pays for it itself.  `Reuse` never makes it due, because the call's id was
old; `LoginEnd` uses it up, because the id it compares under the write lock is then
nobody's current one.

**The argument for `Pagination`.**  The cursor parts the positions: everything shown
is at or before it, and everything owed is shown or after it (`CursorInv`).  A page
takes the first entries after the cursor and moves it to the last of them, so both
halves stay true; `hasNextPage` is false only if nothing was left over, so at the end
nothing is owed.  That the order of positions is strict gives `PagesInOrder`.

**The argument for `Magnet`.**  `LoopInv` says that `hash` and `name` have the last text
of their kind before `i`, and that all pairs before `i` count.  A step keeps this
because the loop has broken off as soon as it has both, and at the end no later pair
counts, so the texts are those of the reference.  `RoundTrip` follows since the
reference leaves one magnet only (`SaysUnique`) and is about the value alone.

**The argument for `Launch`.**  `OnePoller` is not inductive: it does not speak of
the time before the loop runs.  `OneHolder` does, a store has one process from its
opening to that process's end, which `StoreOpened` checks against `lock`.
`UserFileKept` needs `FileInHome`: where a user's file is there is a home directory, so
no `init` that looks from then on gets past its look.

**The argument for `ConfigLoad`.**  The three ways of naming a field do not disturb one
another: no two fields have the same keys (`KeysDiffer`), and only the variable of
`store.path` has as many words as its field has keys, so no other variable is read as a
field, or as part of one (`WordsAre`).  Then a key of the merged tree has the value that
the first source with this key gives it (`MergeIs`, `ValueIs`).

**The argument for `ImportCopy`.**  Paths come first: of two that a third begins with,
one begins with the other (`PrefixOrder`), the target of a path is in the destination
and of no other path (`TargetIs`, `TargetInjective`), and nothing is both in the content
and in what is made of it (`NoneMeet`, from `ContentApart`).  `Complete` is not
inductive, as it says nothing before the end.  `CoveredInv` does: what is not in the
target yet is below a call that is still to be made, and a call for a directory leaves
one for each entry it lists.  It rests on `BelowInv` and `WriteInv`, by which what is
listed and read is the content as it was.  `KeptInv` has `OthersKept` with the place of
what is replaced.  A target in the content has an argument of its own, `EndlessInv`:
there is always a call for a directory that contains its own destination, and carrying
it out makes another one, so the import ends in a failure, at the latest when a path
gets too long.
`TypeInv` (with `EndlessInv`) needs no condition, `CopyInv` needs `ContentApart`.

**The argument for `Release`.**  The properties are about tags and the commits below
them, which no step changes; the work is in the push of a tag, many steps after it was
planned.  `JobInv` says of a run under way what its tag will need: every tag there is
lies at or before `base`, so the plan still follows the last tag, whatever is merged
meanwhile; the tree has the headings of `base`; and once the commit is pushed it is next
to `base`, where the tag goes.  `MainInv` says that headings stay from commit to commit
and that before the first tag every manifest has the first version, a release commit
that was left untagged included.

**What the proofs found.**  A CASE with overlapping arms in `strongestBump`, which TLC
reads as the first arm that holds and the logic as any; it is a maximum now, as in the
code.  A type of commits without those of kinds that no release looks at.  An operator of
TLC in `Config`, for which no prover has a definition.  And a
`Precedence` that took flags of all fields for paths: only a path is dropped for
not being UTF-8, or has its `~` expanded.

**Left to TLC.**  Liveness and what needs ENABLED, which this prover does not reach:
`SeedingIsImported`, `StopsOnCancel`, `HeldResolves`, `CallsEnd`, `SomeoneServes`,
`ImportEnds`, `DueIsTagged`; and the three failing runs.  That `App` leaves an
import, and a call of the client, all that `ImportTask` and `ClientCall` allow is an
argument from the guards of the steps named in section 2.

## 6. Plan

All modules of the plan are written: `App` and what it rests on, `HttpSession`,
`Pagination`, `Magnet`, `Config` with `ConfigLoad` and `Launch`, `ImportCopy`, `Release`,
each with its proofs.  What could follow:

1. Lemmas on the way to liveness that are safety properties: that the loop always has a
   step to take, and that each of its passes shortens what is left.
2. The last sentence of section 5 as a module: `App` with `ImportTask` and `ClientCall`
   as its environment, one instance for each download in hand and each call.

## 7. Not modelled

* Schema export (`src/bin`, `graphql/schema.rs` `sdl`), build information, the version
  command, logging: they print, and keep no state.
* The wording of release notes and of the changelog beyond its headings; the Publish
  workflow, but for what triggers it; the tests that a release run needs, but for
  their failing.
* The default of `first` and of `order` in the API: a reader of `Pagination` may ask for
  any size and either order, which includes the defaults.
* Malformed YAML, and a key that is a table in one source and a value in another.
* Two spellings of one hash, which are two records for one torrent; a magnet whose
  torrent has another hash in the client than the text the service keeps (base32),
  which looks to the poll loop like one that is never listed.
* The laziness of `read_dir`: `ImportCopy` lists a directory at once, right after it has
  made the destination.  In the code an entry that goes while its siblings are copied may
  not be seen at all, and the import succeeds without it, where the model's call for it
  fails; `Complete` claims nothing of what the client took away.  One that is added
  meanwhile may be seen, where the model has it only if it was there before.
* Links in the file system; two torrents with content of one name; a torrent whose
  save path is not in the download directory, whose content the import would not find
  or would take from elsewhere (`qbittorrent.rs:112`).
* The real qBittorrent, redb, collette, tokio and git: they enter by how the code
  uses them, in definitions that say so.
