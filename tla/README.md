# A TLA+ development of obsidian-web-mcp

The program is an MCP server (Python, `src/src/obsidian_vault_mcp`) that gives
remote AI clients access to an Obsidian vault: a directory of Markdown notes and
other files, which Obsidian itself, its sync client and command line tools change
at the same time. This directory holds TLA+ modules that model the server's parts,
TLC configurations that check them on small instances, and proofs that TLAPS checks
for every value of the constants. Line numbers below are those of the package
directory, unless a path says otherwise.

Contents: 1 the system; 2 the plan; 3 the modules; 4 the runs; 5 the proofs;
6 findings; 7 what is assumed and what is left out.

## 1. The system

### 1.1 Who runs when

| Actor | What it runs | Where |
|---|---|---|
| the asyncio event loop | HTTP routes, OAuth handlers, every synchronous MCP tool (so: every tool that writes) | `server.py` |
| worker threads | tools wrapped by `_offloaded` (reads, searches, semantic queries); the commit of a direct upload and its audit snapshots | `server.py:319-343`, `2003-2006` |
| the recurring scheduler | `recurring_materialize` in `asyncio.to_thread` | `server.py:492-507` |
| timers and the watchdog observer | the debounced flush of the frontmatter index and of the semantic index; file events | `frontmatter_index.py`, `retrieval/engine.py` |
| hook threads | one daemon thread per post-write hook | `hooks.py` |
| everybody else | Obsidian, a sync client, the `recurring` and semantic CLIs in processes of their own | |

A handler on the event loop is atomic between two `await`s. Code in a thread is
atomic nowhere, except under a lock of its own. The file system is the only state
all of them share, and the only one that survives a crash.

### 1.2 Components

For each: the state it keeps; its operations; what is hard; what makes it correct.

**Direct uploads** (`tools/write.py`, the `/upload/{id}` route). *State*: a staging
directory per URL with `metadata.json`, part files and the marker directory
`claimed`. *Operations*: issue a URL (and sweep old directories), stream a body,
commit it in a thread, release or keep the claim. *Hard*: two requests on one URL
in two threads; other writers of the target between its check and its placement;
a crash between placing the file and recording it; the sweep under a slow client.
*Correct*: a URL writes once, within its terms; the answer is true; a refusal
leaves the URL usable; nothing is left behind; a received body is answered.

**OAuth** (`oauth.py`). *State*: registered clients (capped, aged, mirrored in a
JSON store that is read lazily), authorization codes in memory. *Operations*:
register, authorize, exchange a code, look up a client (which cleans up).
*Hard*: restarts and the lazy load; disk errors between memory and store; a client
that expires or is pushed out between its code and the exchange; retries. *Correct*:
a code buys one token, for its grantee, in time; the registry is bounded; a client
is forgotten only for a reason the documentation gives.

**Atomic writes and vault files** (`vault.py`). *State*: the files; temp files
beside them; the trash. *Operations*: `write_file_atomic`, `write_bytes_atomic`,
`write_file_from_path_atomic`, `move_path`, `delete_path`. *Hard*: exists-checks
that another writer invalidates before the replace or the move; names in the trash
made from the time to the second; a failure after the replace. *Correct*: no reader
sees a half-written file; a create never replaces; nothing deleted is lost from
the trash.

**Text write tools** (`tools/write.py`, `daily.py`, `templates.py`, `canvas.py`) and
**exclusive creation** (`create_note.py`). *State*: none; they read a file, change
the text, write it, read it back, refresh the index, fire the hook. *Hard*: every
other writer between the read and the write; verification that sees another
writer's text. *Correct*: what the tool reports is what happened; the index is fresh
when the tool returns.

**Frontmatter index** (`frontmatter_index.py`). *State*: parsed frontmatter per
path, pending paths, a debounce timer. *Operations*: start (walk, then watch),
event, flush, synchronous refresh, query. *Hard*: a file is parsed outside the
lock; the walk precedes the observer; each event restarts the timer. *Correct*: when
the vault is quiet, the index is the vault; a flush eventually happens.

**Recurring templates** (`tools/recurring.py`). *State*: `last_run` in each
template; the instances, found through the index. *Operations*: compute pending
periods, materialise each, set `last_run`; by the scheduler, the tool or a CLI.
*Hard*: two materialisations at once, in one process or two; one of several periods
failing; date arithmetic at the ends of months and years; a template edited
meanwhile. *Correct*: each period gets one instance; none is skipped without being
reported, and what `last_run` passes has been dealt with.

**OCR and its sidecars** (`vault.py:196-286, 533-732`). *State*: a sidecar per
image or PDF, with the fingerprint of its source; a lock file. *Hard*: two readers;
a source that changes during recognition; a crash under the lock. *Correct*: a valid
sidecar describes the file it claims to; a reader is not blocked for ever.

**Semantic engine** (`retrieval/engine.py`). *State*: chunks, vectors, a faiss index,
fingerprints; five files on disk; pending updates. *Operations*: initialise, load,
incremental and full reindex, change callback, flush, search. *Hard*: a failing
reindex after the pending set was cleared; a crash between two of the files; a lock
held for a whole reindex. *Correct*: rows and chunks correspond; an update is not
lost; what was deleted stays deleted after a restart.

**Signed downloads** (`tools/download.py`, the `/download/{id}` route). *State*: one
record per URL. *Hard*: HEAD, Range and the record's single use; the file changes
after the URL was issued; the read fails after the record is consumed.

**Tool wrapper, audit, hooks** (`server.py:175-308`, `audit.py`, `hooks.py`).
*State*: the audit log; a queue of hooks in a `ContextVar`. *Hard*: snapshots taken
around a tool, others writing meanwhile; contexts copied into threads. *Correct*: each
successful write is recorded and runs its hook once.

**Rate limiter** (`rate_limit.py`). *State*: a list of times per bucket. *Hard*: it is
checked and appended to from several threads without a lock.

**Stateless parts**: bearer authentication, search and analytics, URL fetching,
configuration and models, serialisation, the plugin bridge, the heartbeat.

### 1.3 How they interact

* An upload's commit ends in `write_file_from_path_atomic` and `fire_post_write`;
  the route flushes the hooks and writes the audit record.
* A text tool ends in `write_file_atomic`, reads back, then calls
  `refresh_path` of the frontmatter index, which also hears of the same write from the
  watchdog; the semantic engine hears of it from a listener of that index.
* `recurring_materialize` asks the frontmatter index which instances exist, and
  refreshes it after every instance it writes.
* Reading an image or a PDF writes its sidecar beside it, as a file of the vault.

## 2. The plan

The order is by how much damage a wrong interleaving does and how little a unit
test sees of it. Twelve runs in all: ten that pass, one question each, and two that
show where the program departs from its documentation.

| # | Modules | Runs | Abstract specification, proofs |
|---|---|---|---|
| 1 | `OneShotUpload`, `DirectUpload`, `DirectUpload_proofs` | `direct_upload` | `OneShotUpload`; types, safety, refinement proved |
| 2 | `OAuth`, `Requests_proofs` | `oauth`, `oauth_restart` | types, codes, the store and the cap proved |
| 3 | `FrontmatterIndex`, `FrontmatterIndex_proofs` | `frontmatter_index`, `frontmatter_edit` | types, timers, freshness and read-after-write proved |
| 4 | `VaultFiles`, `VaultFiles_proofs` | `vault_files` | types, answers, and "no text is lost without a reason" proved |
| 5 | `RecurringDates`, `Recurring`, `Recurring_proofs` | `recurring` | the arithmetic against a reference definition; nothing is skipped in silence, and nothing written twice |
| 6 | `SemanticEngine`, `Chunker`, `SemanticEngine_proofs` | `semantic`, `semantic_shared` | rows match chunks, the manifest tells the chunks, words are whole in a chunk: proved; liveness under two engines |
| 7 | `Downloads`, `Downloads_proofs` | `downloads` | the range parser and both safety properties proved |
| 8 | `OcrSidecar`, `OcrSidecar_proofs` | `ocr` | the three safety properties of the lock file and the cache proved; liveness |
| 9 | `ToolCalls`, `Requests_proofs` | `tool_calls` | the log accounts for what was written, proved |

Composition: `VaultFiles` is the module the text tools, exclusive creation and the
recurring writer act through; `FrontmatterIndex` is composed with a writer, since its
promise is about writes; `Recurring` uses the index only through what it promises.
`SemanticEngine` splits a note as `Chunker` does. `ToolCalls` is what stands around every tool,
whichever it is.
Recursion is written as recursive functions or folds wherever a module is to be
proved about.

## 3. The modules

### 3.1 `OneShotUpload`: what a signed URL promises

State: the terms of each URL, the file, and the URLs already used. Its one action,
`Place`, writes bytes that the terms allow, once per URL, and replaces a file only if
the URL says so. `OtherWriter` is everybody else. It has no run of its own: it is the
property `KeepsPromise` of `DirectUpload`.

### 3.2 `DirectUpload`: issue, stream, commit

| TLA+ | Code |
|---|---|
| `audited` | whether there is an audit log, chosen at the start |
| `stage`, `terms` | the staging record `metadata.json`: `expires_at`, `overwrite`, `expected_sha256` |
| `completed` | `completed_at` in that record |
| `claimed` | the marker directory `claimed` |
| `parts`, `temps` | `.part` files; `.~mcp-` temp files beside the target |
| `target` | the file in the vault |
| `pc`, `url`, `body`, `isNew`, `reply` | where each HTTP request is, and its locals |
| `hookQueue`, `hooks` | hooks queued in the worker's context; hook threads started |
| `placedBy`, `abandoned`, `crashes` | history, read by properties only (and the crash bound) |

| Action | Code |
|---|---|
| `RequestUrl`, `RequestOtherUrl`, `Sweep` | `vault_request_upload_url`, with `_cleanup_stale_uploads` |
| `RefuseUnread`, `AcceptGrant`, `StreamBody`, `CutOff`, `Close` | the route between its awaits |
| `SnapshotFails`, `FailsUnclaimed` | a snapshot for the audit record raises: after the commit, or before there is a claim, as other disk errors do there |
| `LoadGrant`, `Claim`, `Check`, `Copy`, `Replace`, `Link`, `UnlinkTemp`, `WriteFails`, `RecordCompletion`, `RecordFails`, `Release`, `ReleaseFails` | `commit_direct_upload`, `_commit_claimed_upload`, `write_file_from_path_atomic`, one file operation a step |
| `FirePostWrite` | `hooks.fire_post_write` |
| `OtherWriter`, `Crash`, `Expire` | the world |

The grant is checked twice in the code, before the body and in the commit, and so it
is here. What decides is neither check but `claim.mkdir()`, which is the model's
`Claim`: the only step that is atomic across threads and processes.

`HooksFollowWrites` is about two things that meet in no place of the code: which request wrote through
which URL, and whose hook was started. It holds with an audit log and without, and says of each what the
code does: without one, each write that was not answered with an error is told of; with one, none is
(see 6).

### 3.3 `OAuth`: registrations and codes

| TLA+ | Code |
|---|---|
| `clients`, `loaded` | `_registered_clients`, `_registered_clients_loaded` |
| `created` | `created_at`, for every client ever entered |
| `store`, `stored` | the JSON store: its clients; whether the file exists |
| `codes`, `grant` | `_auth_codes`; what each code was issued for |
| `unread`, `acknowledged`, `overwritten`, `spent`, `holder`, `faults`, `restarts` | history and bounds |

| Action or operator | Code |
|---|---|
| `Retained` | `_cleanup_registered_clients`: the expired go, then the oldest until there is room for one more |
| `LookUp`, `Persist` | `_get_registered_client` with the lazy load; `_persist_registered_clients` |
| `LoadFails`, `LookUpFails`, `RegisterFails` | the same when the disk refuses |
| `Register` | `oauth_register` |
| `Authorize`, `LookUpOnly` | the authorization endpoint; every other answer after a look-up |
| `Exchange`, `RefuseExchange` | `_handle_authorization_code` |
| `Tick`, `Restart` | the world |

Every handler awaits the request body first and never again, so a handler is one step.
The cleanup runs on *every* look-up and makes room for one more client even when none
is coming: a registry with a limit of *n* holds *n* clients only until the next
request. `KeepsRecentClients` says what that leaves a client to rely on: being one of
the *n* - 1 most recent. A store that cannot be read counts as loaded all the same (`oauth.py:156`), and the
next write replaces it: that is `overwritten`, like the registration after a restart (see 6).

### 3.4 `FrontmatterIndex`: the index, its watcher and its writers

| TLA+ | Code |
|---|---|
| `file`, `refused` | each note, known by its frontmatter; whether it has extra hard links |
| `index`, `pending`, `debounce` | `_index`, `_pending_paths`, `_debounce_timer` |
| `toWalk`, `watching`, `events` | the walk of `start()`; the observer and its queue |
| `pc`, `batch`, `at`, `seen` | where each thread is; what it has still to update; the path and the reading it holds |
| `wrote`, `edited`, `latest`, `overtaken`, `unnoticed` | history, read by properties only |

| Action | Code |
|---|---|
| `Walk`, `Watch` | `start()`, before the server takes requests |
| `Dispatch`, with `Schedule` | `_VaultEventHandler`, `_schedule_debounce` |
| `Fire`, `TakePending` | the timer's interval is over; `_flush_pending` under the lock |
| `Look`, `Parse`, `Put` | `_apply_single_path_update`: the checks, the reading, the assignment under the lock |
| `Write`, `Edit` | a tool that refreshes the one file it wrote; `vault_edit`, which does not |
| `BatchWrite`, `Move`, `Remove` | one file of a batch, of a move, or of what goes to the trash |
| `Refresh` | all of them are changed: `_refresh_frontmatter_paths`, `_refresh_frontmatter_index` begin |
| `OtherWriter`, `Link` | the world |

The lock makes `Put` and `TakePending` atomic and nothing else: between `Look`, `Parse` and
`Put` any other thread may do all three. A timer is `armed` until its interval is over,
and can be cancelled only then; once it has `fired` it waits for the lock, and a
cancellation comes too late. An event's kind is not kept with the pending path, because
an update looks at the file itself: `action` only reaches the callbacks.

A batch writes its files one after the other and refreshes them in the end; a move refreshes where
the file was and where it is. `Owes` keeps the list, and until `Refresh` a writer may go on with
the same tool. A directory that is moved or deleted is one rename in the code and its files in
turn here, with whatever comes between: entries of different files do not depend on each other.

What the index promises has exceptions, and the properties name them. `latest` is the
thread that last began to look at a file. If another thread enters a reading after that,
the entry may be old, nobody has a reason to read the file again, and the file is
`overtaken`: two flushes, or a flush and a tool, that overlap. `unnoticed` is a file that
changed without an update being asked for: between the walk and the start of the
observer, or when it gained or lost a second link. The handler drops the events of a file
with extra links, so the branch that would drop its entry ("A file can gain a second
link after it was indexed; drop it then, too", `frontmatter_index.py:282`) runs only if
a tool or an earlier event leads there. Files that are `overtaken` or `unnoticed` cease
to be so with the next update of theirs.

### 3.5 `VaultFiles`: writing, moving and deleting files

| TLA+ | Code |
|---|---|
| `entry`, `trash` | the file at each path, each name in `.trash/` |
| `temp`, `orphans` | the `.~mcp-` temp name of each thread's write; those that nobody removes |
| `text` | for each version, the versions whose text it still contains: what an append or a replacement keeps |
| `pc`, `kind`, `path`, `to`, `made`, `reply` | the tool each thread is in, its locals and its answer |
| `placed`, `since` | history, read by properties only |

| Action or operator | Code |
|---|---|
| `Compose`, with `ReadRefuses`, `Composed` | a tool up to its write: it reads what it changes, or looks whether the target is free |
| `Stage`, `WriteFails`, `Replace`, `Link`, `LinkRefused`, `UnlinkTemp`, `UnlinkFails` | `write_file_atomic`, `write_bytes_atomic`, one file operation a step |
| `Verify` | `_write_text_with_verification`; `vault_create_note` after the link |
| `Move`, `Rename`; `Delete`, `Trash`; `SourceGone` | `move_path`, `delete_path`: the look, then the rename |
| `OtherWriter`, `OtherRemoval`, `Tick`, `Crash` | the world |

The tools differ in how they place a text and in what they know of the file by then, and
that is their `kind`: `overwrite` and `importOver` do not look, `amend` and `append` have
read the file, `template` and `import` have found nothing there, `create` leaves
it to `os.link`. The scheduler writes its instances as `overwrite`, since it asks the index for
an instance of the period and not the vault for a file of the name. A refusal before
anything is written changes nothing and is no step of the model.

A second name makes `read_file` refuse a note, so an interrupted create, whose temp name
stays, is a note nobody reads: `Linked`, and with it `ReadRefuses` and `Verify`, count names.

`NoUnexplainedLoss` is the vault's main promise, with its limits. Text that was in a file or
the trash and then is in neither was removed by somebody else, or by a tool that was told
to overwrite, or it came to the file after the tool had looked there, which no tool can
notice because nothing locks a file (Obsidian would not honour a lock); or it was in the trash,
under the name that a second file of the same name took in the same second (see 6).
`since` is what makes the third reason a narrow one: text that was there when the tool looked
is not lost by it.

### 3.6 `RecurringDates` and `Recurring`: what is due, and its instances

`RecurringDates` is arithmetic. A day is its ordinal number. `Trigger` and `Yielded` are the
five walks of `_iter_triggers_descending`, told as numbered months, quarters or years; `Pending`
is `compute_pending_periods`, `OnCadence` the year cycle, `AddTo` the relative interval. `Falls` is
a second definition of the same anchors, by days instead of walks, and serves as the reference.

| TLA+ | Code |
|---|---|
| `anchor`, `created`, `lastRun`, `catchup` | the template's frontmatter; the catch-up mode |
| `trigger`, `meant` | what follows from the anchor within `Days`, kept so that it is worked out once |
| `text`, `status` | each period's note: of the server, of the command line, of the user or not there; and what its frontmatter tells the tool |
| `seen`, `news` | per process, what its index has of the notes, and where it is behind |
| `pc`, `todo`, `done`, `errors`, `blind` | each run, its locals, and whether its index was not started |
| `owed`, `excused`, `had`, `failed`, `waived` | history, read by properties only |

| Action | Code |
|---|---|
| `Start` | `recurring_materialize` up to the periods; for the CLI, its index has just been filled, or was not started (`--no-index`) |
| `Skip`, `Miss`, with `Unseeable` | `_existing_instance_for`, in the index of the process; what it could not have found |
| `Write`, `WriteFails` | one period of `_process_template`, with the refresh of the index |
| `Stamp`, `StampFails` | `_update_template_last_run` |
| `Report`, `Abort`, `Restart` | the end of a run: as meant, by an exception nothing catches, with the server |
| `Notice` | the watcher of an index: `FrontmatterIndex`, in one step |
| `UserWrites`, `UserRemoves`, `UserStamps`, `NextDay` | the world |

The look-up and the write are two steps, so two runs may both miss an instance, and the second
writes over the first. The write does not look at the file (`recurring.py:1027`), so
whatever the index does not show is written over: `WritesOnce` says exactly when. A note that others wrote may
be one the index has yet to hear of; one that a run of the same process wrote without an error may not, and
that is what the refresh after the write is for. `NoSilentSkip` is about `last_run`, which is
all that keeps a period from being made up for: it may be stamped by a run that began
before another one, be wiped or seeded by the user, or follow a period that failed.
`CleanRunIsComplete` is the stronger promise of one run that reports no error, in terms of the
days that the anchor means.

Both have a limit that the code sets. The walk for `T-n-before` anchors begins in the year of
today (`recurring.py:224`), so a trigger in December for an anchor in January is not found before
January: `NotYetWalkedTo`. And a period that failed while a later one succeeded is not tried
again: it has been reported once, and is `failed` here, and for good. Neither is caught by the
properties, which leave out the one and count the other as accounted for; and what the documents say of a template
without `last_run` is something else again (see 6).

### 3.7 `SemanticEngine` and `Chunker`: the index of semantic search

An engine is a process: the server, and a `vault-semantic` command that runs beside it on
the same five files. Its lock is held for a whole job, which is `pc # "idle"`; the job itself is taken
apart where another process, the vault or a failure can come between.

| TLA+ | Code |
|---|---|
| `file`, `linked` | each note, known by its text; whether it has extra hard links |
| `disk` | the five files of the store, each whole, `None`, or `Torn` by a process that died in its write |
| `mem` | `_faiss_index`, `_chunks`, `_manifest`, `_path_index` |
| `by` | the embedding model of the engine's configuration |
| `ready`, `available` | `_initialized`, `_available` |
| `pc`, `at`, `next`, `told`, `changed`, `todo`, `gone`, `rows` | where a job is, and its locals |
| `due`, `pending`, `timer`, `batch` | events on their way, `_pending_updates`, `_update_timer`, what a flush took |
| `patched`, `torn`, `unaligned`, `missed`, `misled` | history, read by properties only |

| Action or operator | Code |
|---|---|
| `HandleVaultChange`, `FlushPending`, `ReindexTold` | `handle_vault_change`; the two halves of `_flush_pending_updates`, with the lock let go in between |
| `Initialize`, `ReindexFull`, `ReindexChanged` | `initialize`, `reindex`: the tool, the health probe and the command |
| `Load` | `_load_unlocked`, one file a step |
| `Scan` | `_full_reindex_unlocked` |
| `Detect`, with `ToldUpdates`, `DetectedUpdates`, `ReusableRows` | `_updates_from_paths_unlocked`, `_detect_updates_unlocked`, `_reusable_rows_unlocked` |
| `Apply` | `_incremental_reindex_unlocked`, one path a step |
| `Embed`, with `Keeps`, `RowOf` | `_build_faiss_index_reusing`, `_build_faiss_index` |
| `Persist`, `PersistNothing` | `_persist_unlocked`, one file a step; without an index it writes nothing |
| `Fail`, `StopWriting` | an embedding or a write that raises; a write that is cut off |
| `WriteNote`, `LinkNote`, `Restart`, `Exit` | the world |

A vector is the chunk it was made of and the model that made it, so `RowsMatchChunks` can say
that row *i* of the index belongs to chunk *i*, which is all that a search relies on. Rows are
carried over from one run to the next by chunk id, and an id is a path and a number, the same
for every text of the note: what keeps an old vector from passing for a new one is only that
the path is in the run's updates. Two histories name what takes the promise away.
`unaligned` is an engine whose embedding failed after its chunks were replaced, that loaded a
store which may not be of one piece, or that holds vectors of another model when some engine writes
its own into `index_meta.json`; `torn` says of the chunks and the manifest that they may not be of one piece. A run that
embeds everything ends the first, a scan of the vault the second. `patched` follows the
store: who has written part of it and not the rest.

`CatchesUp` is the promise of automatic reindexing. Its exceptions are `missed`, a change the
server was never told of, because it found the note unreadable, or ended before, or was not
running; and `misled`, a note for which an engine without a chunk was told by the store it found (see 6).

`Chunker` is `_split_with_overlap` as a function of a text, a chunk size and an overlap; a
character is part of a word, a blank or a line break. `Windows` is the loop. The model's
instances take the number of chunks of their notes from it. `WordsAreWhole` is what an
overlap is for; `LeavesAGap` is when it is not enough (see 6).

### 3.8 `Downloads`: a URL for one body

| TLA+ | Code |
|---|---|
| `record`, `promise`, `consumed` | the JSON record of a URL; the size and digest in it; `consumed_at` |
| `file` | the file, known by its digest |
| `at`, `asked`, `answer` | the request whose bytes are about to be read, its Range header, what was answered |
| `checked`, `bodies`, `lost` | history, read by properties only |

| Action or operator | Code |
|---|---|
| `Parse`, `Asked` | `parse_range_header`; the bytes a header asks for, as RFC 9110 defines them |
| `RequestUrl`, `RequestRefused`, with `Sweep` | `vault_request_download_url` |
| `Good`, `Refuse`, `RecordFails` | `resolve_direct_download` |
| `Accept`, with `Consumes` | `direct_download` up to the read |
| `ServeWhole`, `ServeSlice`, `ReadFails` | the read and the answer |
| `ChangeFile`, `Expire`, `Crash` | the world |

The route has no `await`, so requests do not interleave with each other, but the file
changes between any two of their steps. The record is consumed before a byte is read,
which is what makes one body at most out of "single use": when the read fails, the URL is
spent and nothing was served.

### 3.9 `OcrSidecar`: one recognition, kept beside the file

| TLA+ | Code |
|---|---|
| `file`, `Fingerprint` | the image or PDF; its mtime in seconds and the hash of its first 64 KB |
| `sidecar` | the `.ocr.md` file: the fingerprint in it, and of which version its text is |
| `lock` | the lock file, and who created it; `Dead` for a file that nobody will remove: its process is gone, or its thread failed to write its pid or to remove it |
| `pc`, `layer`, `scan`, `done`, `keep`, `stamp`, `waited`, `ran` | each worker thread and its locals |
| `during`, `holders` | history, read by properties only |

| Action or operator | Code |
|---|---|
| `Begin`, `Check` | `read_file` with the text layer of a PDF, then the first look at the sidecar |
| `Enter`, `EnterFails`, `LockTimesOut`, `Unlock`, `ExitFails` | `_OcrSidecarLock`, and an open, a write of the pid or an unlink that raises |
| `Recheck` | the second look, under the lock |
| `StartCommand`, `CommandReads`, `CommandFails` | `_run_image_ocr`, `_run_pdf_ocr` |
| `Merge`, `Merged` | `_merge_partial_ocr`, over the labelled blocks a command may print |
| `Stamp`, `Replace` | `_write_ocr_sidecar`: the fingerprint, then the file |
| `AnswerOnly`, `Collect` | the answer |
| `ChangeFile`, `Tick`, `Crash` | the world |

`AnswersAreCurrent` is about what the reader is told, whichever way it was come by: the text
layer and the recognised text are of versions the file had during the read, or have the
fingerprint of one. `clean` marks a sidecar whose writer saw one version only; the others are
the exception (see 6). Behind a lock file that nobody removes every read waits and fails, until somebody does:
`ReadsEnd` asks only that it ends, and `WaitIsLongEnough` excuses it.

### 3.10 `ToolCalls`: what stands around a tool

| TLA+ | Code |
|---|---|
| `kind` | whether an operation is in `MUTATION_OPERATIONS`, in `BATCH_OPERATIONS` too, in `READ_OPERATIONS`, or writes and is in none |
| `pc`, `named`, `before`, `outcome`, `failing`, `left` | a call in `_run_logged_tool` and its locals |
| `pending`, `hooks` | `_pending_hooks` of the request's context; the hooks that were started |
| `log` | the audit log |
| `answer` | what the client gets |
| `wrote`, `touched`, `unlogged`, `spoilt` | history, read by properties only |

| Action or operator | Code |
|---|---|
| `Begin` | the snapshot before the tool, if it is audited |
| `Run` | the tool: any paths of those it names are written, any are reported as failed |
| `ToRecord`, `Status`, `Looks`, `RecordOf`, `AppendRecord` | `_emit_batch_audit_records`, `build_audit_record`, `write_audit_record`, and `flush_post_write_hooks` |
| `Finish` | the answer, with `clear_post_write_hooks` |
| `SnapshotRaises` | `snapshot_path` raises |
| `ChangeFile` | the world |

A tool that writes keeps the event loop to its end; a read runs in a thread; others change the
files at any time. So the snapshots around a call may show a change that is not the call's:
`LogAccountsForWrites` says whose it then is.

## 4. The runs

| Run | Instance | What it shows |
|---|---|---|
| `direct_upload` | 1 URL, 2 requests, 2 contents, with an audit log and without, 1 crash; 650,808 states | the safety properties, the refinement and the liveness of uploads |
| `oauth` | 3 clients, room for 2, 1 code, 2 flows, time to 3, 1 disk error, 2 restarts | the safety and action properties of OAuth |
| `oauth_restart` | room for 3, nothing expires, 1 restart, no disk error | a violation: see 6 |
| `frontmatter_index` | 2 files, 1 readable content, the event loop, 2 timers, 2 changes; 1,285,162 states | safety and liveness of the index |
| `frontmatter_edit` | 1 file, 2 readable contents, 1 timer, 1 change | a violation: see 6 |
| `vault_files` | 2 notes of one name, 3 versions, 2 seconds, the event loop and the scheduler, 1 fault; 644,996 states | the safety and action properties of the vault's files |
| `recurring` | 8 templates, 3 days, the scheduler and one run of the CLI, 1 fault or act of the user; 1,172,584 states | the arithmetic, and the safety and action properties of the recurring runs |
| `semantic` | 1 engine, 2 notes of one chunk or two, 2 models, 1 timer, 2 changes, 1 failure or restart; 2,803,633 states; sections of up to 8 characters, 4 chunk sizes, 4 overlaps | the safety of the semantic index, and what the chunker keeps together |
| `semantic_shared` | the server and a command, 1 note, 2 changes; 115,179 states | a vault left alone is caught up with |
| `ocr` | 2 threads, 3 reads, 3 versions of which 2 have one fingerprint, 2 pages, 1 change, 1 crash; 683,728 states | safety and liveness of recognition |
| `downloads` | 2 URLs, 4 versions of 3 sizes, 9 Range headers, 2 changes, 1 fault; 835,698 states | the safety of downloads |
| `tool_calls` | 2 calls, 2 files, 1 change by others, 1 fault; 1,814,729 states | the audit log accounts for the writes |

**Uploads.** `WrittenOnce`, `RepliesTellTheTruth`, `RefusalKeepsTheUrl`, `NoLitter`,
`HooksFollowWrites`, `KeepsPromise`, `StagedIsAnswered`.
*Bounds*: two requests make every race on one claim; a third only repeats the
second's part. One URL suffices because URLs share nothing but the file, and to one of
them another's write is a write by `OtherWriter`, which is there. Two contents tell a
right digest from a wrong one. One crash is enough to leave every kind of debris, and a
new request can follow it. The theorems of section 5 hold without any of these bounds.
*Fairness*: weak fairness of `CommitStep(r) \/ Close(r)`, for each request; the faults
(`CommitFault`, `SnapshotFails`) may come at any time, and none is counted on. Nothing in a
commit waits for another actor (`mkdir` fails rather than blocks), the thread pool runs
what it was given, and the event loop resumes a handler whose thread has ended.
Clients are not fair: a body may never arrive, so liveness starts at `staged`. A
crash ends the request with `lost`, which is an end as well. *Deadlock* is not checked:
when every URL has been issued and every request is over, the model may stop.

**OAuth.** `CodeBuysOneToken`, `TokenGoesToTheGrantee`, `NoLateToken`,
`AtMostMaxRegistered`, `StoreMirrorsRegistry`, `KeepsRecentClients`. *Bounds*: three
clients overrun a limit of two; lifetimes of one tick and three ticks let a code or a
client expire and time go on; two restarts let the store written after the first be read
after the second; one disk error separates memory from store. Codes do not interact
except through the registry, so one code suffices. The three clients are a symmetry
set: they are only compared for equality, and the run has no liveness property. There is
no fairness and no liveness here: nothing in these handlers waits. *Deadlock* is
not checked, since time and the ids are bounded.

**Frontmatter index.** `PendingHasTimer`, `FreshOrComing`, `AnswerIsFresh`, `QuietSettles`.
*Bounds*: two files make a batch or a move with more than one path and let a thread be at one while
another file changes. Two timers and the event loop make three threads, so two flushes
and a tool overlap. Two changes let a second one fall into the update the first called
for. One readable content is enough, because missing, unreadable and readable files already
give different entries, and old and new readings differ. `Dispatch` waits while both timers
are at work, which only delays it. *Fairness*: threads run. The walk goes on, the observer
takes its next event, a timer fires and flushes, a thread goes on with its update.
Nobody has to change the vault. `QuietSettles` is conditional: every event starts the
debounce interval again, so while the vault keeps changing no flush is guaranteed. Once
it is left alone, everything that was called for is done. *Deadlock* is not checked: a
quiet vault with a settled index is where the system stops.

**Vault files.** `ReadableAgain`, `RepliesTellTheTruth`, `NoUnexplainedLoss`. *Bounds*: two
notes are a source and a destination, and two files that compete for a name in the trash.
Three versions are one to read, one the tool makes from it and one that comes between. One
fault leaves one temp name behind, or one note with two names, and tools run after it. Two
threads are those there are. The notes are a symmetry set. No fairness: no step waits
for another. *Deadlock* is not checked, since versions and time are bounded.

**Recurring.** `CalendarIsRight` is asked before the first run, for every day of two months
and the year before, with what the proofs take from the calendar (`WalkFits`); `NoSilentSkip`, `CleanRunIsComplete` and `WritesOnce` on every behaviour. *Bounds*:
New Year's Eve, the end of January and the leap day put a trigger of every form of anchor into
the window: month ends and starts, a quarter's end that falls into the next one, a leap day, an
anchor whose year has not come, an interval that is cut to a shorter month. With three month
ends and a safety limit of two, the limit is exceeded. One run of the CLI overlaps any number of
the scheduler's; a run of the tool differs from the CLI's in sharing the scheduler's index, and
`Tools` is empty in this instance to keep it small. One event is a failed write or stamp, a run
cut short, a restart, or something the user does; two that meet are the business of the proofs (5.8). `MaxSteps` is 16 instead of 4000:
a walk over months reaches a year back, as `ReachAssumption` asks. No fairness: no step waits for another.
*Deadlock* is not checked, since days, runs and events are bounded.

**Semantic engine.** `RowsMatchChunks`, `ManifestTellsChunks`, `WordsAreFound`; `CatchesUp` in
`semantic_shared`. *Bounds*: two notes let one keep its rows while the other's change; a note of
two chunks moves the rows behind it. Two changes let a second fall between a flush and its
reindex, or into the reindex. One failure leaves chunks without their vectors, or a store in
pieces, and runs follow it; a restart with the other model meets the store of the first. The two
models are a symmetry set. The second run has the second process instead, and a note that cannot be
parsed: one note suffices, since what the processes disagree on is the store as a whole.
*Fairness* (`FairSpec`): a job goes on; and, strongly, a thread that waits for the engine's lock gets it
in the end, although jobs take it in between. Callbacks, timers and flushes wait so. Nobody
has to ask for a job, and nobody has to change the vault. *Deadlock* is not checked: a vault left alone
is where an engine stops. The sections for the chunker are those of one, five and eight
characters, with chunk sizes of zero to four and overlaps below, at and above them: enough
for three windows and for a break at each place in them.

**OCR.** `RecognisedOnce`, `AnswersAreCurrent`, `WaitIsLongEnough`, `ReadsEnd`. *Bounds*: with two
threads one waits for the other; a third read finds what the first two left, or the lock
of a crash. Three versions tell a change that a fingerprint shows from one that it does not. Two pages,
one with text, and two blocks give every outcome of a merge. A timeout of one tick makes the wait two.
*Fairness*: time passes and threads run; the errors of the lock file (`LockFault`) are not counted on. A command may take its whole timeout but no more, because
`subprocess.run` kills it. *Deadlock* is not checked: the reads are bounded.

**Downloads.** `UrlIsSpentByOneBody`, `ServedIsPromised`. *Bounds*: two URLs are issued, used and swept
beside each other; they are a symmetry set. Four versions are two of one size, a shorter one and an
empty file; two changes let a file go and come back. One fault is a read, a record or a process
that fails. No fairness: no step waits for another. *Deadlock* is not checked, for the bounds.

**Tool calls.** `LogAccountsForWrites`. *Bounds*: two calls overlap where the code lets them (a read and
a mutation, two reads) and follow each other where it does not; two files make a batch that fails in
part; one change by others falls between two snapshots; one fault is an append or a
snapshot. Calls and files are symmetry sets. No fairness. *Deadlock* is not checked: every call ends.

## 5. The proofs

### 5.1 `DirectUpload_proofs`

For all finite or infinite sets of URLs, requests and contents, with or without an audit
log, and any number of crashes:

| Theorem | Says |
|---|---|
| `TypeCorrect` | `Spec => []TypeOK` |
| `UrlWritesOnce` | `Spec => []WrittenOnce` |
| `UploadKeepsPromise` | `Spec => KeepsPromise`: `DirectUpload` implements `OneShotUpload` |
| `RepliesAreTrue` | `Spec => []RepliesTellTheTruth` |
| `RefusedUrlStaysUsable` | `Spec => []RefusalKeepsTheUrl` |
| `NoLitterLeft` | `Spec => []NoLitter` |
| `HooksTellOfWrites` | `Spec => []HooksFollowWrites` |
| `AuditedHookNeverRuns` | `Spec => []NoHookIfAudited`: with an audit log no hook ever starts (see 6) |

`WrittenOnce` is not inductive: nothing in it says why a second request does not
write. `ClaimInv` adds the reasons. `OneHolder`: a request between its claim and
its release is the only one there for its URL. `ClaimCoversWrite`: once written, the
claim stays until the record is swept. `NotWrittenYet`: a request that may still write
or release has not been preceded by a write. `InFlight`: a request in a commit has a URL
that is live or expired, never swept, and before it writes, a body that passed the
checks; type correctness needs this too, since the target takes the body's value.
`AnswerInv` does the same for the answers: `ReplyMatchesStep` says what has been
answered at each step, `WriterMovesOn` where a request that wrote can be, and
`FilesMatchStep` which of its files exist. Each invariant is preserved action by action,
`NextAnswerInv` on top of `ClaimInv`. The refinement maps `used` to the URLs with a
writer; `Replace` and a successful `Link` are `Place`, `OtherWriter` is itself, and every
other step leaves the abstract state alone. For the hooks, `HookInv`
adds that a request whose hook was started has been answered and stays with the URL it wrote through, and that
only a request whose hook was fired has the answer `ok`, whatever error may take its place afterwards;
`ReplyMatchesStep` and `WriterMovesOn` give the rest.

### 5.2 `Requests_proofs`: OAuth

For any finite set of clients and any set of codes and flows, any limit of at least one,
any lifetimes, and any bounds on time, disk errors and restarts:

| Theorem | Says |
|---|---|
| `TypeCorrect` | `Spec => []TypeOK` |
| `OneTokenPerCode` | `Spec => []CodeBuysOneToken` |
| `TokenForTheGrantee` | `Spec => []TokenGoesToTheGrantee` |
| `TokensAreTimely` | `Spec => NoLateToken`, an action property |
| `StoreIsMirror` | `Spec => []StoreMirrorsRegistry` |
| `RegistryIsBounded` | `Spec => []AtMostMaxRegistered` |
| `RecentClientsAreKept` | `Spec => []KeepsRecentClients` |

*Codes.* `CodeIsUnspent` is the strengthening: a code in the dictionary has bought
nothing, and a code that has bought something was issued, so it is never issued again.
*The store.* `StoreMirrorsRegistry` needs only that a store with clients in it exists as a
file, since a restart marks an existing store as unread and nothing else.
*The limit.* `RegistryIsCleaned` reduces every step to what a cleanup retained, plus at
most one client; `RoomForOne` counts it. `AtMostMaxRegistered` is then inductive.
*Recent clients.* This is the longest argument. `EntryInv` says that every client in
memory, on disk or acknowledged has a date, and that an acknowledged client in memory is on
disk too, so that the lazy load, which replaces the registry, cannot lose it.
`DroppedForAReason`: whom the cleanup drops has expired, or the *n* - 1 that stay are all
as recent. `ReasonsStay`: neither reason goes away, because dates do not change and the
set of more recent clients only grows. `ForgottenForAReason` puts them together, action by
action, and the exception `overwritten` is what a write of an unread store adds.

### 5.3 `FrontmatterIndex_proofs`

For any sets of files, contents, timers and writers (timers and writers being different
threads), and any number of changes:

| Theorem | Says |
|---|---|
| `TypeCorrect` | `Spec => []TypeOK` |
| `PendingAlwaysHasTimer` | `Spec => []PendingHasTimer` |
| `AlwaysFreshOrComing` | `Spec => []FreshOrComing` |
| `AnswersAreFresh` | `Spec => []AnswerIsFresh` |

*Types* need `Located`: a thread that enters a reading is at a file. `PendingHasTimer` is
inductive by itself. The other two rest on one idea: the latest thread to look at a
file is on course, that is, it has not read the file yet or holds what the file says now
(`LatestIsOnCourse`). `LookSetsOut` establishes it, and `StepKeepsCourse` shows that every
step which leaves the file alone keeps it, keeps an entry that is set, and lets the latest
thread bring the entry up to date. `FreshInv` adds that a file for which this does not
hold has an update called for: a change calls for one (`ChangeCalls`), a call is answered only
by a look (`StepKeepsCall`), and what changed before the observer started is unnoticed
(`WatchNotices`). `ReadAfterWriteInv` follows one writer instead, from its write to its answer
and on: it remembers a file only while nobody else changes it (`RememberedIsUnchanged`), and each
file it remembers is still in its batch, is the one it is at, or is refreshed (`StepRefreshes`).
What all the tools have in common is one predicate, `Changes`, to which `ToolChanges` reduces them.

### 5.4 `VaultFiles_proofs`

For any set of notes, and any number of versions, seconds and faults:

| Theorem | Says |
|---|---|
| `TypeCorrect` | `Spec => []TypeOK` |
| `AlwaysReadableAgain` | `Spec => []ReadableAgain` |
| `AnswersAreTrue` | `Spec => RepliesTellTheTruth`, an action property |
| `LossAlwaysExplained` | `Spec => NoUnexplainedLoss`, an action property |

One inductive invariant, `IInv`, serves all four. `Locals` says what a thread's variables are
at each step. `Numbered` makes a new version new: no file or local refers to one not yet
written. From it follows `Own`, that what a thread is about to place is nowhere else, which is
why a second name of a file can only be the temp name of the thread at work on it (`Temps`).
`Looked` carries the loss argument: what stands where a tool is about to write is in the text it
has made, because it was there when the tool read, or it is in `since`. Each part is preserved
action by action, using the parts before it. `LossAlwaysExplained` then looks only at the
four steps that replace something.

### 5.5 `Downloads_proofs`

For any URLs, versions, sizes and Range headers, and any number of changes and faults:

| Theorem | Says |
|---|---|
| `ParseIsAsked` | for a file of any size, the empty one included: `Parse` is `Nothing` only where a header asks for no byte, and else gives just the bytes it asks for; but a suffix of the empty file gets the range from 0 to -1 |
| `OneBody` | `Spec => []UrlIsSpentByOneBody` |
| `Promised` | `Spec => []ServedIsPromised` |

`SpentInv` adds to the first property where a request is: the URL whose whole body is about to be read is
consumed, has served none and has lost none. `PromiseInv` adds to the second that a request that
passed its checks was checked against a version of the promised size. `NothingServed` disposes of the
steps that answer with an error or not at all; `ServeSlice` rests on `ParseIsAsked`.

### 5.6 `OcrSidecar_proofs`

For any readers, versions, fingerprints, pages and timeout, and any number of changes, reads and crashes:

| Theorem | Says |
|---|---|
| `TypeCorrect` | `Spec => []TypeOK` |
| `LongEnough` | `Spec => []WaitIsLongEnough` |
| `Once` | `Spec => []RecognisedOnce` |
| `AnswersHold` | `Spec => []AnswersAreCurrent` |

`Locked` says what the lock file is for: with sidecars on, a reader past it is the one that holds it, and a
lock file of a living thread has its holder between `Enter` and its answer. It gives the first half of
`RecognisedOnce`; the second is `Needed`, which a change of the file alone can disturb, and then the file has
had two versions (`TwoVersions`). `Patient` bounds the wait by the clock of the command that is waited for: a
reader that has met one holder has waited no longer than that holder's command has run, hence less than the
two timeouts after which it gives up (`GivesUpLate`). `Seen` and `Kept` carry the texts: what a reader has at hand
is of versions the file had while it read, and a sidecar whose writer saw one version only is of that
version and has its fingerprint. `MergeTakesWanted` is the fact about `_merge_partial_ocr` they rest on.

### 5.7 `Requests_proofs`: tool calls

For any calls and paths, and any number of changes and faults:

| Theorem | Says |
|---|---|
| `CallsTypeCorrect` | `CallsSpec => []CallsTypeOK` |
| `WritesAccounted` | `CallsSpec => []LogAccountsForWrites` |

`LogAccountsForWrites` speaks of calls that are over; `LogInv` says what leads there. `OwnTexts`: until it is
recorded, a call's file holds what the call found or wrote, unless others touched it, so a snapshot after the call
tells its write (`SuccessRecord`, `RecordsAreTrue`). `RestIsLeft`: while a call is being recorded, each path it
reports as written is still to be recorded or has its record, and its hook waits until the last append
(`LastAppendRuns`); `NothingIsLeft` is the same for a call that is over.

### 5.8 `Recurring_proofs`

For any templates, days and runs, and any number of failures, kills and acts of the user:

| Theorem | Says |
|---|---|
| `TypeCorrect` | `Spec => []TypeOK` |
| `InstancesWrittenOnce` | `Spec => WritesOnce` |
| `CalendarAlwaysRight` | `Spec => []CalendarIsRight` |
| `NothingSkipped` | `Spec => []NoSilentSkip` |
| `CleanRunsComplete` | `Spec => CleanRunIsComplete` |

The assumptions are that days are after the first (`DaysAssumption`), that the runners differ
(`RunnersAssumption`), that anchors and intervals are what the patterns of the code and `_validate_month_day`
let through (`AnchorsAssumption`), and that the year before the first day is in the calendar and within
`MaxSteps` periods of the last day (`ReachAssumption`): 4000 periods are 333 years of months and more of the
others. TLC evaluates them for the eight templates.

*The calendar.* Each year has its length (`YearIsLong`), later dates are later days (`LaterMonth`), every
day is in a year (`SomeYear`, by induction) and has one date (`EveryDay`, `DateOf`): so the `CHOOSE` of `YearOf` and
`MonthOf` finds what it is to find, and the day after is of the same month, of the next, or of the next year
(`DayAfter`, `LastDay`). A trigger is a date of its period (`About`), shifted by the days before or after it
(`TriggerIs`): later periods trigger later (`LaterPeriod`), and a day on which the anchor falls is the trigger of the
period of the shifted day, and of no other (`FallsWhereItTriggers`). A walk yields that period unless the year of the anchor
has not come (`WalkYields`), so what is collected and what is meant are as many above each of them
(`AsManyGreater`, `CollectsMeant`), and the two theorems below take `WalksFit` from there. Intervals end later
than they start (`IntervalEnds`), so none starts after more others than there are days (`PeriodsGoOn`): that is
why `UnitsOf`, a bound of the model, leaves out no period.

*Written once.* `Fresh`: an index that a run looks at is what the notes say, but for changes it has not heard
of. `Own`: what a process wrote without an error its index has seen, whether or not it has heard of later changes.
So whoever misses a note that is there has an excuse (`ExcusedWriters`), and the refresh after each write keeps
`Fresh` and `Own`. *Nothing skipped.* `NoSilentSkip` is not inductive: `last_run` is stamped long after the periods were found,
from a baseline that others may have moved. `Covers` says of each run that every period before one it has
done or will do is accounted for or among those it will do, and `Owes` the same of the days since its baseline.
A start establishes both: a period is before the baseline, where `NoSilentSkip` held at that moment, or
found by the walk, or beyond the safety limit (`CollectedOrBeyond`, `StartCovers`, `OwedAreDue`). No other step gives
a run something to do (`RunsProceed`), and a skipped period had a note, since an index tells of none that was not
there (`HadAll`). What is accounted for stays so, hence a stamp may come from a stale `last_run`.

### 5.9 `SemanticEngine_proofs`

For any finite set of notes, any texts of any number of chunks, any engines, embedders and timers,
any number of changes and faults, and any sections, chunk sizes and overlaps:

| Theorem | Says |
|---|---|
| `EnginesAreInOrder` | `Spec => [](IInv /\ WatchOK)`, the inductive invariant |
| `RowsAlwaysMatch` | `Spec => []RowsMatchChunks` |
| `ManifestAlwaysTells` | `Spec => []ManifestTellsChunks` |
| `WordsAlwaysFound` | `Spec => []WordsAreFound` |

The assumptions are that the vault has finitely many notes (`PathsAssumption`), that a text has a
number of chunks (`PiecesAssumption`), and that `None` and `Torn` are no texts or embedders (`NamesAssumption`).

*Rows.* `RowsMatchChunks` speaks of an engine that answers. In between, its chunks are changed one path at a time,
and a row is kept by a chunk id that says nothing of the text. `Aligned` adds who may have made the vectors: one
embedder, and this engine's own where `index_meta.json` says so, which is what `_reusable_rows_unlocked` looks at.
`Reuses` takes this over to the rows a run starts from, while the chunks change under it. `Covers` says why an id
is enough: the ids of those rows are all different, and a chunk of a path that is not in the run's updates was
there before, unchanged, so the row its id finds is its own.

*The manifest.* `Told` is `ManifestTellsChunks`, from the first file of a load on. The runs disturb it twice.
A scan lists the indexable notes and puts their chunks one behind the other (`ScannedTells`); an update removes what
has an id of the note, which is what the path index counts, and appends the note's new chunks (`UpdatedTells`,
`LeftWithout`). The path index must be right for that: were it short, chunks would stay behind, and the note
would have two with one id.

*The store.* A store that has no unfinished writer is one engine's memory, taken at one moment, or is not there
(`StoreWhole`). `Loads` says that what was loaded so far is the store as it still is, and `Writes` that what was written
so far is memory as it still is, unless another engine writes too, which `patched` tells. All jobs of one
engine exclude each other, but those of two do not, so every action has a lemma for the engine that
acts, and `Bystander` for the others. `WatchOK` is the types of the callbacks' state.

*Words.* A window begins after the one before it, so the windows come to an end (`WindowsExist`, by induction over
the characters that are left). A word that is cut by a window's end, and is no longer than the overlap, begins no earlier than
the next window does (`CutWordComesAgain`): the next begins `overlap` before the cut, or else one step of
`size - overlap` after this one, where the property's exception comes in. `WordsBehind` repeats this to the last
window, and `WordsOfChunks` shows that a window with a word in it is a chunk.

*Induction over data* is done from `Induction`, which takes the numbers a fact holds of as a set and rests on a least
number that is not in it. `Flattened` is what it gives about `FlattenSeq`: the elements of the whole come, in order, from the
elements of the parts.

### 5.10 What is only model-checked

`StagedIsAnswered`, `QuietSettles`, `CatchesUp` and `ReadsEnd`, which are liveness properties under
fairness and out of the prover's reach; and the two violations.

## 6. Findings

Two are runs of their own. Each of the others is an exception that a property of a passing
run makes by name, so that the run shows that there is no other; or a case the property leaves out,
where that is said.

**A registration after a restart forgets every other client** (`oauth_restart`).
`oauth_register` does not load the store (`oauth.py:725`), and
`_persist_registered_clients` replaces it by what is in memory: the new client alone.
`docs/oauth.md:16` says that registrations can be persisted "so reconnects survive normal
service restarts". `KeepsRecentClients`, which the passing run checks, is the same
property with this one exception, so it shows that there is no other way to
lose a recent client.

**`vault_edit` leaves the index stale** (`frontmatter_edit`). It writes the file and answers
(`tools/write.py:164`); the other text tools refresh the index first. `README.md:16` says
that "edits, moves, deletes, and renames refresh the index immediately instead of waiting on
eventually-consistent watcher state". `AnswerIsFresh`, in the passing run, is the same promise
for the tools that do refresh.

**A successful upload does not run the hook when an audit log is configured**: the case `audited` of
`HooksFollowWrites`, which has no hook in it, and the theorem `AuditedHookNeverRuns`. `fire_post_write` queues the hook in a
`ContextVar` when there is an audit log, to be started once its record is known (`hooks.py:94-99`). The commit
runs in a worker thread (`server.py:2004`), which works on a copy of the route's context.
The route's `flush_post_write_hooks` (`server.py:2020`) therefore finds no hook.
`docs/audit.md:30` says that with both set, "the post-write hook receives the same audit
record on stdin as a single JSON line".

**An error of `vault_create_note` does not mean that nothing was written**: the answer `failed`,
of which `RepliesTellTheTruth` says nothing. The note is linked into place first and read back
afterwards. If another program changes or removes it between the two, the answer is
`write_verification_failed` or `create_note_failed` (`create_note.py:276-292`), for a note that was
created. `docs/create-note.md:109` says: "On any other error, the write did not happen."

**Three files of one name deleted within a second leave two in the trash**: the last disjunct of
`Explained`, in `NoUnexplainedLoss`. The first keeps its name. The second gets the time in
seconds, and so does the third, without a look whether that name is taken
(`vault.py:1094-1097`); `shutil.move` replaces a file.
`docs/security.md:43` says of the two delete tools: "They do not hard-delete files."

**After a failed embedding, rows are kept that belong to other chunks**: `unaligned` in
`RowsMatchChunks`. `_reusable_rows_unlocked` compares the number of vectors with the number of chunks and
nothing else. When an embedding fails (`retrieval/engine.py:345`) after the chunks were replaced (`:338`), the
old index stays beside the new list; once a later change brings the numbers together again, the rows
it keeps are those of other chunks. Its docstring (`:497`) says: "Nothing is kept when the
index does not line up with the chunk list".

**Two models in one index**: `unaligned` again, by way of the store. `_reusable_rows_unlocked` reads the embedder
from `index_meta.json` as it is now (`retrieval/engine.py:505`), not as it was when the index in memory was loaded.
An engine whose model has changed holds the vectors of the old one until it embeds everything; when another engine has
meanwhile rewritten the store with the new model, those vectors pass for the new model's. The same docstring says that nothing is kept "when it was built by another embedder".

**Deleted notes come back**: `misled` in `CatchesUp`. With no chunk left, `_persist_unlocked` returns without
writing (`retrieval/engine.py:479-480`). The next incremental run finds no chunk in memory and a store on disk, loads it
(`:125-127`), and updates only the paths it was told of: the deleted notes are found again.
`docs/configuration.md:133` says: "Automatically reindex changed files".

**Chunks that do not overlap**: `LeavesAGap` in `WordsAreFound`. A window may be broken off at a line break or a
blank anywhere after its start (`retrieval/chunker.py:44-48`), but the next never begins before
`start + chunk_size - overlap` (`:54`). Broken off earlier than that, the text in between is in no
chunk. The docstring (`:32`) says: "Split long text into overlapping chunks."

**The text of an old file under the fingerprint of the new**: `clean` in `AnswersAreCurrent`. The fingerprint in a
sidecar is taken after the recognition (`vault.py:235`), so a file that was replaced meanwhile keeps
the old text until it changes again. `CHANGELOG.md:518` says: "Invalidate OCR sidecars
automatically when the source PDF mtime or first-64KB SHA-256 fingerprint changes".

**A download under the digest of another file**: versions of one size in `ServedIsPromised`. Only the size is compared
(`tools/download.py:264-265`). `docs/security.md:65` says: "the server answers `409` rather than
serving bytes that do not match the promised `sha256`".

**A fresh template gets more than one period**: what `CleanRunIsComplete` and `NoSilentSkip` ask of a template
without `last_run`. In the mode "all" its baseline is the day before it was created, and
every period since then is made (`recurring.py:882-893`), as `docs/recurring.md:118-133` describes. But
`docs/recurring.md:230-232` says: "If a template has no `last_run` at all (fresh install), the tool only ever
creates one instance regardless of mode: the single most recent triggered period." The two properties
follow the code and the first passage: with the second, the periods before the most recent one would be owed to nobody.

**Instances are written over without a look at the file**: `Unseeable` in `WritesOnce`. The only look is at the index
(`recurring.py:953`, `676-700`), and the write replaces what has the name (`:1027`). With `--no-index` the index is empty, and every
instance of a period it finds due is written over, closed ones too; the option's help (`recurring.py:1377-1380`) says that "idempotency and
relative-mode 'last done' lookups degrade to file-existence checks". And a note that the user made under
the instance's name without the two fields in its frontmatter is written over, with the index too: `docs/recurring.md:215-216` says
that the check "handles cases where someone created the file manually".

**206 with no byte**: the empty file in `ServedIsPromised`. For a suffix range, `parse_range_header` returns (0, -1)
(`tools/download.py:307-308`); its docstring says that "None means unsatisfiable and the caller answers 416".

**Tools that write and are not audited run no hook when there is an audit log**: kind `unlisted`, of which
`LogAccountsForWrites` says nothing. `recurring_materialize`, `vault_daily_note_append` and
`vault_template_apply` are not in `MUTATION_OPERATIONS` (`audit.py:21-39`), and their hook, which waits for a
record, is dropped (`server.py:306-307`). `docs/recurring.md:319` says: "The tool participates in the
post-write hook, so audit/sync hooks see recurring instances". The hook of a batch gets no record at all
(`server.py:282`), where `docs/audit.md:30` says it does.

**An audit failure becomes the client's**: `spoilt` in `LogAccountsForWrites`. `snapshot_path` looks at the file three
times and raises when it vanishes in between (`audit.py:168-184`); nothing catches it after the tool has written
(`server.py:289`), so the client gets an exception for a write that was made; an upload that has been committed is answered
with a 500 in the same way (`server.py:2015`, `SnapshotFails`). `CHANGELOG.md:578` says that
failed mutations are recorded without "turning audit failures into client-facing errors".

## 7. Assumptions, abstractions, omissions

* *Uploads.* No commit takes a day: the sweep removes directories untouched for 24
  hours, a URL lives an hour at most, and `Stale` says that no commit is under way in one.
  (A client may still be streaming into it.) Unlinking a part or a temp file that the same
  request created succeeds. Contents are known by their digest; sizes, multipart parsing
  and media types are the choice between `BadBody`, `CutOff` and a good body. A URL's
  signature is a guard no model value can forge. `VAULT_MCP_POST_WRITE_CMD` is set.
* *OAuth.* `VAULT_OAUTH_PERSIST_REGISTERED_CLIENTS` is on. Login, session cookie and
  consent are the guard "the user has agreed". The access token is
  a configured constant, so it is not state: how often it is given out is counted. Time is discrete, and two registrations may carry the
  same date, which makes the older of the two a choice. `MaxRegistered` is at least 1. The
  migration of a plaintext store is a write like any other and is left out.
* *Frontmatter index.* A note is its frontmatter: bodies do not matter here. A reading sees
  one version of a file, since tools replace files as a whole. The observer reports every
  change made while it runs, once, in order. `start()` finishes before the first request.
  Left out: symlinks, `stop()` (called by tests only), queries, and change callbacks.
* *Vault files.* The notes have one name and lie in different folders, so they share the
  names in the trash, which is the hard case. A version is the text somebody wrote, and what
  a change removes from a text is not told apart from the rest: a tool that changes a text
  keeps all of it, and what the user asked it to remove is no loss. An edit in place, by another
  program, is a new version. `.trash/` belongs to the tools alone. A directory that is
  moved or deleted is a file here. A batch is a sequence of tools, each of which answers. The
  alert note of the scheduler, which it unlinks (`recurring.py:1152`), is left out.
* *Recurring.* One template, since templates share nothing but the run that an exception ends.
  Reading the template and finding its periods is one step, and a write is one step with its
  verification and refresh. Nothing but `last_run` changes in the template: an edit made during a
  run is undone by its stamp (`recurring.py:735`), which is the scheduler's amendment in `VaultFiles`. Dry runs write nothing. The alert and
  the report are written after the stamp and read by nobody here; they are written over whatever is
  at their path, and the alert of a failed period goes away with the next run that has no error,
  although the period is still missing. An interval whose last instance is open and was never
  closed goes by `last_run`, so a second instance may be open beside it.
* *Semantic engine.* The store's directory is writable and faiss is installed. Notes are read one after
  the other in a scan, and independently, so a scan is one step; an incremental run reads each note in a
  step of its own. Two notes with one text are still two. Left out: BM25, which is rebuilt from the chunks
  on every change and read under the same lock; how a search ranks; `vault-semantic repair`; dependencies
  that are missing. Titles, tags and sections are part of a note's text. The chunker gets what
  `chunk_markdown_file` gives it: sections that are stripped and not empty.
* *Downloads.* Signatures are a guard no model value can forge. A URL's lifetime is shorter than the day after
  which records are swept. A request has one Range header, with one range; a header that is no such thing is the one
  without numbers.
* *OCR.* One file; files share nothing but the name of their sidecars, which follow theirs. The command reads the file when it
  starts. Left out: PDFs that cannot be opened, and OCR that is switched off, both of which answer before any of this.
* *Tool calls.* A hook command and an audit log are configured. The tool itself is `Run`: what it does between is
  `VaultFiles`. Left out: moves, whose record has the snapshot of the source as the one before, and
  `vault_edit`, which queues no hook.
* *Disk errors* are modelled where the code handles them differently from
  success; a crash loses memory and nothing on disk.
* *Not modelled, and not planned:* search and analytics (they read only), bearer
  authentication, configuration, models, serialisation and the plugin bridge (no behaviour
  over time), URL fetching (network policy; it ends in an atomic write), the heartbeat; the rate limiter,
  whose count nothing else depends on: a property would restate the missing lock.
* `PROJECT.json` lists each component with its status, and every known hazard, covered
  or not, with the reason.
