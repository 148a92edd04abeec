--------------------------- MODULE SemanticEngine ----------------------------
(***************************************************************************)
(* The index of semantic search (retrieval/engine.py): the chunks of every  *)
(* note, a vector for each of them, and a manifest of the notes they were   *)
(* made from, kept in memory and in five files.  The server and the         *)
(* vault-semantic command are engines of their own that share the files.    *)
(* An engine's lock is held for a whole job (pc is not "idle"), while the   *)
(* vault goes on changing and the other engine goes on working.             *)
(* A note is told apart by its text; a vector is the chunk it was made of   *)
(* and the embedder that made it.  Left out: BM25, which is rebuilt from    *)
(* the chunks, and dependencies that are not installed.                     *)
(***************************************************************************)
EXTENDS Naturals, Sequences, SequencesExt, FiniteSetsExt

CONSTANTS
  Paths,         \* .md files outside of the excluded folders
  Texts,         \* what a readable note says
  Pieces,        \* Pieces[t]: how many chunks the note t is split into
  Unparsable,    \* what notes hold whose frontmatter raises
  Undecodable,   \* and notes that are not UTF-8
  None,          \* no note, no entry, no index, no file
  Torn,          \* a file of the store that was cut off while it was written
  Engines,       \* processes with an engine
  Server,        \* the one whose engine is told of changes
  Embedders,     \* embedding models
  Timers,        \* debounce threads: bounds how many are at work at once
  BuildOnDemand, \* config.SEMANTIC_BUILD_ON_DEMAND
  McpReindex,    \* config.SEMANTIC_ALLOW_MCP_REINDEX and _FULL_REINDEX
  MaxChanges,    \* bound on the changes to the vault
  MaxFaults      \* bound on restarts and failures

ASSUME PiecesAssumption == Pieces \in [Texts -> Nat]
ASSUME ServerAssumption == Server \in Engines
ASSUME NamesAssumption ==
  /\ None \notin Texts \cup Embedders \cup Unparsable \cup Undecodable \cup {Torn}
  /\ Texts \cap Unparsable = {} /\ Undecodable \cap (Texts \cup Unparsable) = {}
  /\ Torn \notin Embedders
ASSUME PathsAssumption == IsFiniteSet(Paths)
ASSUME BoundsAssumption == MaxChanges \in Nat /\ MaxFaults \in Nat

VARIABLES
  \* The vault.
  file,      \* what each note holds
  linked,    \* notes with a second hard link
  changes,
  \* The store: the five files by name.
  disk,
  \* Each engine.
  mem,       \* its index, chunks, manifest and path index
  by,        \* the embedder it was configured with
  ready,     \* _initialized
  available, \* _available
  pc, at,    \* what it does under its lock, and how many files of the store it is past
  next,      \* what follows a load or a rebuild: "detect" or "done"
  told,      \* the paths it was given, or {}: look at every note
  changed, todo, gone, \* updates of the run: all, not applied yet, deletions
  rows,      \* previous_rows: the chunks whose vectors may be kept, row by row
  \* Change callbacks of the server.
  due,       \* changes the frontmatter watcher has yet to report
  pending,   \* _pending_updates
  timer,     \* _update_timer is running
  batch,     \* what a thread took from pending and has yet to pass to reindex()
  \* History.
  faults,
  patched,   \* engines whose unfinished or damaged state the store may carry
  torn,      \* engines whose memory came from a store that may not be of one piece
  unaligned, \* engines whose vectors may not be, or not stay, those of their chunks
  missed,    \* notes whose last change the server was never told of
  misled     \* notes a server without a chunk of its own got wrong by the store it found

vault    == <<file, linked, changes>>
job      == <<next, told, changed, todo, gone, rows>>
watch    == <<due, pending, timer, batch>>
flags    == <<patched, torn, unaligned>>
lost     == <<missed, misled>>
vars == <<vault, disk, mem, by, ready, available, pc, at, job, watch, faults, flags, lost>>

Files == Texts \cup Unparsable \cup Undecodable \cup {None}
Names == <<"index", "chunks", "manifest", "paths", "meta">>
Empty == [index |-> None, chunks |-> <<>>,
          manifest |-> [p \in Paths |-> None], paths |-> [p \in Paths |-> 0]]

Init ==
  /\ file \in [Paths -> Texts \cup {None}] /\ linked = {} /\ changes = 0
  /\ disk = [i \in 1 .. 5 |-> None]
  /\ mem = [e \in Engines |-> Empty]
  /\ by \in [Engines -> Embedders]
  /\ ready = [e \in Engines |-> FALSE] /\ available = [e \in Engines |-> FALSE]
  /\ pc = [e \in Engines |-> "idle"] /\ at = [e \in Engines |-> 0]
  /\ next = [e \in Engines |-> "done"] /\ told = [e \in Engines |-> {}]
  /\ changed = [e \in Engines |-> {}] /\ todo = [e \in Engines |-> {}]
  /\ gone = [e \in Engines |-> {}] /\ rows = [e \in Engines |-> <<>>]
  /\ due = {} /\ pending = {} /\ timer = FALSE /\ batch = [t \in Timers |-> {}]
  /\ faults = 0 /\ patched = {}
  /\ torn = [e \in Engines |-> FALSE] /\ unaligned = [e \in Engines |-> FALSE]
  /\ missed = {} /\ misled = {}

Set(f, e, value) == [f EXCEPT ![e] = value]

(* The chunks of a note that holds text: none unless it can be read and parsed. *)
ChunksOf(p, text) ==
  IF text \in Texts
  THEN [i \in 1 .. Pieces[text] |-> [path |-> p, n |-> i - 1, text |-> text]]
  ELSE <<>>

(* The text a note ought to be found by: None for a note that gives no chunk. *)
Found(p) ==
  IF p \notin linked /\ ChunksOf(p, file[p]) # <<>> THEN file[p] ELSE None

(* chunk.id is "<path>::<n>". *)
Id(chunk) == <<chunk.path, chunk.n>>
Ids(p, n) == {<<p, i>> : i \in 0 .. n - 1}
Without(chunks, ids) ==
  FlattenSeq([i \in DOMAIN chunks |-> IF Id(chunks[i]) \in ids THEN <<>> ELSE <<chunks[i]>>])

CacheFilesExist == \A i \in 1 .. 4 : disk[i] # None

------------------------------------------------------------------------------
(* The vault changes: a note is written, deleted, or gains or loses a link. *)

(* The frontmatter watcher will report it to the server: what it cannot make
   of the note is not followed.                                               *)
WriteNote(p, text) ==
  /\ changes < MaxChanges /\ changes' = changes + 1
  /\ text # file[p]
  /\ file' = Set(file, p, text)
  /\ linked' = IF text = None THEN linked \ {p} ELSE linked
  /\ due' = due \cup {p}
  /\ missed' = IF text \in Undecodable \/ p \in linked THEN missed \cup {p} ELSE missed \ {p}
  /\ misled' = misled \ {p}
  /\ UNCHANGED <<disk, mem, by, ready, available, pc, at, job,
                 pending, timer, batch, faults, flags>>

(* Not an event of this note. *)
LinkNote(p) ==
  /\ changes < MaxChanges /\ changes' = changes + 1
  /\ file[p] # None
  /\ linked' = (linked \cup {p}) \ (linked \cap {p})
  /\ missed' = missed \cup {p}
  /\ UNCHANGED <<file, disk, mem, by, ready, available, pc, at, job, watch, faults, flags, misled>>

------------------------------------------------------------------------------
(* Change callbacks. *)

(* A change that finds the lock taken is passed over. *)
HandleVaultChangeUnlessBusy(p) ==
  /\ p \in due
  /\ due' = due \ {p}
  /\ IF pc[Server] = "idle" THEN pending' = pending \cup {p} /\ timer' = TRUE
                            ELSE UNCHANGED <<pending, timer>>
  /\ UNCHANGED <<vault, disk, mem, by, ready, available, pc, at, job, batch, faults, flags, lost>>

(* handle_vault_change waits for the lock, and restarts the timer.  A delete is
   remembered, but the flush looks at the paths alone.                          *)
HandleVaultChange(p) ==
  /\ p \in due /\ pc[Server] = "idle"
  /\ due' = due \ {p}
  /\ pending' = pending \cup {p} /\ timer' = TRUE
  /\ UNCHANGED <<vault, disk, mem, by, ready, available, pc, at, job, batch, faults, flags, lost>>

(* The timer fires: the first half of _flush_pending_updates.  One that fires
   while the lock is held is one that has not fired yet.                       *)
FlushPending(t) ==
  /\ timer /\ pc[Server] = "idle" /\ batch[t] = {}
  /\ batch' = [batch EXCEPT ![t] = pending]
  /\ pending' = {} /\ timer' = FALSE
  /\ UNCHANGED <<vault, disk, mem, by, ready, available, pc, at, job, due, faults, flags, lost>>
------------------------------------------------------------------------------
(* A job begins: it takes the lock. *)

(* A command is a process of its own: it does one job. *)
Fresh(e) == e # Server /\ mem[e] = Empty /\ ~ready[e]
MayReindex(e) == Fresh(e) \/ (e = Server /\ McpReindex)

(* initialize(): search and the health probe call it. *)
Initialize(e) ==
  /\ pc[e] = "idle" /\ ~ready[e] /\ (e = Server \/ Fresh(e))
  /\ next' = Set(next, e, "done")
  /\ \/ /\ CacheFilesExist /\ pc' = Set(pc, e, "load")
        /\ UNCHANGED <<ready, available>>
     \/ /\ ~CacheFilesExist /\ BuildOnDemand /\ pc' = Set(pc, e, "scan")
        /\ UNCHANGED <<ready, available>>
     \/ /\ ~CacheFilesExist /\ ~BuildOnDemand
        /\ ready' = Set(ready, e, TRUE) /\ available' = Set(available, e, FALSE)
        /\ UNCHANGED pc
  /\ UNCHANGED <<vault, disk, mem, by, at, told, changed, todo, gone, rows, watch, faults, flags, lost>>

(* reindex(full=True): the tool and the command. *)
ReindexFull(e) ==
  /\ pc[e] = "idle" /\ MayReindex(e)
  /\ pc' = Set(pc, e, "scan") /\ next' = Set(next, e, "done")
  /\ UNCHANGED <<vault, disk, mem, by, ready, available, at, told, changed, todo, gone, rows,
                 watch, faults, flags, lost>>

(* reindex(full=False, paths): an engine without a chunk loads the store first. *)
BeginIncremental(e, paths) ==
  /\ pc[e] = "idle"
  /\ next' = Set(next, e, "detect") /\ told' = Set(told, e, paths)
  /\ pc' = Set(pc, e, IF mem[e].chunks = <<>> /\ CacheFilesExist THEN "load" ELSE "detect")
  /\ UNCHANGED <<vault, disk, mem, by, ready, available, at, changed, todo, gone, rows,
                 due, pending, timer, faults, flags, lost>>

(* The tool and the command name no path. *)
ReindexChanged(e) == MayReindex(e) /\ BeginIncremental(e, {}) /\ UNCHANGED batch

(* The second half of _flush_pending_updates. *)
ReindexTold(t) ==
  /\ batch[t] # {}
  /\ BeginIncremental(Server, batch[t])
  /\ batch' = [batch EXCEPT ![t] = {}]

------------------------------------------------------------------------------
(* Under the lock. *)

(* The lock is released. *)
Finish(e) ==
  /\ pc' = Set(pc, e, "idle") /\ at' = Set(at, e, 0) /\ ready' = Set(ready, e, TRUE)
  /\ next' = Set(next, e, "done")
  /\ told' = Set(told, e, {}) /\ changed' = Set(changed, e, {}) /\ gone' = Set(gone, e, {})
  /\ todo' = Set(todo, e, {}) /\ rows' = Set(rows, e, <<>>)

(* The store is loaded or everything is built: an incremental run goes on. *)
Complete(e) ==
  /\ available' = Set(available, e, TRUE)
  /\ \/ /\ next[e] = "detect"
        /\ pc' = Set(pc, e, "detect") /\ at' = Set(at, e, 0)
        /\ UNCHANGED <<ready, job>>
     \/ next[e] = "done" /\ Finish(e)

(* _load_unlocked reads one file; one that is cut off, or being written just
   now, has everything rebuilt.
   Only the manifest's notes that have changed meanwhile matter to the history. *)
Load(e) ==
  LET i == at[e] + 1
      outdated == {p \in Paths : mem'[e].manifest[p] # Found(p)}
      written == \E o \in Engines \ {e} : pc[o] = "persist" /\ at[o] = at[e] /\ mem[o].index # None
  IN
  /\ pc[e] = "load"
  /\ \/ /\ disk[i] = Torn \/ written
        /\ pc' = Set(pc, e, "scan") /\ at' = Set(at, e, 0)
        /\ torn' = Set(torn, e, i > 1 \/ torn[e])
        /\ UNCHANGED <<mem, ready, available, job, unaligned, missed, misled>>
     \/ /\ disk[i] # Torn
        /\ mem' = [mem EXCEPT ![e][Names[i]] = disk[i]]
        /\ \/ i < 4 /\ at' = Set(at, e, i) /\ UNCHANGED <<pc, ready, available, job>>
           \/ i = 4 /\ Complete(e)
        /\ torn' = Set(torn, e, patched # {} \/ (i > 1 /\ torn[e]))
        /\ unaligned' = Set(unaligned, e, patched # {} \/ (i > 1 /\ unaligned[e]))
        /\ missed' = IF e = Server /\ i = 3 /\ ~ready[e] THEN missed \cup outdated ELSE missed
        /\ misled' = IF e = Server /\ i = 3 /\ ready[e] THEN misled \cup outdated ELSE misled
  /\ UNCHANGED <<vault, disk, by, watch, faults, patched>>

(* _full_reindex_unlocked walks the vault: one step, as the notes are read
   independently of each other.                                              *)
Scan(e) ==
  LET notes == SetToSeq({p \in Paths \ linked : ChunksOf(p, file[p]) # <<>>}) IN
  /\ pc[e] = "scan"
  /\ mem' = [mem EXCEPT
       ![e].chunks = FlattenSeq([i \in DOMAIN notes |-> ChunksOf(notes[i], file[notes[i]])]),
       ![e].manifest = [p \in Paths |-> Found(p)],
       ![e].paths = [p \in Paths |-> IF Found(p) = None THEN 0 ELSE Pieces[file[p]]]]
  /\ rows' = Set(rows, e, <<>>)
  /\ pc' = Set(pc, e, "embed")
  /\ torn' = Set(torn, e, FALSE)
  /\ missed' = IF e = Server THEN {} ELSE missed
  /\ misled' = IF e = Server THEN {} ELSE misled
  /\ UNCHANGED <<vault, disk, by, ready, available, at, next, told, changed, todo, gone,
                 watch, faults, patched, unaligned>>

(* _updates_from_paths_unlocked: it does not ask whether a note is indexable. *)
ToldUpdates(e) ==
  LET m == mem[e].manifest IN
  [modify |-> {p \in told[e] : file[p] \notin Undecodable \cup {None} /\ m[p] # file[p]},
   delete |-> {p \in told[e] : file[p] = None /\ m[p] # None}]

(* _detect_updates_unlocked. *)
DetectedUpdates(e) ==
  LET m == mem[e].manifest
      current == {p \in Paths \ linked : file[p] # None}
  IN
  [modify |-> {p \in current : file[p] \notin Undecodable /\ m[p] # file[p]},
   delete |-> {p \in Paths \ current : m[p] # None}]

(* _reusable_rows_unlocked: the file index_meta.json, not what is in memory,
   says which embedder made the vectors.                                     *)
ReusableRows(e) ==
  LET m == mem[e] IN
  IF m.index # None /\ Len(m.index) = Len(m.chunks) /\ disk[5] = by[e] THEN m.chunks ELSE <<>>

(* The updates are found.  No store to update: everything is rebuilt instead. *)
Detect(e) ==
  LET updates == IF told[e] = {} THEN DetectedUpdates(e) ELSE ToldUpdates(e)
      all == updates.modify \cup updates.delete
  IN
  /\ pc[e] = "detect"
  /\ \/ /\ mem[e].chunks = <<>> /\ ~CacheFilesExist
        /\ pc' = Set(pc, e, "scan") /\ next' = Set(next, e, "done")
        /\ UNCHANGED <<ready, at, told, changed, todo, gone, rows>>
     \/ /\ mem[e].chunks # <<>> \/ CacheFilesExist
        /\ all # {}
        /\ pc' = Set(pc, e, "apply") /\ next' = Set(next, e, "done")
        /\ changed' = Set(changed, e, all) /\ todo' = Set(todo, e, all)
        /\ gone' = Set(gone, e, updates.delete)
        /\ rows' = Set(rows, e, ReusableRows(e))
        /\ UNCHANGED <<ready, at, told>>
     \/ /\ mem[e].chunks # <<>> \/ CacheFilesExist
        /\ all = {}
        /\ Finish(e)
  /\ missed' = IF e = Server /\ told[e] = {} THEN {p \in missed : file[p] \in Undecodable} ELSE missed
  /\ misled' = IF e = Server /\ told[e] # {} /\ mem[e].chunks = <<>> /\ CacheFilesExist
               THEN misled \cup {p \in Paths : mem[e].manifest[p] # Found(p)} ELSE misled
  /\ UNCHANGED <<vault, disk, mem, by, available, watch, faults, flags>>

(* The hash is entered in the manifest before the chunks are looked at. *)
ApplyHashFirst(e, p) ==
  LET m == mem[e]
      new == IF p \in gone[e] \/ p \in linked THEN <<>> ELSE ChunksOf(p, file[p])
  IN
  /\ pc[e] = "apply" /\ p \in todo[e]
  /\ todo' = Set(todo, e, todo[e] \ {p})
  /\ mem' = [mem EXCEPT
       ![e].chunks = Without(m.chunks, Ids(p, m.paths[p])) \o new,
       ![e].manifest[p] = IF p \in gone[e] THEN None ELSE file[p],
       ![e].paths[p] = Len(new)]
  /\ pc' = IF todo'[e] = {} THEN Set(pc, e, "embed") ELSE pc
  /\ UNCHANGED <<vault, disk, by, ready, available, at, next, told, changed, gone, rows,
                 watch, faults, flags, lost>>

(* _incremental_reindex_unlocked, one path: its chunks leave, and those of the
   note as it is now are put at the end.                                       *)
Apply(e, p) ==
  LET m == mem[e]
      new == IF p \in gone[e] \/ p \in linked THEN <<>> ELSE ChunksOf(p, file[p])
  IN
  /\ pc[e] = "apply" /\ p \in todo[e]
  /\ todo' = Set(todo, e, todo[e] \ {p})
  /\ mem' = [mem EXCEPT
       ![e].chunks = Without(m.chunks, Ids(p, m.paths[p])) \o new,
       ![e].manifest[p] = IF new = <<>> THEN None ELSE file[p],
       ![e].paths[p] = Len(new)]
  /\ pc' = IF todo'[e] = {} THEN Set(pc, e, "embed") ELSE pc
  /\ UNCHANGED <<vault, disk, by, ready, available, at, next, told, changed, gone, rows,
                 watch, faults, flags, lost>>

(* The id alone decides. *)
KeepsById(e, c) == \E i \in DOMAIN rows[e] : Id(rows[e][i]) = Id(c)

(* Whether the chunk c keeps its vector. *)
Keeps(e, c) ==
  c.path \notin changed[e] /\ \E i \in DOMAIN rows[e] : Id(rows[e][i]) = Id(c)

(* Of two rows of one id the last counts. *)
RowOf(e, c) == Max({i \in DOMAIN rows[e] : Id(rows[e][i]) = Id(c)})

(* _build_faiss_index_reusing; _build_faiss_index where no row is kept. *)
Embed(e) ==
  LET chunks == mem[e].chunks
      Vector(c) == IF Keeps(e, c) THEN mem[e].index[RowOf(e, c)] ELSE [of |-> c, by |-> by[e]]
  IN
  /\ pc[e] = "embed"
  /\ mem' = [mem EXCEPT ![e].index =
       IF chunks = <<>> THEN None ELSE [i \in DOMAIN chunks |-> Vector(chunks[i])]]
  /\ pc' = Set(pc, e, "persist")
  /\ unaligned' = Set(unaligned, e, rows[e] # <<>> /\ (unaligned[e] \/ torn[e]))
  /\ UNCHANGED <<vault, disk, by, ready, available, at, job, watch, faults, patched, torn, lost>>

(* _persist_unlocked without an index: the store keeps what it had. *)
PersistNothing(e) ==
  /\ pc[e] = "persist" /\ mem[e].index = None
  /\ Complete(e)
  /\ UNCHANGED <<vault, disk, mem, by, watch, faults, flags, lost>>

(* The next of the five files is written over.  The last says which embedder made
   the vectors, to every engine on the store: one of this embedder that holds those
   of another, from before, will take them for its own.                             *)
Persist(e) ==
  LET i == at[e] + 1
      value == IF i = 5 THEN by[e] ELSE mem[e][Names[i]]
      whole == patched \subseteq {e} /\ ~torn[e] /\ ~unaligned[e]
      reads == {o \in Engines \ {e} : pc[o] = "load"}
      holds == {o \in Engines \ {e} : by[o] = by[e] /\ mem[o].index # None
                                       /\ \E k \in DOMAIN mem[o].index : mem[o].index[k].by # by[o]}
      mistaken == IF i = 5 THEN reads \cup holds ELSE reads
  IN
  /\ pc[e] = "persist" /\ mem[e].index # None
  /\ disk' = [disk EXCEPT ![i] = value]
  /\ \/ i < 5 /\ at' = Set(at, e, i) /\ UNCHANGED <<available, pc, ready, job>>
     \/ i = 5 /\ Complete(e)
  /\ patched' = IF i = 5 /\ whole THEN patched \ {e} ELSE patched \cup {e}
  /\ torn' = [o \in Engines |-> torn[o] \/ o \in reads]
  /\ unaligned' = [o \in Engines |-> unaligned[o] \/ o \in mistaken]
  /\ UNCHANGED <<vault, mem, by, watch, faults, lost>>

(* An engine that stops while it writes may leave the file it was at cut off. *)
StopWriting(e) ==
  \/ UNCHANGED <<disk, patched>>
  \/ /\ pc[e] = "persist" /\ mem[e].index # None
     /\ disk' = [disk EXCEPT ![at[e] + 1] = Torn]
     /\ patched' = patched \cup {e}

(* Embedding or writing raises: the job ends, and so does the thread of a flush. *)
Fail(e) ==
  /\ faults < MaxFaults /\ faults' = faults + 1
  /\ pc[e] \in {"embed", "persist"}
  /\ pc' = Set(pc, e, "idle") /\ at' = Set(at, e, 0) /\ next' = Set(next, e, "done")
  /\ told' = Set(told, e, {}) /\ changed' = Set(changed, e, {}) /\ gone' = Set(gone, e, {})
  /\ todo' = Set(todo, e, {}) /\ rows' = Set(rows, e, <<>>)
  /\ unaligned' = IF pc[e] = "embed" THEN Set(unaligned, e, TRUE) ELSE unaligned
  /\ StopWriting(e)
  /\ UNCHANGED <<vault, mem, by, ready, available, watch, torn, lost>>

(* Nothing of a process is left but the store. *)
Forget(e, m) ==
  /\ mem' = Set(mem, e, Empty) /\ by' = Set(by, e, m)
  /\ ready' = Set(ready, e, FALSE) /\ available' = Set(available, e, FALSE)
  /\ pc' = Set(pc, e, "idle") /\ at' = Set(at, e, 0) /\ next' = Set(next, e, "done")
  /\ told' = Set(told, e, {}) /\ changed' = Set(changed, e, {}) /\ gone' = Set(gone, e, {})
  /\ todo' = Set(todo, e, {}) /\ rows' = Set(rows, e, <<>>)
  /\ torn' = Set(torn, e, FALSE) /\ unaligned' = Set(unaligned, e, FALSE)
  /\ \/ /\ e = Server
        /\ due' = {} /\ pending' = {} /\ timer' = FALSE /\ batch' = [t \in Timers |-> {}]
     \/ e # Server /\ UNCHANGED watch
  /\ UNCHANGED <<vault, lost>>

(* The process ends at any moment and starts again, with another embedder
   perhaps.  Changes the server was to be told of are forgotten.            *)
Restart(e, m) ==
  /\ faults < MaxFaults /\ faults' = faults + 1
  /\ StopWriting(e)
  /\ Forget(e, m)

(* A command ends. *)
Exit(e) ==
  /\ e # Server /\ pc[e] = "idle" /\ ~Fresh(e)
  /\ Forget(e, by[e])
  /\ UNCHANGED <<disk, faults, patched>>

------------------------------------------------------------------------------
Work(e) ==
  \/ Load(e) \/ Scan(e) \/ Detect(e) \/ Embed(e) \/ PersistNothing(e) \/ Persist(e)
  \/ \E p \in Paths : Apply(e, p)

Ask(e) == Initialize(e) \/ ReindexFull(e) \/ ReindexChanged(e)

Next ==
  \/ \E p \in Paths : LinkNote(p) \/ \E text \in Files : WriteNote(p, text)
  \/ \E p \in Paths : HandleVaultChange(p)
  \/ \E t \in Timers : FlushPending(t) \/ ReindexTold(t)
  \/ \E e \in Engines : Ask(e) \/ Work(e) \/ Exit(e) \/ Fail(e) \/ \E m \in Embedders : Restart(e, m)

Spec == Init /\ [][Next]_vars

(* A running job goes on, and a thread that waits for the lock gets it in the
   end though others take it in between: nobody has to ask for a job, though. *)
FairSpec ==
  /\ Spec
  /\ \A e \in Engines : WF_vars(Work(e))
  /\ \A p \in Paths : SF_vars(HandleVaultChange(p))
  /\ SF_vars(\E t \in Timers : FlushPending(t))
  /\ \A t \in Timers : SF_vars(ReindexTold(t))

------------------------------------------------------------------------------
(* Properties *)

(* An engine that answers a search: it has the lock to itself. *)
Answers(e) == pc[e] = "idle" /\ available[e] /\ mem[e].index # None

LinesUp(m) ==
  /\ Len(m.index) = Len(m.chunks)
  /\ \A i \in DOMAIN m.chunks : m.index[i].of = m.chunks[i]
  /\ \E model \in Embedders : \A i \in DOMAIN m.index : m.index[i].by = model

(* search() takes row i of the index for chunk i (engine.py:663-675).  So it is
   wherever vectors are kept from one run to the next and whatever the store
   was loaded from: each row is the vector of its chunk as it reads now, and
   one model made all of them.  Only these take that away: a failure between the
   chunks and their vectors, a store that was not written to its end, and one that
   another engine says is of this embedder while this one holds vectors of another.
   The next run that embeds everything gives it back.                          *)
RowsMatchChunks == \A e \in Engines : Answers(e) /\ ~unaligned[e] => LinesUp(mem[e])

Tells(m) ==
  \A p \in Paths :
    LET of == {i \in DOMAIN m.chunks : m.chunks[i].path = p}
        text == ChunksOf(p, m.manifest[p])
    IN
    /\ {m.chunks[i] : i \in of} = {text[n] : n \in DOMAIN text}
    /\ \A i \in of, j \in of : i < j => m.chunks[i].n < m.chunks[j].n
    /\ m.paths[p] = Len(text)

(* What the manifest says is indexed is what is: the chunks of a note are those
   of the text whose hash the manifest has, in order, and the path index names
   each of them and no other.  An incremental run finds what to do, and what to
   remove, by these two alone (engine.py:396, :427).  A store not of one piece
   breaks it until everything is rebuilt.                                       *)
ManifestTellsChunks == \A e \in Engines : pc[e] # "load" /\ ~torn[e] => Tells(mem[e])

Follows(p) == mem[Server].manifest[p] = Found(p)

(* VAULT_SEMANTIC_AUTO_REINDEX (configuration.md:133): a note the server was
   told of is found by what it says now, once the vault is left alone, however
   its callbacks, flushes and reindex runs interleaved and whoever else uses
   the store; except that an engine without a chunk is misled by the store it finds. *)
CatchesUp == <>[](ready[Server] => \A p \in Paths : Follows(p) \/ p \in missed \cup misled)
==============================================================================
