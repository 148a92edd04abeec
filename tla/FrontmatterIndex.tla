-------------------------- MODULE FrontmatterIndex ---------------------------
(***************************************************************************)
(* The index of frontmatter (frontmatter_index.py): built by one walk of    *)
(* the vault, then kept up to date by file events, which are debounced and  *)
(* flushed by timer threads, and by the tools, which refresh what they      *)
(* write before they answer.  A lock makes each access to the index atomic; *)
(* looking at a file and reading it happens outside of it, so that threads  *)
(* overlap.  What a file says is told apart by its frontmatter alone.  An   *)
(* event's action is left out: an update looks at the file itself.          *)
(***************************************************************************)
EXTENDS Naturals, Sequences

CONSTANTS
  Paths,       \* the .md files of the vault
  Contents,    \* readable frontmatter
  Unreadable,  \* a file whose frontmatter cannot be parsed
  None,        \* no file, no entry, no timer, no path
  Timers,      \* debounce threads: bounds how many are at work at once
  Writers,     \* threads tools write from: the event loop, the scheduler
  MaxChanges   \* bound on the changes to the vault

ASSUME ContentsAssumption == None \notin Contents /\ Unreadable \notin Contents \cup {None}
ASSUME PathsAssumption == None \notin Paths
ASSUME ThreadsAssumption == Timers \cap Writers = {} /\ None \notin Timers \cup Writers
ASSUME MaxChangesAssumption == MaxChanges \in Nat

Threads == Timers \cup Writers

VARIABLES
  \* The vault.
  file,      \* what each file holds
  refused,   \* files with extra hard links (symlinks are left out)
  changes,
  \* The index and its watcher.
  index,     \* _index: the frontmatter of each entry
  toWalk,    \* files start() has not come to yet
  watching,  \* the observer is running
  events,    \* its queue: <<path, kind>>, oldest first
  pending,   \* _pending_paths
  debounce,  \* _debounce_timer
  \* The threads.
  pc,
  batch,     \* paths a thread has still to update
  at,        \* the path it is updating
  seen,      \* what it will enter for it
  \* History.
  wrote,     \* the files a tool changed and refreshes, while nobody else changed them
  edited,    \* the file vault_edit wrote, likewise
  latest,    \* the thread that was the last to look at each file
  overtaken, \* files whose entry was set by another thread than that
  unnoticed  \* files not looked at since a change that calls for no update

vault   == <<file, refused, changes>>
watcher == <<events, pending, debounce>>
threads == <<pc, batch, at, seen>>
history == <<wrote, edited, latest, overtaken, unnoticed>>
vars    == <<vault, index, toWalk, watching, watcher, threads, history>>

Files == Contents \cup {Unreadable, None}
Entries == Contents \cup {None}
Kinds == {"changed", "deleted"}
Tools == {"updating", "moving", "removing"}
Steps == {"idle", "armed", "fired", "next", "parse", "put", "answered"} \cup Tools

Init ==
  /\ file \in [Paths -> Files]
  /\ refused \in SUBSET {p \in Paths : file[p] # None}
  /\ changes = 0
  /\ index = [p \in Paths |-> None]
  /\ toWalk = Paths /\ watching = FALSE
  /\ events = <<>> /\ pending = {} /\ debounce = None
  /\ pc = [t \in Threads |-> "idle"]
  /\ batch = [t \in Threads |-> {}]
  /\ at = [t \in Threads |-> None] /\ seen = [t \in Threads |-> None]
  /\ wrote = [w \in Writers |-> {}] /\ edited = [w \in Writers |-> {}]
  /\ latest = [p \in Paths |-> None] /\ overtaken = {} /\ unnoticed = {}

(* None for a file that is not there, and what cannot be parsed entered as it is. *)
ParsedAsIs(p) == file[p]

(* The entry the file ought to have. *)
Parsed(p) == IF file[p] \in Contents THEN file[p] ELSE None
Due(p) == IF p \in refused THEN None ELSE Parsed(p)

------------------------------------------------------------------------------
(* start(), on the event loop: nothing else of the server runs yet. *)

(* The walk comes to p, and reads it unless it has links. *)
Walk(p) ==
  /\ p \in toWalk
  /\ toWalk' = toWalk \ {p}
  /\ index' = [index EXCEPT ![p] = Due(p)]
  /\ UNCHANGED <<vault, watching, watcher, threads, history>>

(* The observer starts.  What changed since the walk came by is not noticed. *)
Watch ==
  /\ toWalk = {} /\ ~watching
  /\ watching' = TRUE
  /\ unnoticed' = {p \in Paths : index[p] # Due(p)}
  /\ UNCHANGED <<vault, index, toWalk, watcher, threads, wrote, edited, latest, overtaken>>

------------------------------------------------------------------------------
(* The vault changes. *)

(* The observer's queue after file p has come to hold content. *)
Noticed(p, content) ==
  IF watching
  THEN Append(events, <<p, IF content = None THEN "deleted" ELSE "changed">>)
  ELSE events

(* What the writers remember when somebody changes the files ps. *)
Forget(ps, memory) == [w \in Writers |-> memory[w] \ ps]

(* Obsidian, a sync client or a script. *)
OtherWriter(p, content) ==
  /\ changes < MaxChanges /\ changes' = changes + 1
  /\ content = None => file[p] # None
  /\ file' = [file EXCEPT ![p] = content]
  /\ refused' = IF content = None THEN refused \ {p} ELSE refused
  /\ events' = Noticed(p, content)
  /\ wrote' = Forget({p}, wrote) /\ edited' = Forget({p}, edited)
  /\ UNCHANGED <<index, toWalk, watching, pending, debounce, threads, latest, overtaken, unnoticed>>

(* A file gains its second link, or loses it: that is an event of another
   directory entry, if it is one of the vault at all.                        *)
Link(p) ==
  /\ changes < MaxChanges /\ changes' = changes + 1
  /\ file[p] # None
  /\ refused' = (refused \cup {p}) \ (refused \cap {p})
  /\ unnoticed' = IF watching THEN unnoticed \cup {p} ELSE unnoticed
  /\ wrote' = Forget({p}, wrote) /\ edited' = Forget({p}, edited)
  /\ UNCHANGED <<file, index, toWalk, watching, watcher, threads, latest, overtaken>>

(* refuse_frontmatter_breakage: no tool makes a readable file unreadable. *)
Writable(p, content) == content = Unreadable => file[p] = Unreadable

(* The writer is free, or in the middle of a tool that changes several files. *)
MayChange(w, tool) ==
  /\ changes < MaxChanges /\ changes' = changes + 1
  /\ watching /\ pc[w] \in {"idle", "answered", tool}

(* Of several files only the last is remembered. *)
OwesLast(w, ps, step) ==
  /\ pc' = [pc EXCEPT ![w] = step]
  /\ batch' = [batch EXCEPT ![w] = ps]
  /\ wrote' = [Forget(ps, wrote) EXCEPT ![w] = IF pc[w] = step THEN @ \cup ps ELSE ps]
  /\ edited' = [Forget(ps, edited) EXCEPT ![w] = {}]

(* The tool of w has changed the files ps, whose entries it has yet to refresh. *)
Owes(w, ps, step) ==
  /\ pc' = [pc EXCEPT ![w] = step]
  /\ batch' = [batch EXCEPT ![w] = @ \cup ps]
  /\ wrote' = [Forget(ps, wrote) EXCEPT ![w] = IF pc[w] = step THEN @ \cup ps ELSE ps]
  /\ edited' = [Forget(ps, edited) EXCEPT ![w] = {}]

(* A tool creates or replaces one file. *)
Write(w, p, content) ==
  /\ MayChange(w, "idle")
  /\ content # None /\ Writable(p, content)
  /\ file' = [file EXCEPT ![p] = content]
  /\ refused' = refused \ {p}
  /\ events' = Noticed(p, content)
  /\ Owes(w, {p}, "next")
  /\ UNCHANGED <<index, toWalk, watching, pending, debounce, at, seen, latest, overtaken, unnoticed>>

(* The tools that update several files replace one after the other; those that fail
   are left out.                                                                     *)
BatchWrite(w, p, content) ==
  /\ MayChange(w, "updating")
  /\ p \notin refused /\ file[p] # None /\ content # None /\ Writable(p, content)
  /\ file' = [file EXCEPT ![p] = content]
  /\ events' = Noticed(p, content)
  /\ Owes(w, {p}, "updating")
  /\ UNCHANGED <<refused, index, toWalk, watching, pending, debounce, at, seen,
                 latest, overtaken, unnoticed>>

(* vault_move: a file, or one of the files of a directory, to where there is none; its
   links go with it.                                                                 *)
Move(w, p, q) ==
  /\ MayChange(w, "moving")
  /\ file[p] # None /\ file[q] = None
  /\ file' = [file EXCEPT ![p] = None, ![q] = file[p]]
  /\ refused' = IF p \in refused THEN (refused \ {p}) \cup {q} ELSE refused
  /\ events' = Append(Noticed(p, None), <<q, "changed">>)
  /\ Owes(w, {p, q}, "moving")
  /\ UNCHANGED <<index, toWalk, watching, pending, debounce, at, seen, latest, overtaken, unnoticed>>

(* vault_delete and vault_delete_directory: a file goes to the trash, alone or with the
   other files of its directory.                                                     *)
Remove(w, p) ==
  /\ MayChange(w, "removing")
  /\ file[p] # None
  /\ file' = [file EXCEPT ![p] = None]
  /\ refused' = refused \ {p}
  /\ events' = Noticed(p, None)
  /\ Owes(w, {p}, "removing")
  /\ UNCHANGED <<index, toWalk, watching, pending, debounce, at, seen, latest, overtaken, unnoticed>>

(* All its files are changed: the tool goes on to refresh their entries. *)
Refresh(w) ==
  /\ pc[w] \in Tools
  /\ pc' = [pc EXCEPT ![w] = "next"]
  /\ UNCHANGED <<vault, index, toWalk, watching, watcher, batch, at, seen, history>>

(* vault_edit: replaces the file and answers. *)
Edit(w, p, content) ==
  /\ MayChange(w, "idle")
  /\ p \notin refused /\ file[p] # None /\ content # None /\ Writable(p, content)
  /\ file' = [file EXCEPT ![p] = content]
  /\ events' = Noticed(p, content)
  /\ pc' = [pc EXCEPT ![w] = "answered"]
  /\ wrote' = [Forget({p}, wrote) EXCEPT ![w] = {}]
  /\ edited' = [Forget({p}, edited) EXCEPT ![w] = {p}]
  /\ UNCHANGED <<refused, index, toWalk, watching, pending, debounce, batch, at, seen,
                 latest, overtaken, unnoticed>>

------------------------------------------------------------------------------
(* Events, and the debounce timer. *)

(* A timer that a new one replaces is cancelled, which it hears of only while
   it waits.                                                                  *)
Rearmed(n) ==
  [t \in Threads |->
     IF t = n THEN "armed"
     ELSE IF t = debounce /\ pc[t] = "armed" THEN "idle" ELSE pc[t]]

(* A new timer started only where there was none to cancel. *)
CancelWithoutStart(p, n) ==
  /\ pc[n] = "idle"
  /\ pending' = pending \cup {p}
  /\ debounce' = n
  /\ pc' = IF debounce = None THEN Rearmed(n) ELSE [Rearmed(n) EXCEPT ![n] = "idle"]

(* _schedule_debounce: under the lock, in the observer's thread. *)
Schedule(p, n) ==
  /\ pc[n] = "idle"
  /\ pending' = pending \cup {p}
  /\ debounce' = n
  /\ pc' = Rearmed(n)

(* The handler of an event: changes of linked files are left alone. *)
Dispatch(n) ==
  /\ events # <<>>
  /\ events' = Tail(events)
  /\ LET p == Head(events)[1] IN
     IF Head(events)[2] = "changed" /\ p \in refused
     THEN /\ unnoticed' = unnoticed \cup {p}
          /\ UNCHANGED <<pending, debounce, pc>>
     ELSE /\ Schedule(p, n)
          /\ UNCHANGED unnoticed
  /\ UNCHANGED <<vault, index, toWalk, watching, batch, at, seen,
                 wrote, edited, latest, overtaken>>

(* The interval is over: from here on the timer cannot be cancelled. *)
Fire(n) ==
  /\ pc[n] = "armed"
  /\ pc' = [pc EXCEPT ![n] = "fired"]
  /\ UNCHANGED <<vault, index, toWalk, watching, watcher, batch, at, seen, history>>

(* The batch is copied, and the pending paths cleared only when it is done. *)
TakeWithoutClearing(n) ==
  /\ pc[n] = "fired"
  /\ batch' = [batch EXCEPT ![n] = pending]
  /\ debounce' = None
  /\ pc' = [pc EXCEPT ![n] = IF pending = {} THEN "idle" ELSE "next"]
  /\ UNCHANGED <<vault, index, toWalk, watching, events, pending, at, seen, history>>

(* _flush_pending under the lock. *)
TakePending(n) ==
  /\ pc[n] = "fired"
  /\ batch' = [batch EXCEPT ![n] = pending]
  /\ pending' = {} /\ debounce' = None
  /\ pc' = [pc EXCEPT ![n] = IF pending = {} THEN "idle" ELSE "next"]
  /\ UNCHANGED <<vault, index, toWalk, watching, events, at, seen, history>>

------------------------------------------------------------------------------
(* _apply_single_path_update, in whatever thread. *)

(* The next path of the batch: a linked or missing file loses its entry. *)
Look(t, p) ==
  /\ pc[t] = "next" /\ p \in batch[t]
  /\ batch' = [batch EXCEPT ![t] = @ \ {p}]
  /\ at' = [at EXCEPT ![t] = p]
  /\ IF p \in refused \/ file[p] = None
     THEN pc' = [pc EXCEPT ![t] = "put"] /\ seen' = [seen EXCEPT ![t] = None]
     ELSE pc' = [pc EXCEPT ![t] = "parse"] /\ UNCHANGED seen
  /\ latest' = [latest EXCEPT ![p] = t]
  /\ unnoticed' = unnoticed \ {p}
  /\ UNCHANGED <<vault, index, toWalk, watching, watcher, wrote, edited, overtaken>>

(* The file is read; it may be gone by now, and is then taken for unreadable. *)
Parse(t) ==
  /\ pc[t] = "parse"
  /\ pc' = [pc EXCEPT ![t] = "put"]
  /\ seen' = [seen EXCEPT ![t] = Parsed(at[t])]
  /\ UNCHANGED <<vault, index, toWalk, watching, watcher, batch, at, history>>

Finished(t) == IF t \in Timers THEN "idle" ELSE "answered"

(* An unreadable file leaves the entry it had. *)
PutReadable(t) ==
  /\ pc[t] = "put"
  /\ index' = IF seen[t] = None THEN index ELSE [index EXCEPT ![at[t]] = seen[t]]
  /\ pc' = [pc EXCEPT ![t] = IF batch[t] = {} THEN Finished(t) ELSE "next"]
  /\ overtaken' = IF latest[at[t]] = t THEN overtaken \ {at[t]} ELSE overtaken \cup {at[t]}
  /\ at' = [at EXCEPT ![t] = None] /\ seen' = [seen EXCEPT ![t] = None]
  /\ UNCHANGED <<vault, toWalk, watching, watcher, batch, wrote, edited, latest, unnoticed>>

(* The entry is set or dropped under the lock, and the listeners are told. *)
Put(t) ==
  /\ pc[t] = "put"
  /\ index' = [index EXCEPT ![at[t]] = seen[t]]
  /\ pc' = [pc EXCEPT ![t] = IF batch[t] = {} THEN Finished(t) ELSE "next"]
  /\ overtaken' = IF latest[at[t]] = t THEN overtaken \ {at[t]} ELSE overtaken \cup {at[t]}
  /\ at' = [at EXCEPT ![t] = None] /\ seen' = [seen EXCEPT ![t] = None]
  /\ UNCHANGED <<vault, toWalk, watching, watcher, batch, wrote, edited, latest, unnoticed>>

Update(t) == (\E p \in Paths : Look(t, p)) \/ Parse(t) \/ Put(t)

Next ==
  \/ \E p \in Paths : Walk(p)
  \/ Watch
  \/ \E p \in Paths, content \in Files : OtherWriter(p, content)
  \/ \E p \in Paths : Link(p)
  \/ \E w \in Writers, p \in Paths, content \in Files :
       Write(w, p, content) \/ BatchWrite(w, p, content) \/ Edit(w, p, content)
  \/ \E w \in Writers, p, q \in Paths : Move(w, p, q)
  \/ \E w \in Writers, p \in Paths : Remove(w, p)
  \/ \E w \in Writers : Refresh(w)
  \/ \E n \in Timers : Dispatch(n) \/ Fire(n) \/ TakePending(n)
  \/ \E t \in Threads : Update(t)

Spec == Init /\ [][Next]_vars

(* Threads keep running; nobody has to change the vault. *)
Fairness ==
  /\ WF_vars(Watch \/ \E p \in Paths : Walk(p))
  /\ WF_vars(\E n \in Timers : Dispatch(n))
  /\ \A n \in Timers : WF_vars(Fire(n) \/ TakePending(n))
  /\ \A t \in Threads : WF_vars(Update(t))
  /\ \A w \in Writers : WF_vars(Refresh(w))

FairSpec == Spec /\ Fairness

------------------------------------------------------------------------------
(* Properties. *)

(* Every variable holds what its comment says. *)
TypeOK ==
  /\ file \in [Paths -> Files] /\ refused \subseteq Paths /\ changes \in 0..MaxChanges
  /\ index \in [Paths -> Entries] /\ toWalk \subseteq Paths /\ watching \in BOOLEAN
  /\ events \in Seq(Paths \X Kinds) /\ pending \subseteq Paths
  /\ debounce \in Timers \cup {None}
  /\ pc \in [Threads -> Steps]
  /\ batch \in [Threads -> SUBSET Paths]
  /\ at \in [Threads -> Paths \cup {None}] /\ seen \in [Threads -> Entries]
  /\ wrote \in [Writers -> SUBSET Paths] /\ edited \in [Writers -> SUBSET Paths]
  /\ latest \in [Paths -> Threads \cup {None}] /\ overtaken \subseteq Paths /\ unnoticed \subseteq Paths

(* A path that has been scheduled has a timer that will come for it, however
   timers are cancelled, fire late or run into each other.                    *)
PendingHasTimer ==
  pending # {} => \E n \in Timers : pc[n] \in {"armed", "fired"}

(* An update of p is called for. *)
CalledFor(p) ==
  \/ \E i \in 1..Len(events) : events[i][1] = p
  \/ p \in pending
  \/ \E t \in Threads : p \in batch[t]

(* Thread t is updating p, and what it will enter is what p calls for now. *)
OnCourse(t, p) ==
  /\ at[t] = p
  /\ \/ pc[t] = "parse" /\ p \notin refused
     \/ pc[t] = "put" /\ seen[t] = Due(p)

(* An entry is what its file says, or an update is called for or under way, except
   where a thread entered a reading of the file after another had begun a later
   one, and where the file changed unnoticed: between the walk and the start of
   the observer, or by gaining its second link or losing it.                    *)
FreshOrComing ==
  watching => \A p \in Paths :
    \/ index[p] = Due(p) \/ p \in overtaken \/ p \in unnoticed
    \/ CalledFor(p) \/ \E t \in Threads : OnCourse(t, p)

(* "Read-after-write consistency even before watchdog debounce events have
   fired": when a tool has answered, queries see every file as it wrote, moved or
   removed it until somebody changes that file again, whatever old readings other
   threads enter meanwhile, unless one of them was begun before its own and entered
   after it.                                                                     *)
AnswerIsFresh ==
  \A w \in Writers :
    pc[w] = "answered" => \A p \in wrote[w] : index[p] = Due(p) \/ p \in overtaken

(* "Edits, moves, deletes, and renames refresh the index immediately". *)
EditIsFresh ==
  \A w \in Writers :
    pc[w] = "answered" => \A p \in edited[w] : index[p] = Due(p) \/ p \in overtaken

(* Nothing is under way. *)
Settled ==
  /\ watching /\ events = <<>> /\ pending = {}
  /\ \A t \in Threads : pc[t] \in {"idle", "answered"}

(* When the vault is left alone, every event is dispatched and every pending path
   is flushed.  (While it is not, each event puts off the flush.)                *)
QuietSettles == <>[][FALSE]_<<file, refused>> => <>[]Settled
==============================================================================
