------------------------------ MODULE ToolCalls ------------------------------
(***************************************************************************)
(* What the server does around a tool call (_run_logged_tool): snapshots of *)
(* the files it names, the call, one audit record or one per file of a      *)
(* batch, and the post-write hook that waits in the request's context for   *)
(* its record.  Tools that write run on the event loop, one at a time; a    *)
(* read runs in a worker thread; Obsidian and a sync client change the      *)
(* files at any time.  A hook command and an audit log are configured.      *)
(* A text is told apart by the call that wrote it.                          *)
(* Left out: a move, whose record has the snapshot of its source as the one *)
(* before, and vault_edit, which queues no hook.                            *)
(***************************************************************************)
EXTENDS Naturals, FiniteSets

CONSTANTS
  Calls,       \* tool calls, each in a request and a context of its own
  Paths,
  Other,       \* a text nobody here wrote
  None,        \* no file, no path, no record
  ReadsOn,     \* VAULT_AUDIT_LOG_INCLUDE_READS
  MaxChanges, MaxCallFaults   \* bounds

ASSUME CallsAssumption == {Other, None} \cap Calls = {} /\ Other # None /\ None \notin Paths
ASSUME ReadsOnAssumption == ReadsOn \in BOOLEAN
ASSUME BoundsAssumption == MaxChanges \in Nat /\ MaxCallFaults \in Nat

VARIABLES
  file,      \* what each path holds
  pc,        \* idle, run, record, over
  kind,      \* listed or batch (MUTATION_OPERATIONS), unlisted, read
  named,     \* the paths a call names
  before,    \* their snapshots
  outcome,   \* what the tool answered: ok, error, raise
  failing,   \* paths its answer reports as failed
  left,      \* what is still to be recorded: paths, or None for the whole call
  pending,   \* whether a hook waits in the context
  answer,    \* what the client gets: ok, error, or the text of an exception
  log,       \* the records
  hooks,     \* the hooks that were started, with the record on their stdin
  \* History.
  wrote,     \* paths a call wrote
  touched,   \* paths others changed while it ran
  unlogged,  \* calls with a record that could not be appended
  spoilt,    \* calls with a snapshot that raised
  changes, callFaults

call    == <<pc, kind, named, before, outcome, failing, left, pending, answer>>
history == <<wrote, touched, unlogged, spoilt, changes, callFaults>>
callsVars    == <<file, call, log, hooks, history>>

Kinds == {"listed", "batch", "unlisted", "read"}
Mutations == {"listed", "batch"}

CallsInit ==
  /\ file \in [Paths -> {None, Other}]
  /\ pc = [c \in Calls |-> "idle"] /\ kind = [c \in Calls |-> "read"]
  /\ named = [c \in Calls |-> {}] /\ before = [c \in Calls |-> [p \in Paths |-> None]]
  /\ outcome = [c \in Calls |-> "ok"] /\ failing = [c \in Calls |-> {}]
  /\ left = [c \in Calls |-> {}] /\ pending = [c \in Calls |-> FALSE]
  /\ answer = [c \in Calls |-> "none"]
  /\ log = {} /\ hooks = {}
  /\ wrote = [c \in Calls |-> {}] /\ touched = [c \in Calls |-> {}]
  /\ unlogged = {} /\ spoilt = {} /\ changes = 0 /\ callFaults = 0

Busy(c) == pc[c] \in {"run", "record"}
Fault == callFaults < MaxCallFaults /\ callFaults' = callFaults + 1

(* should_audit_operation. *)
Audited(k) == k \in Mutations \/ (k = "read" /\ ReadsOn)

------------------------------------------------------------------------------
ChangeFile(p, text) ==
  /\ changes < MaxChanges /\ changes' = changes + 1
  /\ text # file[p] /\ file' = [file EXCEPT ![p] = text]
  /\ touched' = [c \in Calls |-> IF Busy(c) THEN touched[c] \cup {p} ELSE touched[c]]
  /\ UNCHANGED <<call, log, hooks, wrote, unlogged, spoilt, callFaults>>

(* The call begins: a mutation keeps the event loop to its end. *)
Begin(c, k, paths) ==
  /\ pc[c] = "idle"
  /\ k # "read" => \A d \in Calls : Busy(d) => kind[d] = "read"
  /\ paths # {} /\ (k # "batch" => Cardinality(paths) = 1)
  /\ kind' = [kind EXCEPT ![c] = k] /\ named' = [named EXCEPT ![c] = paths]
  /\ before' = [before EXCEPT ![c] =
                  [p \in Paths |-> IF k \in Mutations /\ p \in paths THEN file[p] ELSE None]]
  /\ pc' = [pc EXCEPT ![c] = "run"]
  /\ UNCHANGED <<file, outcome, failing, left, pending, answer, log, hooks, history>>

(* What is left to record: of a batch that answers, each of its paths. *)
ToRecord(c, how) ==
  IF ~Audited(kind[c]) THEN {}
  ELSE IF kind[c] = "batch" THEN IF how = "ok" THEN named[c] ELSE {None} ELSE named[c]

(* The tool runs.  It may have written what it reports as failed (the text could
   not be verified); the hook is queued for what it reports as written.          *)
Run(c, how, writes, fails) ==
  /\ pc[c] = "run"
  /\ writes \subseteq (IF kind[c] = "read" THEN {} ELSE named[c])
  /\ fails \subseteq (IF how = "ok" THEN IF kind[c] = "batch" THEN named[c] ELSE {} ELSE named[c])
  /\ how # "ok" => fails = named[c]
  /\ file' = [p \in Paths |-> IF p \in writes THEN c ELSE file[p]]
  /\ wrote' = [wrote EXCEPT ![c] = writes]
  /\ touched' = [d \in Calls |-> IF d # c /\ Busy(d) THEN touched[d] \cup writes ELSE touched[d]]
  /\ outcome' = [outcome EXCEPT ![c] = how] /\ failing' = [failing EXCEPT ![c] = fails]
  /\ pending' = [pending EXCEPT ![c] = writes \ fails # {}]
  /\ left' = [left EXCEPT ![c] = ToRecord(c, how)]
  /\ pc' = [pc EXCEPT ![c] = "record"]
  /\ UNCHANGED <<kind, named, before, answer, log, hooks, unlogged, spoilt, changes, callFaults>>

(* A batch is recorded as its call ended. *)
StatusOfTheCall(c, p) == IF outcome[c] = "ok" THEN "success" ELSE "error"

(* operation_status: of each path of a batch, of the call for any other. *)
Status(c, p) == IF p \in failing[c] \/ outcome[c] # "ok" THEN "error" ELSE "success"

(* Whether a snapshot is taken for a record: not of a path of a batch that failed,
   of a batch as a whole, and of a read that raised.                              *)
Looks(c, p) ==
  /\ p # None
  /\ kind[c] = "batch" => Status(c, p) = "success"
  /\ kind[c] = "read" => outcome[c] # "raise"

(* build_audit_record: a read is recorded as it was found. *)
RecordOf(c, p) ==
  LET now == IF Looks(c, p) THEN file[p] ELSE None IN
  [call |-> c, path |-> p, status |-> Status(c, p),
   before |-> IF kind[c] = "read" THEN now ELSE IF p = None THEN None ELSE before[c][p],
   after  |-> IF kind[c] = "read" THEN None ELSE now]

(* write_audit_record: an append that fails is counted, and changes nothing else. *)
AppendRecord(c, p) ==
  /\ pc[c] = "record" /\ p \in left[c]
  /\ \/ log' = log \cup {RecordOf(c, p)} /\ UNCHANGED <<unlogged, callFaults>>
     \/ Fault /\ unlogged' = unlogged \cup {c} /\ UNCHANGED log
  /\ IF kind[c] \in Mutations /\ left[c] = {p}
     THEN /\ hooks' = IF pending[c]
                      THEN hooks \cup {[call |-> c, record |-> IF kind[c] = "batch" THEN None
                                                              ELSE RecordOf(c, p)]}
                      ELSE hooks
          /\ pending' = [pending EXCEPT ![c] = FALSE]
     ELSE UNCHANGED <<hooks, pending>>
  /\ left' = [left EXCEPT ![c] = @ \ {p}]
  /\ UNCHANGED <<file, pc, kind, named, before, outcome, failing, answer, wrote, touched, spoilt, changes>>

(* The answer goes out; a hook that still waits is dropped. *)
Finish(c) ==
  /\ pc[c] = "record" /\ left[c] = {}
  /\ pending' = [pending EXCEPT ![c] = FALSE]
  /\ answer' = [answer EXCEPT ![c] = IF outcome[c] = "raise" THEN "exception" ELSE outcome[c]]
  /\ pc' = [pc EXCEPT ![c] = "over"]
  /\ UNCHANGED <<file, kind, named, before, outcome, failing, left, log, hooks, history>>

(* snapshot_path raises: the file is gone between two of its looks at it, or may
   not be read.  Nothing catches it: before the call nothing has happened yet,
   after it the record, the hook and the answer of the tool are gone.            *)
SnapshotRaises(c) ==
  /\ \/ pc[c] = "run" /\ kind[c] \in Mutations
     \/ pc[c] = "record" /\ \E p \in left[c] : Looks(c, p)
  /\ Fault
  /\ spoilt' = spoilt \cup {c}
  /\ answer' = [answer EXCEPT ![c] = "exception"]
  /\ pc' = [pc EXCEPT ![c] = "over"]
  /\ UNCHANGED <<file, kind, named, before, outcome, failing, left, pending, log, hooks,
                 wrote, touched, unlogged, changes>>

CallsNext ==
  \/ \E p \in Paths, text \in {None, Other} : ChangeFile(p, text)
  \/ \E c \in Calls :
       \/ \E k \in Kinds, paths \in SUBSET Paths : Begin(c, k, paths)
       \/ \E how \in {"ok", "error", "raise"}, writes, fails \in SUBSET Paths :
            Run(c, how, writes, fails)
       \/ \E p \in Paths \cup {None} : AppendRecord(c, p)
       \/ Finish(c) \/ SnapshotRaises(c)

CallsSpec == CallsInit /\ [][CallsNext]_callsVars

------------------------------------------------------------------------------
(* Properties *)

(* The log accounts for what the tools did, file by file, for batches that fail in
   part, failed appends and files that others change meanwhile: when a call is over,
   each path it wrote with success has a record of success, no other path has, what
   a record has after is what the call wrote, and a record with two different texts
   is of a path that was written, or changed by another.  And its hook has started,
   with no record but its own.                                                     *)
LogAccountsForWrites ==
  \A c \in Calls : pc[c] = "over" /\ kind[c] \in Mutations /\ c \notin spoilt =>
    LET mine == {r \in log : r.call = c}
        done == IF outcome[c] = "ok" THEN named[c] \ failing[c] ELSE {} IN
    /\ c \notin unlogged => {r.path : r \in {s \in mine : s.status = "success"}} = done
    /\ \A r \in mine : r.path # None =>
         /\ r.status = "success" => r.path \in done
         /\ r.status = "success" /\ r.path \in wrote[c] => r.after = c \/ r.path \in touched[c]
         /\ r.status = "success" /\ r.after # r.before => r.path \in wrote[c] \cup touched[c]
    /\ done \cap wrote[c] # {} <=> \E h \in hooks : h.call = c
    /\ \A h \in hooks : h.call = c /\ h.record # None => h.record.call = c
==============================================================================
