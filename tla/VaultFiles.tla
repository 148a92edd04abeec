----------------------------- MODULE VaultFiles ------------------------------
(***************************************************************************)
(* How the tools change the files of the vault: they stage a temp file and  *)
(* replace the target by it or, when they must not replace anything, link   *)
(* it there and remove the temp name; they move files, and delete them into *)
(* the trash.  Each step is one operation of the file system, and anybody's *)
(* may come between two of them.  Every writing makes a new version; what   *)
(* a version says is known by the versions whose text it still contains.    *)
(***************************************************************************)
EXTENDS Naturals

CONSTANTS
  Paths,        \* notes of one name, in different folders
  Loop,         \* the event loop, which runs the tools one at a time
  Scheduler,    \* the thread of the recurring scheduler
  Plain,        \* the name in the trash without a time
  None,         \* no file
  MaxVersions,  \* bound on the versions written
  MaxTime,      \* bound on the clock, in seconds
  MaxFaults     \* bound on disk errors and crashes

ASSUME ThreadsAssumption == Loop # Scheduler
ASSUME NamesAssumption == Plain \notin Nat /\ Paths \cap (Nat \cup {Plain}) = {}
                          /\ None \notin Paths \cup Nat \cup {Plain}
ASSUME BoundsAssumption == MaxVersions \in Nat /\ MaxTime \in Nat /\ MaxFaults \in Nat

Threads == {Loop, Scheduler}
Versions == 1..MaxVersions
Absent == 0
Stamps == 0..MaxTime \cup {Plain}

VARIABLES
  \* The disk.
  entry,     \* the version each path holds
  trash,     \* the version each name in the trash holds
  temp,      \* the version each thread's temp name holds
  orphans,   \* versions that an abandoned temp name still holds
  text,      \* the versions whose text each version contains
  written,   \* how many versions there are
  now,
  faults,
  \* The thread's tool.
  pc,
  kind,
  path,      \* the file it changes
  to,        \* where it moves it
  made,      \* the version it writes
  reply,
  \* History.
  placed,    \* the tool has changed the vault
  since      \* what others have put at its file or its destination since it looked

disk   == <<entry, trash, temp, orphans>>
world  == <<text, written, now, faults>>
thread == <<pc, kind, path, to, made, reply>>
past   == <<placed, since>>
vars   == <<disk, world, thread, past>>

(* vault_write, and vault_write_binary or an import that may overwrite; vault_create_note,
   and an import that may not; the tools that change a text, and those that create it, too;
   a template for a new note.                                                             *)
Overwriting == {"overwrite", "importOver"}
Exclusive == {"create", "import"}
Rewriting == {"amend", "append"}
Verified == {"overwrite", "create", "amend", "append", "template"}
Writings == Overwriting \cup Exclusive \cup Rewriting \cup {"template"}
(* The scheduler writes instances wherever they belong, and the dates into templates. *)
Kinds(t) == IF t = Loop THEN Writings ELSE {"overwrite", "amend"}

Init ==
  /\ entry = [p \in Paths |-> Absent] /\ trash = [s \in Stamps |-> Absent]
  /\ temp = [t \in Threads |-> Absent] /\ orphans = {}
  /\ text = [v \in Versions |-> {v}] /\ written = 0 /\ now = 0 /\ faults = 0
  /\ pc = [t \in Threads |-> "answered"] /\ kind = [t \in Threads |-> "none"]
  /\ path = [t \in Threads |-> None] /\ to = [t \in Threads |-> None]
  /\ made = [t \in Threads |-> Absent] /\ reply = [t \in Threads |-> "none"]
  /\ placed = [t \in Threads |-> FALSE] /\ since = [t \in Threads |-> {}]

(* has_extra_hard_links: the file at p has another name. *)
Linked(p) ==
  /\ entry[p] # Absent
  /\ entry[p] \in orphans \/ \E t \in Threads : temp[t] = entry[p]

(* The history once somebody has put v at p (t, or nobody here). *)
Disturb(t, p, v) ==
  [u \in Threads |-> IF u # t /\ p \in {path[u], to[u]} THEN since[u] \cup {v} ELSE since[u]]

(* The tool of t answers, and its locals are gone. *)
Answer(t, r) ==
  /\ pc' = [pc EXCEPT ![t] = "answered"] /\ reply' = [reply EXCEPT ![t] = r]
  /\ kind' = [kind EXCEPT ![t] = "none"] /\ made' = [made EXCEPT ![t] = Absent]
  /\ path' = [path EXCEPT ![t] = None] /\ to' = [to EXCEPT ![t] = None]

(* t is called for p, and perhaps q, and has looked at them. *)
Call(t, step, k, p, q, v) ==
  /\ pc[t] = "answered"
  /\ pc' = [pc EXCEPT ![t] = step] /\ reply' = [reply EXCEPT ![t] = "none"]
  /\ kind' = [kind EXCEPT ![t] = k] /\ made' = [made EXCEPT ![t] = v]
  /\ path' = [path EXCEPT ![t] = p] /\ to' = [to EXCEPT ![t] = q]
  /\ placed' = [placed EXCEPT ![t] = FALSE] /\ since' = [since EXCEPT ![t] = {}]

------------------------------------------------------------------------------
(* Writing. *)

(* The new text: that of the file as it is read now and some more, or all new. *)
Composed(k, p, v) ==
  IF k \in Rewriting /\ entry[p] # Absent THEN text[entry[p]] \cup {v} ELSE {v}

(* read_file refuses what is not there, and what has a second name. *)
ReadRefuses(k, p) ==
  k \in Rewriting /\ (Linked(p) \/ (k = "amend" /\ entry[p] = Absent))

(* What a tool reads, it reads before it writes anything; if it refuses, or finds a
   file where it was to put a new one, it answers and has changed nothing.          *)
Compose(t, k, p) ==
  /\ written < MaxVersions /\ written' = written + 1
  /\ k \in Kinds(t) /\ ~ReadRefuses(k, p) /\ (k \in {"import", "template"} => entry[p] = Absent)
  /\ text' = [text EXCEPT ![written + 1] = Composed(k, p, written + 1)]
  /\ Call(t, "stage", k, p, None, written + 1)
  /\ UNCHANGED <<disk, now, faults>>

(* mkstemp beside the target, and the text into it. *)
Stage(t) ==
  /\ pc[t] = "stage"
  /\ temp' = [temp EXCEPT ![t] = made[t]]
  /\ pc' = [pc EXCEPT ![t] = "place"]
  /\ UNCHANGED <<entry, trash, orphans, world, kind, path, to, made, reply, past>>

(* The disk refuses, or a check does; the temp file is removed. *)
WriteFails(t) ==
  /\ pc[t] \in {"stage", "place"}
  /\ faults < MaxFaults /\ faults' = faults + 1
  /\ temp' = [temp EXCEPT ![t] = Absent]
  /\ Answer(t, "failed")
  /\ UNCHANGED <<entry, trash, orphans, text, written, now, past>>

(* Tools that write without verification answer as soon as the file is there. *)
AnswerOrVerify(t) ==
  IF kind[t] \in Verified
  THEN pc' = [pc EXCEPT ![t] = "verify"] /\ UNCHANGED <<kind, path, to, made, reply>>
  ELSE Answer(t, "done")

(* os.replace. *)
Replace(t) ==
  /\ pc[t] = "place" /\ kind[t] \notin Exclusive
  /\ entry' = [entry EXCEPT ![path[t]] = made[t]]
  /\ temp' = [temp EXCEPT ![t] = Absent]
  /\ AnswerOrVerify(t)
  /\ placed' = [placed EXCEPT ![t] = TRUE]
  /\ since' = Disturb(t, path[t], made[t])
  /\ UNCHANGED <<trash, orphans, world>>

(* os.path.exists and os.replace in the place of os.link: what is there is replaced. *)
LinkByReplacing(t) ==
  /\ pc[t] = "place" /\ kind[t] \in Exclusive
  /\ entry' = [entry EXCEPT ![path[t]] = made[t]]
  /\ pc' = [pc EXCEPT ![t] = "unlink"]
  /\ placed' = [placed EXCEPT ![t] = TRUE]
  /\ since' = Disturb(t, path[t], made[t])
  /\ UNCHANGED <<trash, temp, orphans, world, kind, path, to, made, reply>>

(* os.link: the file has two names now. *)
Link(t) ==
  /\ pc[t] = "place" /\ kind[t] \in Exclusive /\ entry[path[t]] = Absent
  /\ entry' = [entry EXCEPT ![path[t]] = made[t]]
  /\ pc' = [pc EXCEPT ![t] = "unlink"]
  /\ placed' = [placed EXCEPT ![t] = TRUE]
  /\ since' = Disturb(t, path[t], made[t])
  /\ UNCHANGED <<trash, temp, orphans, world, kind, path, to, made, reply>>

(* os.link meets a file; the temp file is removed. *)
LinkRefused(t) ==
  /\ pc[t] = "place" /\ kind[t] \in Exclusive /\ entry[path[t]] # Absent
  /\ temp' = [temp EXCEPT ![t] = Absent]
  /\ Answer(t, "exists")
  /\ UNCHANGED <<entry, trash, orphans, world, past>>

(* The temp name is left for a later cleanup. *)
LeaveTemp(t) ==
  /\ pc[t] = "unlink"
  /\ AnswerOrVerify(t)
  /\ UNCHANGED <<disk, world, past>>

UnlinkTemp(t) ==
  /\ pc[t] = "unlink"
  /\ temp' = [temp EXCEPT ![t] = Absent]
  /\ AnswerOrVerify(t)
  /\ UNCHANGED <<entry, trash, orphans, world, past>>

(* The temp name cannot be removed, which is passed over. *)
UnlinkFails(t) ==
  /\ pc[t] = "unlink"
  /\ faults < MaxFaults /\ faults' = faults + 1
  /\ temp' = [temp EXCEPT ![t] = Absent] /\ orphans' = orphans \cup {temp[t]}
  /\ AnswerOrVerify(t)
  /\ UNCHANGED <<entry, trash, text, written, now, past>>

(* The file is there, whatever it says. *)
VerifyPresence(t) ==
  /\ pc[t] = "verify"
  /\ Answer(t, IF entry[path[t]] # Absent THEN "done" ELSE "failed")
  /\ UNCHANGED <<disk, world, past>>

(* The file is read back and compared, and the tool answers. *)
Verify(t) ==
  /\ pc[t] = "verify"
  /\ Answer(t, IF entry[path[t]] = made[t] /\ ~Linked(path[t]) THEN "done" ELSE "failed")
  /\ UNCHANGED <<disk, world, past>>

------------------------------------------------------------------------------
(* Moving and deleting, on the event loop. *)

(* move_path looks at both ends first, *)
Move(p, q) ==
  /\ p # q /\ entry[p] # Absent /\ entry[q] = Absent
  /\ Call(Loop, "rename", "move", p, q, Absent)
  /\ UNCHANGED <<disk, world>>

(* and the rename replaces what has come to be at the other. *)
Rename ==
  /\ pc[Loop] = "rename" /\ entry[path[Loop]] # Absent
  /\ entry' = [entry EXCEPT ![to[Loop]] = entry[path[Loop]], ![path[Loop]] = Absent]
  /\ Answer(Loop, "done")
  /\ placed' = [placed EXCEPT ![Loop] = TRUE]
  /\ since' = [u \in Threads |-> since[u] \cup
                 (Disturb(Loop, path[Loop], Absent)[u]
                    \cup Disturb(Loop, to[Loop], entry[path[Loop]])[u])]
  /\ UNCHANGED <<trash, temp, orphans, world>>

(* The second rounded up. *)
TrashNameAhead == IF trash[Plain] = Absent THEN Plain ELSE now + 1

(* delete_path names the file in the trash: with the time, if its name is taken. *)
TrashName == IF trash[Plain] = Absent THEN Plain ELSE now

Delete(p) ==
  /\ entry[p] # Absent
  /\ Call(Loop, "trash", "delete", p, TrashName, Absent)
  /\ UNCHANGED <<disk, world>>

(* The rename into the trash. *)
Trash ==
  /\ pc[Loop] = "trash" /\ entry[path[Loop]] # Absent
  /\ trash' = [trash EXCEPT ![to[Loop]] = entry[path[Loop]]]
  /\ entry' = [entry EXCEPT ![path[Loop]] = Absent]
  /\ Answer(Loop, "done")
  /\ placed' = [placed EXCEPT ![Loop] = TRUE]
  /\ since' = Disturb(Loop, path[Loop], Absent)
  /\ UNCHANGED <<temp, orphans, world>>

(* What was to be moved or deleted has gone meanwhile. *)
SourceGone ==
  /\ pc[Loop] \in {"rename", "trash"} /\ entry[path[Loop]] = Absent
  /\ Answer(Loop, "failed")
  /\ UNCHANGED <<disk, world, past>>

------------------------------------------------------------------------------
(* The world. *)

(* Obsidian, a sync client or a script: a new version, which may keep the old text. *)
OtherWriter(p, keep) ==
  /\ written < MaxVersions /\ written' = written + 1
  /\ keep => entry[p] # Absent
  /\ text' = [text EXCEPT ![written + 1] = IF keep THEN text[entry[p]] \cup {written + 1}
                                                   ELSE {written + 1}]
  /\ entry' = [entry EXCEPT ![p] = written + 1]
  /\ since' = [u \in Threads |-> IF p \in {path[u], to[u]} THEN since[u] \cup {written + 1}
                                                           ELSE since[u]]
  /\ UNCHANGED <<trash, temp, orphans, now, faults, thread, placed>>

(* The same, removing a file. *)
OtherRemoval(p) ==
  /\ entry[p] # Absent
  /\ entry' = [entry EXCEPT ![p] = Absent]
  /\ since' = [u \in Threads |-> IF p \in {path[u], to[u]} THEN since[u] \cup {Absent} ELSE since[u]]
  /\ UNCHANGED <<trash, temp, orphans, world, thread, placed>>

Tick ==
  /\ now < MaxTime /\ now' = now + 1
  /\ UNCHANGED <<disk, text, written, faults, thread, past>>

(* The process dies; temp names stay. *)
Crash ==
  /\ faults < MaxFaults /\ faults' = faults + 1
  /\ orphans' = orphans \cup ({temp[t] : t \in Threads} \ {Absent})
  /\ temp' = [t \in Threads |-> Absent]
  /\ pc' = [t \in Threads |-> "answered"] /\ reply' = [t \in Threads |-> "lost"]
  /\ kind' = [t \in Threads |-> "none"] /\ made' = [t \in Threads |-> Absent]
  /\ path' = [t \in Threads |-> None] /\ to' = [t \in Threads |-> None]
  /\ UNCHANGED <<entry, trash, text, written, now, past>>

Next ==
  \/ \E t \in Threads, k \in Writings, p \in Paths : Compose(t, k, p)
  \/ \E t \in Threads : Stage(t) \/ WriteFails(t) \/ Replace(t) \/ Link(t) \/ LinkRefused(t)
                        \/ UnlinkTemp(t) \/ UnlinkFails(t) \/ Verify(t)
  \/ \E p \in Paths, q \in Paths : Move(p, q)
  \/ \E p \in Paths : Delete(p)
  \/ Rename \/ Trash \/ SourceGone
  \/ \E p \in Paths, keep \in BOOLEAN : OtherWriter(p, keep)
  \/ \E p \in Paths : OtherRemoval(p)
  \/ Tick \/ Crash

Spec == Init /\ [][Next]_vars

------------------------------------------------------------------------------
(* Properties. *)

TypeOK ==
  /\ entry \in [Paths -> Versions \cup {Absent}] /\ trash \in [Stamps -> Versions \cup {Absent}]
  /\ temp \in [Threads -> Versions \cup {Absent}] /\ orphans \subseteq Versions
  /\ text \in [Versions -> SUBSET Versions] /\ written \in 0..MaxVersions
  /\ now \in 0..MaxTime /\ faults \in 0..MaxFaults
  /\ pc \in [Threads -> {"answered", "stage", "place", "unlink", "verify", "rename", "trash"}]
  /\ kind \in [Threads -> Writings \cup {"none", "move", "delete"}]
  /\ path \in [Threads -> Paths \cup {None}] /\ to \in [Threads -> Paths \cup Stamps \cup {None}]
  /\ made \in [Threads -> Versions \cup {Absent}]
  /\ reply \in [Threads -> {"none", "done", "exists", "failed", "lost"}]
  /\ placed \in [Threads -> BOOLEAN] /\ since \in [Threads -> SUBSET (Versions \cup {Absent})]

(* What can still be found in the vault or its trash. *)
TextsOf(versions) == UNION {text[v] : v \in versions \ {Absent}}
Kept == TextsOf({entry[p] : p \in Paths} \cup {trash[s] : s \in Stamps})

Acts(t, step) == pc[t] = step /\ pc'[t] # step /\ placed'[t]
Explained(c) ==
  \/ pc' = pc
  \/ \E t \in Threads : Acts(t, "place") /\ (kind[t] \in Overwriting \/ c \in TextsOf(since[t]))
  \/ Acts(Loop, "rename") /\ c \in TextsOf(since[Loop])
  \/ Acts(Loop, "trash") /\ to[Loop] # Plain /\ c \in TextsOf({trash[to[Loop]]})
(* Text disappears from the vault and its trash only
   - when somebody else removes or replaces it;
   - in a tool that was told to overwrite the file;
   - in a tool that read the file, or found its destination free, before the text
     came there (others write at any time, and no tool locks a file);
   - when a second file of the same name is deleted in the second of another.      *)
LossIsExplained == \A c \in Kept \ Kept' : Explained(c)
NoUnexplainedLoss == [][LossIsExplained]_vars

Answers(t, r) == pc[t] # "answered" /\ pc'[t] = "answered" /\ reply'[t] = r

TellsTheTruth(t) ==
  /\ Answers(t, "done") => placed'[t] /\ (pc[t] = "verify" => entry[path[t]] = made[t])
  /\ Answers(t, "exists") => ~placed'[t]

(* Success is reported for a change that was made and, where it is verified, is there
   when it is reported; "exists" when none was made.  An error tells neither.        *)
RepliesTellTheTruth == [][\A t \in Threads : TellsTheTruth(t)]_vars

(* Without a disk error or a crash, a note has a second name, for which every tool
   would refuse to read it, only while the tool that created it is at work.         *)
ReadableAgain ==
  faults = 0 => \A p \in Paths : Linked(p) =>
    \E t \in Threads : pc[t] = "unlink" /\ made[t] = entry[p]
==============================================================================
