----------------------------- MODULE OcrSidecar ------------------------------
(***************************************************************************)
(* Reading a PDF or an image through OCR (vault.py): worker threads that    *)
(* read one file, the sidecar that keeps what an external command           *)
(* recognised, and the lock file that makes the others wait meanwhile.      *)
(* An image and a PDF without text are read as a whole; of a mixed PDF the  *)
(* pages without text are recognised and merged with the text layer of the  *)
(* others.  A text is told apart by the version of the file it is of.       *)
(* Left out: PDFs that cannot be opened, and OCR that is switched off.      *)
(***************************************************************************)
EXTENDS Naturals, Sequences, FiniteSets

CONSTANTS
  Readers,     \* worker threads
  Versions,    \* what the file holds
  Fingerprint, \* Fingerprint[v]: mtime in seconds and hash of the first 64 KB
  None,        \* no sidecar, no lock, no text
  Dead,        \* a lock file that nobody will remove
  Pages,       \* pages of a mixed PDF
  TextPages,   \* those with a text layer
  Timeout,     \* the OCR timeout, in ticks
  MaxBlocks,   \* bound on the blocks an OCR command prints
  MaxChanges, MaxReads, MaxCrashes  \* bounds

ASSUME FingerprintAssumption == None \notin Versions /\ DOMAIN Fingerprint = Versions
ASSUME PagesAssumption == Pages \subseteq Nat /\ TextPages \subseteq Pages
ASSUME LockAssumption == Readers \cap {None, Dead} = {} /\ None # Dead
ASSUME BoundsAssumption ==
  /\ Timeout \in Nat \ {0} /\ MaxBlocks \in Nat
  /\ MaxChanges \in Nat /\ MaxReads \in Nat /\ MaxCrashes \in Nat

VARIABLES
  mixed,     \* the file is a mixed PDF and VAULT_PDF_OCR_PARTIAL is on
  cached,    \* config: sidecars are enabled
  file,      \* its version
  sidecar,   \* [print, layer, scan, done, clean], or None; clean is history: the file
             \* did not change while its writer was reading
  lock,      \* who created the lock file
  pc,
  layer,     \* version whose text layer a reader has
  scan,      \* version it has recognised, and the pages it got text for
  done,
  keep,      \* whether that may be cached
  stamp,     \* the fingerprint it will write
  waited,    \* ticks it has waited for the lock
  ran,       \* ticks its command has run
  answer,    \* how the read ended
  \* History.
  changes, reads, crashes,
  during,    \* versions the file had during the read
  holders    \* how often the lock was held while this one waited

config  == <<mixed, cached>>
own     == <<layer, scan, done, keep, stamp, waited, ran>>
counts  == <<changes, reads, crashes>>
vars == <<config, file, sidecar, lock, pc, own, answer, counts, during, holders>>

Wanted == IF mixed THEN Pages \ TextPages ELSE Pages

Init ==
  /\ mixed \in BOOLEAN /\ cached \in BOOLEAN
  /\ file \in Versions /\ sidecar = None /\ lock = None
  /\ pc = [r \in Readers |-> "idle"]
  /\ layer = [r \in Readers |-> None] /\ scan = [r \in Readers |-> None]
  /\ done = [r \in Readers |-> {}] /\ keep = [r \in Readers |-> FALSE]
  /\ stamp = [r \in Readers |-> None]
  /\ waited = [r \in Readers |-> 0] /\ ran = [r \in Readers |-> 0]
  /\ answer = [r \in Readers |-> None]
  /\ changes = 0 /\ reads = 0 /\ crashes = 0
  /\ during = [r \in Readers |-> {}] /\ holders = [r \in Readers |-> 0]

(* A sidecar that is there is taken for valid. *)
ValidWhenThere == sidecar # None

(* _read_valid_ocr_sidecar. *)
Valid == sidecar # None /\ sidecar.print = Fingerprint[file]

Unchanged(r) == Cardinality(during[r]) = 1

Reply(r, how, from, seen, pages, clean) ==
  /\ answer' = [answer EXCEPT ![r] = [how |-> how, layer |-> from, scan |-> seen, done |-> pages,
                                     clean |-> clean]]
  /\ pc' = [pc EXCEPT ![r] = "answered"]
  /\ layer' = [layer EXCEPT ![r] = None] /\ scan' = [scan EXCEPT ![r] = None]
  /\ done' = [done EXCEPT ![r] = {}] /\ keep' = [keep EXCEPT ![r] = FALSE]
  /\ stamp' = [stamp EXCEPT ![r] = None]
  /\ waited' = [waited EXCEPT ![r] = 0] /\ ran' = [ran EXCEPT ![r] = 0]

ReplyCached(r) == Reply(r, "sidecar", sidecar.layer, sidecar.scan, sidecar.done, sidecar.clean)
ReplyText(r)   == Reply(r, "text layer", layer[r], None, {}, Unchanged(r))
ReplyRead(r)   == Reply(r, "recognised", layer[r], scan[r], done[r], Unchanged(r))
ReplyError(r, code) == Reply(r, code, None, None, {}, Unchanged(r))

(* The end of the with block; nothing to do for one that did not enter it. *)
Unlock(r) == lock' = IF lock = r THEN None ELSE lock

------------------------------------------------------------------------------
(* The file, time and the process. *)

ChangeFile(v) ==
  /\ changes < MaxChanges /\ changes' = changes + 1
  /\ v # file /\ file' = v
  /\ during' = [r \in Readers |-> IF during[r] = {} THEN {} ELSE during[r] \cup {v}]
  /\ UNCHANGED <<config, sidecar, lock, pc, own, answer, reads, crashes, holders>>

(* The lock is waited for no longer than a command may run. *)
PatienceOfOne == Timeout

(* The lock is waited for twice as long as a command may run. *)
Patience == 2 * Timeout

(* A tick passes while commands run and readers wait: everything else takes no
   time, and a timeout is acted upon when it is reached.                       *)
Tick ==
  /\ \A r \in Readers : /\ pc[r] \in {"idle", "answered", "wait", "run"}
                        /\ pc[r] = "wait" => waited[r] < Patience /\ lock # None
                        /\ pc[r] = "run" => ran[r] < Timeout
  /\ \E r \in Readers : pc[r] \in {"wait", "run"}
  /\ waited' = [r \in Readers |-> waited[r] + IF pc[r] = "wait" THEN 1 ELSE 0]
  /\ ran' = [r \in Readers |-> ran[r] + IF pc[r] = "run" THEN 1 ELSE 0]
  /\ UNCHANGED <<config, file, sidecar, lock, pc, layer, scan, done, keep, stamp, answer, counts,
                 during, holders>>

(* The process ends, and starts again: a lock file it had created stays. *)
Crash ==
  /\ crashes < MaxCrashes /\ crashes' = crashes + 1
  /\ lock' = IF lock = None THEN None ELSE Dead
  /\ pc' = [r \in Readers |-> "idle"] /\ answer' = [r \in Readers |-> None]
  /\ layer' = [r \in Readers |-> None] /\ scan' = [r \in Readers |-> None]
  /\ done' = [r \in Readers |-> {}] /\ keep' = [r \in Readers |-> FALSE]
  /\ stamp' = [r \in Readers |-> None]
  /\ waited' = [r \in Readers |-> 0] /\ ran' = [r \in Readers |-> 0]
  /\ during' = [r \in Readers |-> {}] /\ holders' = [r \in Readers |-> 0]
  /\ UNCHANGED <<config, file, sidecar, changes, reads>>

------------------------------------------------------------------------------
(* One read. *)

(* read_file: the text layer is read before the sidecar is looked at. *)
Begin(r) ==
  /\ pc[r] = "idle" /\ reads < MaxReads /\ reads' = reads + 1
  /\ layer' = [layer EXCEPT ![r] = IF mixed THEN file ELSE None]
  /\ pc' = [pc EXCEPT ![r] = IF cached THEN "check" ELSE "start"]
  /\ during' = [during EXCEPT ![r] = {file}]
  /\ UNCHANGED <<config, file, sidecar, lock, scan, done, keep, stamp, waited, ran, answer,
                 changes, crashes, holders>>

Check(r) ==
  /\ pc[r] = "check"
  /\ \/ Valid /\ ReplyCached(r) /\ UNCHANGED holders
     \/ /\ ~Valid /\ pc' = [pc EXCEPT ![r] = "wait"] /\ UNCHANGED <<answer, own>>
        /\ holders' = [holders EXCEPT ![r] = IF lock = None THEN 0 ELSE 1]
  /\ UNCHANGED <<config, file, sidecar, lock, counts, during>>

(* _OcrSidecarLock.__enter__: O_CREAT | O_EXCL. *)
Enter(r) ==
  /\ pc[r] = "wait" /\ lock = None
  /\ lock' = r
  /\ pc' = [pc EXCEPT ![r] = "recheck"]
  /\ holders' = [o \in Readers |-> IF pc[o] = "wait" /\ o # r THEN holders[o] + 1 ELSE holders[o]]
  /\ UNCHANGED <<config, file, sidecar, own, answer, counts, during>>

(* __enter__ raises: the open fails, or it has created the file and the write of
   the pid fails.  There is no __exit__ then, and the file stays.                *)
EnterFails(r) ==
  /\ pc[r] = "wait"
  /\ lock' = lock \/ (lock = None /\ lock' = Dead)
  /\ ReplyError(r, "not locked")
  /\ UNCHANGED <<config, file, sidecar, counts, during, holders>>

(* Only the lock of a thread that lives is given up on. *)
LockTimesOutUnlessLeft(r) ==
  /\ pc[r] = "wait" /\ lock \in Readers /\ waited[r] >= Patience
  /\ ReplyError(r, "lock timeout")
  /\ UNCHANGED <<config, file, sidecar, lock, counts, during, holders>>

LockTimesOut(r) ==
  /\ pc[r] = "wait" /\ lock # None /\ waited[r] >= Patience
  /\ ReplyError(r, "lock timeout")
  /\ UNCHANGED <<config, file, sidecar, lock, counts, during, holders>>

(* The lock is taken: the sidecar is not looked at again. *)
RecheckNothing(r) ==
  /\ pc[r] = "recheck"
  /\ pc' = [pc EXCEPT ![r] = "start"]
  /\ UNCHANGED <<config, file, sidecar, lock, own, answer, counts, during, holders>>

(* Another reader may have written it meanwhile. *)
Recheck(r) ==
  /\ pc[r] = "recheck"
  /\ \/ Valid /\ ReplyCached(r) /\ Unlock(r)
     \/ ~Valid /\ pc' = [pc EXCEPT ![r] = "start"] /\ UNCHANGED <<answer, lock, own>>
  /\ UNCHANGED <<config, file, sidecar, counts, during, holders>>

(* The command starts, and reads the file. *)
StartCommand(r) ==
  /\ pc[r] = "start"
  /\ pc' = [pc EXCEPT ![r] = "run"]
  /\ scan' = [scan EXCEPT ![r] = file]
  /\ UNCHANGED <<config, file, sidecar, lock, layer, done, keep, stamp, waited, ran, answer, counts,
                 during, holders>>

(* What the command prints for a mixed PDF: labelled blocks, or text without. *)
Blocks == [page : Pages, got : {"text", "blank", "failed"}]
           \cup [page : {None}, got : {"text"}]

(* _merge_partial_ocr: the pages that got text and those that failed, or None
   for output that does not follow the labels.                                *)
Merge(blocks) ==
  LET labelled == {blocks[i].page : i \in DOMAIN blocks}
      Got(what)  == {blocks[i].page : i \in {j \in DOMAIN blocks : blocks[j].got = what}}
  IN
  IF blocks = <<>> \/ ~(labelled \subseteq Pages \ TextPages) \/ Cardinality(labelled) < Len(blocks)
  THEN None
  ELSE [done |-> Got("text"), failed |-> Got("failed")]

Merged == {Merge(blocks) : blocks \in UNION {[1 .. n -> Blocks] : n \in 0 .. MaxBlocks}}

(* The command ends with a text.  A page it could not read is not a blank page:
   then the result is not kept.                                                *)
CommandReads(r) ==
  /\ pc[r] = "run"
  /\ \E merged \in IF mixed THEN Merged ELSE {[done |-> Wanted, failed |-> {}]} :
       \/ /\ merged = None /\ ReplyText(r) /\ Unlock(r)
       \/ /\ merged # None
          /\ done' = [done EXCEPT ![r] = merged.done]
          /\ keep' = [keep EXCEPT ![r] = cached /\ merged.failed = {}]
          /\ pc' = [pc EXCEPT ![r] = IF keep'[r] THEN "stamp" ELSE "reply"]
          /\ UNCHANGED <<answer, lock, layer, scan, stamp, waited, ran>>
  /\ UNCHANGED <<config, file, sidecar, counts, during, holders>>

(* It fails, finds nothing, or is killed at its timeout: a mixed PDF stays
   readable.                                                               *)
CommandFails(r) ==
  /\ pc[r] = "run"
  /\ \/ mixed /\ ReplyText(r)
     \/ ~mixed /\ ReplyError(r, IF ran[r] = Timeout THEN "ocr timeout" ELSE "ocr failed")
  /\ Unlock(r)
  /\ UNCHANGED <<config, file, sidecar, counts, during, holders>>

(* What is not kept is answered all the same. *)
AnswerOnly(r) ==
  /\ pc[r] = "reply"
  /\ ReplyRead(r) /\ Unlock(r)
  /\ UNCHANGED <<config, file, sidecar, counts, during, holders>>

(* _write_ocr_sidecar: the fingerprint of the file as it is by now, then the
   sidecar, replaced at once.                                               *)
Stamp(r) ==
  /\ pc[r] = "stamp"
  /\ stamp' = [stamp EXCEPT ![r] = Fingerprint[file]]
  /\ pc' = [pc EXCEPT ![r] = "replace"]
  /\ UNCHANGED <<config, file, sidecar, lock, layer, scan, done, keep, waited, ran, answer, counts,
                 during, holders>>

Written(r) == [print |-> stamp[r], layer |-> layer[r], scan |-> scan[r],
               done |-> done[r], clean |-> Unchanged(r)]

Replace(r) ==
  /\ pc[r] = "replace"
  /\ \/ sidecar' = Written(r) /\ ReplyRead(r)
     \/ UNCHANGED sidecar /\ ReplyError(r, "not written")
  /\ Unlock(r)
  /\ UNCHANGED <<config, file, counts, during, holders>>

(* __exit__ cannot remove the lock file, which stays; the error takes the place of
   the answer, whatever came of the read.                                         *)
ExitFails(r) ==
  /\ pc[r] \in {"recheck", "run", "reply", "replace"} /\ lock = r
  /\ pc[r] = "recheck" => Valid
  /\ sidecar' \in {sidecar} \cup IF pc[r] = "replace" THEN {Written(r)} ELSE {}
  /\ lock' = Dead
  /\ ReplyError(r, "not unlocked")
  /\ UNCHANGED <<config, file, counts, during, holders>>

(* The caller has its answer: the thread is free. *)
Collect(r) ==
  /\ pc[r] = "answered"
  /\ pc' = [pc EXCEPT ![r] = "idle"] /\ answer' = [answer EXCEPT ![r] = None]
  /\ during' = [during EXCEPT ![r] = {}] /\ holders' = [holders EXCEPT ![r] = 0]
  /\ UNCHANGED <<config, file, sidecar, lock, own, counts>>

ReadStep(r) ==
  \/ Check(r) \/ Enter(r) \/ LockTimesOut(r) \/ Recheck(r) \/ StartCommand(r)
  \/ CommandReads(r) \/ CommandFails(r) \/ AnswerOnly(r) \/ Stamp(r) \/ Replace(r)

LockFault(r) == EnterFails(r) \/ ExitFails(r)

Next ==
  \/ \E v \in Versions : ChangeFile(v)
  \/ Tick \/ Crash
  \/ \E r \in Readers : Begin(r) \/ ReadStep(r) \/ LockFault(r) \/ Collect(r)

Spec == Init /\ [][Next]_vars

(* Time passes, and no thread stands still for ever; a command ends at its
   timeout at the latest.  No error of the lock file is counted on.        *)
FairSpec == Spec /\ WF_vars(Tick) /\ \A r \in Readers : WF_vars(ReadStep(r))

------------------------------------------------------------------------------
(* Properties *)

Running(r) == pc[r] = "run"
Waiting(r) == pc[r] \in {"check", "wait", "recheck", "start", "run", "stamp", "replace", "reply"}

(* "Two readers meeting" (server.py:332): with sidecars on, no two commands
   recognise the file at a time, and none recognises what a sidecar already
   tells: a valid one means the file has changed since the command started.  *)
RecognisedOnce ==
  cached =>
    \A r \in Readers : Running(r) =>
      /\ \A o \in Readers \ {r} : ~Running(o)
      /\ Valid => file # scan[r] \/ Cardinality(during[r]) > 1

(* What a read answers is what the file says: every text in it is of a version
   that the file had while the read was going on, or of one with the same
   fingerprint, whichever reader recognised it; and each page that got text is
   one that had none.  A sidecar written by a read during which the file changed
   is excepted, and nothing else.                                              *)
AnswersAreCurrent ==
  \A r \in Readers : pc[r] = "answered" =>
    LET a == answer[r]
        Current(v) == v = None \/ \E u \in during[r] : Fingerprint[u] = Fingerprint[v] IN
    /\ a.how # "sidecar" => {a.layer, a.scan} \subseteq during[r] \cup {None}
    /\ a.how = "sidecar" /\ a.clean => Current(a.scan) /\ a.layer \in {None, a.scan}
    /\ a.done \subseteq Wanted

(* Waiting twice as long as a command may run is enough: a reader gives up on
   the lock only if it was held twice, one after the other, meanwhile, or a
   process that is gone, or a thread that failed to write its pid or to remove
   the file, left it behind.                                                  *)
WaitIsLongEnough ==
  \A r \in Readers : pc[r] = "answered" /\ answer[r].how = "lock timeout" =>
    lock = Dead \/ holders[r] > 1

(* Every read is answered, behind a lock nobody will ever release too. *)
ReadsEnd == \A r \in Readers : Waiting(r) ~> ~Waiting(r)
==============================================================================
