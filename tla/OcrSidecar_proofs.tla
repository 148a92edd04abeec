-------------------------- MODULE OcrSidecar_proofs --------------------------
(***************************************************************************)
(* What holds of reading through OCR for every number of readers, versions, *)
(* pages and ticks, and every fingerprint: one recognition at a time, texts *)
(* that are of the file, and a wait for the lock that is long enough.       *)
(***************************************************************************)
EXTENDS OcrSidecar, FiniteSetTheorems, TLAPS

Stages == {"idle", "check", "wait", "recheck", "start", "run", "stamp", "replace", "reply",
           "answered"}
Texts  == Versions \cup {None}
Prints == {Fingerprint[v] : v \in Versions} \cup {None}
Outcomes == {"sidecar", "text layer", "recognised", "lock timeout", "ocr timeout", "ocr failed",
             "not written", "not locked", "not unlocked"}
Sidecars == [print : Prints, layer : Texts, scan : Texts, done : SUBSET Pages, clean : BOOLEAN]
Answers  == [how : Outcomes, layer : Texts, scan : Texts, done : SUBSET Pages, clean : BOOLEAN]

ReaderTypeOK ==
  /\ pc \in [Readers -> Stages]
  /\ layer \in [Readers -> Texts] /\ scan \in [Readers -> Texts]
  /\ done \in [Readers -> SUBSET Pages] /\ keep \in [Readers -> BOOLEAN]
  /\ stamp \in [Readers -> Prints]
  /\ waited \in [Readers -> Nat] /\ ran \in [Readers -> Nat]
  /\ answer \in [Readers -> Answers \cup {None}]

TypeOK ==
  /\ mixed \in BOOLEAN /\ cached \in BOOLEAN
  /\ file \in Versions
  /\ sidecar \in Sidecars \cup {None}
  /\ lock \in Readers \cup {None, Dead}
  /\ ReaderTypeOK
  /\ changes \in 0 .. MaxChanges /\ reads \in 0 .. MaxReads /\ crashes \in 0 .. MaxCrashes
  /\ during \in [Readers -> SUBSET Versions]
  /\ holders \in [Readers -> Nat]

(* A reader past the lock, if there is one. *)
Critical == {"recheck", "start", "run", "stamp", "replace", "reply"}

------------------------------------------------------------------------------
(* A text is merged in only for a page that has none. *)
LEMMA MergeTakesWanted ==
  ASSUME mixed \in BOOLEAN,
         NEW merged \in IF mixed THEN Merged ELSE {[done |-> Wanted, failed |-> {}]}, merged # None
  PROVE  merged.done \subseteq Wanted
<1>1. CASE ~mixed
  BY <1>1
<1>2. CASE mixed
  <2>1. PICK blocks \in UNION {[1 .. n -> Blocks] : n \in 0 .. MaxBlocks} : merged = Merge(blocks)
    BY <1>2 DEF Merged
  <2>2. {blocks[i].page : i \in DOMAIN blocks} \subseteq Pages \ TextPages
    BY <2>1 DEF Merge
  <2>3. merged.done = {blocks[i].page : i \in {j \in DOMAIN blocks : blocks[j].got = "text"}}
    BY <2>1 DEF Merge
  <2>4. QED BY <1>2, <2>2, <2>3 DEF Wanted
<1>3. QED BY <1>1, <1>2

LEMMA WantedArePages == Wanted \subseteq Pages
BY DEF Wanted

Replies(r) ==
  \/ Valid /\ ReplyCached(r)
  \/ ReplyText(r) \/ ReplyRead(r)
  \/ \E code \in Outcomes : ReplyError(r, code)

LEMMA RepliesType ==
  ASSUME TypeOK, NEW r \in Readers, Replies(r)
  PROVE  ReaderTypeOK'
<1>1. ASSUME NEW how \in Outcomes, NEW from \in Texts, NEW seen \in Texts, NEW pages \in SUBSET Pages,
             NEW clean \in BOOLEAN, Reply(r, how, from, seen, pages, clean)
      PROVE  ReaderTypeOK'
  <2>1. [how |-> how, layer |-> from, scan |-> seen, done |-> pages, clean |-> clean] \in Answers
    BY DEF Answers
  <2>2. QED BY <1>1, <2>1 DEF Reply, TypeOK, ReaderTypeOK, Stages, Texts, Prints
<1>2. Unchanged(r) \in BOOLEAN BY DEF Unchanged
<1>3. layer[r] \in Texts /\ scan[r] \in Texts /\ done[r] \in SUBSET Pages /\ None \in Texts
  BY DEF TypeOK, ReaderTypeOK, Texts
<1>4. CASE Valid /\ ReplyCached(r)
  <2>1. sidecar \in Sidecars BY <1>4 DEF Valid, TypeOK
  <2>2. /\ sidecar.layer \in Texts /\ sidecar.scan \in Texts
        /\ sidecar.done \in SUBSET Pages /\ sidecar.clean \in BOOLEAN
    BY <2>1 DEF Sidecars
  <2>3. QED BY <1>1, <1>4, <2>2 DEF ReplyCached, Outcomes
<1>5. CASE ReplyText(r) BY <1>1, <1>2, <1>3, <1>5 DEF ReplyText, Outcomes
<1>6. CASE ReplyRead(r) BY <1>1, <1>2, <1>3, <1>6 DEF ReplyRead, Outcomes
<1>7. ASSUME NEW code \in Outcomes, ReplyError(r, code) PROVE ReaderTypeOK'
  BY <1>1, <1>2, <1>3, <1>7 DEF ReplyError
<1>8. QED BY <1>4, <1>5, <1>6, <1>7 DEF Replies

LEMMA WrittenType ==
  ASSUME TypeOK, NEW r \in Readers
  PROVE  Written(r) \in Sidecars
<1>1. Unchanged(r) \in BOOLEAN BY DEF Unchanged
<1>2. QED BY <1>1 DEF Written, Sidecars, TypeOK, ReaderTypeOK

LEMMA InitTypeOK == Init => TypeOK
BY BoundsAssumption DEF Init, TypeOK, ReaderTypeOK, Stages, Texts, Prints

LEMMA NextTypeOK == TypeOK /\ [Next]_vars => TypeOK'
<1> SUFFICES ASSUME TypeOK, [Next]_vars PROVE TypeOK'
  OBVIOUS
<1> USE DEF TypeOK
<1>1. ASSUME NEW v \in Versions, ChangeFile(v) PROVE TypeOK'
  BY <1>1, BoundsAssumption DEF ChangeFile, config, own, ReaderTypeOK
<1>2. CASE Tick
  <2>1. \A r \in Readers : waited'[r] \in Nat /\ ran'[r] \in Nat BY <1>2 DEF Tick, ReaderTypeOK
  <2>2. waited' \in [Readers -> Nat] /\ ran' \in [Readers -> Nat] BY <1>2, <2>1 DEF Tick
  <2>3. QED BY <1>2, <2>2 DEF Tick, config, counts, ReaderTypeOK
<1>3. CASE Crash
  BY <1>3, BoundsAssumption DEF Crash, Prints, Texts, Stages, config, ReaderTypeOK
<1>4. ASSUME NEW r \in Readers, Begin(r) PROVE TypeOK'
  BY <1>4, BoundsAssumption DEF Begin, config, ReaderTypeOK, Texts, Stages
<1>5. ASSUME NEW r \in Readers, Check(r) PROVE TypeOK'
  <2>1. ReaderTypeOK'
    <3>1. CASE Valid /\ ReplyCached(r) BY <3>1, RepliesType DEF Replies
    <3>2. CASE ~(Valid /\ ReplyCached(r)) BY <1>5, <3>2 DEF Check, own, ReaderTypeOK, Stages
    <3>3. QED BY <3>1, <3>2
  <2>2. QED BY <1>5, <2>1 DEF Check, config, counts
<1>6. ASSUME NEW r \in Readers, Enter(r) PROVE TypeOK'
  BY <1>6 DEF Enter, config, own, counts, ReaderTypeOK, Stages
<1>7. ASSUME NEW r \in Readers, LockTimesOut(r) PROVE TypeOK'
  <2>1. ReaderTypeOK' BY <1>7, RepliesType DEF LockTimesOut, Replies, Outcomes
  <2>2. QED BY <1>7, <2>1 DEF LockTimesOut, config, counts
<1>8. ASSUME NEW r \in Readers, Recheck(r) PROVE TypeOK'
  <2>1. ReaderTypeOK'
    <3>1. CASE Valid /\ ReplyCached(r) BY <3>1, RepliesType DEF Replies
    <3>2. CASE ~(Valid /\ ReplyCached(r)) BY <1>8, <3>2 DEF Recheck, own, ReaderTypeOK, Stages
    <3>3. QED BY <3>1, <3>2
  <2>2. QED BY <1>8, <2>1 DEF Recheck, Unlock, config, counts
<1>9. ASSUME NEW r \in Readers, StartCommand(r) PROVE TypeOK'
  BY <1>9 DEF StartCommand, config, counts, ReaderTypeOK, Texts, Stages
<1>10. ASSUME NEW r \in Readers, CommandReads(r) PROVE TypeOK'
  <2>1. CASE ReplyText(r) /\ Unlock(r)
    <3>1. ReaderTypeOK' BY <2>1, RepliesType DEF Replies
    <3>2. QED BY <1>10, <2>1, <3>1 DEF CommandReads, Unlock, config, counts
  <2>2. CASE ~(ReplyText(r) /\ Unlock(r))
    <3>1. PICK merged \in IF mixed THEN Merged ELSE {[done |-> Wanted, failed |-> {}]} :
            /\ merged # None
            /\ done' = [done EXCEPT ![r] = merged.done]
            /\ keep' = [keep EXCEPT ![r] = cached /\ merged.failed = {}]
            /\ pc' = [pc EXCEPT ![r] = IF keep'[r] THEN "stamp" ELSE "reply"]
            /\ UNCHANGED <<answer, lock, layer, scan, stamp, waited, ran>>
      BY <1>10, <2>2 DEF CommandReads
    <3>2. merged.done \subseteq Pages BY <3>1, MergeTakesWanted, WantedArePages
    <3>3. keep' \in [Readers -> BOOLEAN]
      BY <3>1 DEF ReaderTypeOK
    <3>4. pc' \in [Readers -> Stages] /\ done' \in [Readers -> SUBSET Pages]
      BY <3>1, <3>2 DEF ReaderTypeOK, Stages
    <3>5. QED BY <1>10, <3>1, <3>3, <3>4 DEF CommandReads, config, counts, ReaderTypeOK
  <2>3. QED BY <2>1, <2>2
<1>11. ASSUME NEW r \in Readers, CommandFails(r) PROVE TypeOK'
  <2>1. ReaderTypeOK' BY <1>11, RepliesType DEF CommandFails, Replies, Outcomes
  <2>2. QED BY <1>11, <2>1 DEF CommandFails, Unlock, config, counts
<1>12. ASSUME NEW r \in Readers, AnswerOnly(r) PROVE TypeOK'
  <2>1. ReaderTypeOK' BY <1>12, RepliesType DEF AnswerOnly, Replies
  <2>2. QED BY <1>12, <2>1 DEF AnswerOnly, Unlock, config, counts
<1>13. ASSUME NEW r \in Readers, Stamp(r) PROVE TypeOK'
  BY <1>13 DEF Stamp, Prints, Stages, config, counts, ReaderTypeOK
<1>14. ASSUME NEW r \in Readers, Replace(r) PROVE TypeOK'
  <2>1. ReaderTypeOK' BY <1>14, RepliesType DEF Replace, Replies, Outcomes
  <2>2. sidecar' \in Sidecars \cup {None}
    BY <1>14, WrittenType DEF Replace
  <2>3. QED BY <1>14, <2>1, <2>2 DEF Replace, Unlock, config, counts
<1>15. ASSUME NEW r \in Readers, EnterFails(r) PROVE TypeOK'
  <2>1. ReaderTypeOK' BY <1>15, RepliesType DEF EnterFails, Replies, Outcomes
  <2>2. QED BY <1>15, <2>1 DEF EnterFails, config, counts
<1>16. ASSUME NEW r \in Readers, ExitFails(r) PROVE TypeOK'
  <2>1. ReaderTypeOK' BY <1>16, RepliesType DEF ExitFails, Replies, Outcomes
  <2>2. sidecar' \in Sidecars \cup {None}
    BY <1>16, WrittenType DEF ExitFails
  <2>3. QED BY <1>16, <2>1, <2>2 DEF ExitFails, config, counts
<1>17. ASSUME NEW r \in Readers, Collect(r) PROVE TypeOK'
  BY <1>17 DEF Collect, config, own, counts, ReaderTypeOK, Stages
<1>18. CASE UNCHANGED vars
  BY <1>18 DEF vars, config, own, counts, ReaderTypeOK
<1> HIDE DEF TypeOK
<1>19. QED
  BY <1>1, <1>2, <1>3, <1>4, <1>5, <1>6, <1>7, <1>8, <1>9, <1>10, <1>11, <1>12, <1>13, <1>14,
     <1>15, <1>16, <1>17, <1>18 DEF Next, ReadStep, LockFault

(* The state keeps to its types, whatever the readers and the file do. *)
THEOREM TypeCorrect == Spec => []TypeOK
BY InitTypeOK, NextTypeOK, PTL DEF Spec

------------------------------------------------------------------------------
(* The lock file of a thread that lives is that of the one reader past it. *)
Locked ==
  /\ \A r \in Readers : pc[r] \in {"check", "wait", "recheck"} => cached
  /\ \A r \in Readers : cached /\ pc[r] \in Critical => lock = r
  /\ lock \in Readers => cached /\ pc[lock] \in Critical

(* What a reader has at hand is of versions the file had while it was reading. *)
Seen ==
  \A r \in Readers :
    /\ IsFiniteSet(during[r])
    /\ pc[r] # "idle" => file \in during[r]
    /\ pc[r] \in {"idle", "answered"} => layer[r] = None /\ scan[r] = None
    /\ {layer[r], scan[r]} \subseteq during[r] \cup {None}
    /\ pc[r] \in {"run", "stamp", "replace", "reply"} => scan[r] \in during[r]
    /\ pc[r] = "replace" => \E u \in during[r] : stamp[r] = Fingerprint[u]
    /\ done[r] \subseteq Wanted

(* A sidecar whose writer saw one version only is of that version, and has its fingerprint. *)
Kept ==
  sidecar # None =>
    /\ sidecar.done \subseteq Wanted
    /\ sidecar.clean => /\ sidecar.scan \in Versions /\ sidecar.print = Fingerprint[sidecar.scan]
                        /\ sidecar.layer \in {None, sidecar.scan}

(* A reader that goes on to recognise the file found no valid sidecar: one became valid
   only as the file changed.                                                            *)
Needed ==
  cached => \A r \in Readers : pc[r] \in {"start", "run"} /\ Valid => Cardinality(during[r]) > 1

(* A reader has not waited for longer than the one command it has waited for has run. *)
Patient ==
  \A r \in Readers :
    /\ ran[r] <= Timeout
    /\ pc[r] \in {"idle", "check", "answered"} => waited[r] = 0
    /\ pc[r] = "wait" /\ holders[r] = 0 => lock = Dead \/ (lock = None /\ waited[r] = 0)
    /\ pc[r] = "wait" /\ holders[r] = 1 /\ lock \in Readers => waited[r] <= ran[lock]

------------------------------------------------------------------------------
(* A reader that is answered has nothing at hand any more. *)
LEMMA RepliesLeave ==
  ASSUME TypeOK, NEW r \in Readers, Replies(r)
  PROVE  /\ pc' = [pc EXCEPT ![r] = "answered"]
         /\ layer' = [layer EXCEPT ![r] = None] /\ scan' = [scan EXCEPT ![r] = None]
         /\ done' = [done EXCEPT ![r] = {}] /\ stamp' = [stamp EXCEPT ![r] = None]
         /\ waited' = [waited EXCEPT ![r] = 0] /\ ran' = [ran EXCEPT ![r] = 0]
BY DEF Replies, ReplyCached, ReplyText, ReplyRead, ReplyError, Reply

(* Only a reader that gives up on the lock answers so. *)
LEMMA OthersGetTheLock ==
  ASSUME TypeOK, NEW r \in Readers,
         \/ ReplyCached(r) \/ ReplyText(r) \/ ReplyRead(r)
         \/ \E code \in Outcomes \ {"lock timeout"} : ReplyError(r, code)
  PROVE  answer'[r].how # "lock timeout"
<1>1. ASSUME NEW how, NEW from, NEW seen, NEW pages, NEW clean,
             how # "lock timeout", Reply(r, how, from, seen, pages, clean)
      PROVE  answer'[r].how # "lock timeout"
  BY <1>1 DEF Reply, TypeOK, ReaderTypeOK
<1>2. QED BY <1>1 DEF ReplyCached, ReplyText, ReplyRead, ReplyError

(* A reader's steps after the lock: what they do to the locks and the waits. *)
LEMMA StepsPastTheLock ==
  ASSUME TypeOK, NEW r \in Readers,
         Recheck(r) \/ CommandReads(r) \/ CommandFails(r) \/ AnswerOnly(r) \/ Stamp(r)
           \/ Replace(r) \/ StartCommand(r)
  PROVE  /\ pc[r] \in Critical
         /\ \/ Replies(r) /\ Unlock(r) /\ answer'[r].how # "lock timeout"
            \/ /\ \E step \in Critical \ {"recheck"} : pc' = [pc EXCEPT ![r] = step]
               /\ UNCHANGED <<lock, waited, ran, answer>>
         /\ UNCHANGED <<config, file, counts, during, holders>>
<1> USE DEF Critical
<1>1. CASE Recheck(r)
  BY <1>1, OthersGetTheLock DEF Recheck, Replies, own
<1>2. CASE CommandReads(r)
  <2>1. CASE ReplyText(r) /\ Unlock(r) 
    BY <1>2, <2>1, OthersGetTheLock DEF CommandReads, Replies
  <2>2. CASE ~(ReplyText(r) /\ Unlock(r)) BY <1>2, <2>2 DEF CommandReads
  <2>3. QED BY <2>1, <2>2
<1>3. CASE CommandFails(r)
  BY <1>3, OthersGetTheLock DEF CommandFails, Replies, Outcomes
<1>4. CASE AnswerOnly(r)
  BY <1>4, OthersGetTheLock DEF AnswerOnly, Replies
<1>5. CASE Stamp(r)
  BY <1>5 DEF Stamp, config, counts
<1>6. CASE Replace(r)
  BY <1>6, OthersGetTheLock DEF Replace, Replies, Outcomes
<1>7. CASE StartCommand(r)
  BY <1>7 DEF StartCommand, config, counts
<1>8. QED BY <1>1, <1>2, <1>3, <1>4, <1>5, <1>6, <1>7

(* Taking or leaving the lock fails: the reader is answered so, and not that it gave up. *)
LEMMA FailuresReply ==
  ASSUME TypeOK, NEW r \in Readers, EnterFails(r) \/ ExitFails(r)
  PROVE  Replies(r) /\ answer'[r].how # "lock timeout"
BY OthersGetTheLock DEF EnterFails, ExitFails, Replies, Outcomes

LEMMA InitLocked == Init => Locked
BY LockAssumption DEF Init, Locked, Critical

LEMMA NextLocked == TypeOK /\ Locked /\ [Next]_vars => Locked'
<1> SUFFICES ASSUME TypeOK, Locked, [Next]_vars PROVE Locked'
  OBVIOUS
<1> USE LockAssumption DEF TypeOK, ReaderTypeOK, Locked, Critical
<1>1. ASSUME NEW v \in Versions, ChangeFile(v) PROVE Locked'
  BY <1>1 DEF ChangeFile, config
<1>2. CASE Tick
  BY <1>2 DEF Tick, config
<1>3. CASE Crash
  BY <1>3 DEF Crash, config
<1>4. ASSUME NEW r \in Readers, Begin(r) PROVE Locked'
  BY <1>4 DEF Begin, config
<1>5. ASSUME NEW r \in Readers, Check(r) PROVE Locked'
  <2>1. CASE Valid /\ ReplyCached(r)
    BY <1>5, <2>1, RepliesLeave DEF Check, Replies, config
  <2>2. CASE ~(Valid /\ ReplyCached(r))
    BY <1>5, <2>2 DEF Check, config
  <2>3. QED BY <2>1, <2>2
<1>6. ASSUME NEW r \in Readers, Enter(r) PROVE Locked'
  BY <1>6 DEF Enter, config
<1>7. ASSUME NEW r \in Readers, LockTimesOut(r) PROVE Locked'
  <2>1. pc[r] = "wait" /\ lock' = lock /\ cached' = cached BY <1>7 DEF LockTimesOut, config
  <2>2. Replies(r) BY <1>7 DEF LockTimesOut, Replies, Outcomes
  <2>3. QED BY <2>1, <2>2, RepliesLeave
<1>8. ASSUME NEW r \in Readers, pc[r] \in Critical, UNCHANGED config, Replies(r), Unlock(r)
      PROVE  Locked'
  BY <1>8, RepliesLeave DEF Unlock, config
<1>9. ASSUME NEW r \in Readers, pc[r] \in Critical, UNCHANGED <<config, lock>>,
             NEW step \in Critical \ {"recheck"}, pc' = [pc EXCEPT ![r] = step]
      PROVE  Locked'
  BY <1>9 DEF config
<1>10. ASSUME NEW r \in Readers, EnterFails(r) \/ ExitFails(r) PROVE Locked'
  <2>1. /\ (pc[r] = "wait" /\ lock \in {None, lock'}) \/ lock = r
        /\ lock' \in {lock, None, Dead} /\ (lock = r => lock' = Dead \/ pc[r] = "wait") /\ cached' = cached
    BY <1>10 DEF EnterFails, ExitFails, config
  <2>2. pc' = [pc EXCEPT ![r] = "answered"] BY <1>10, FailuresReply, RepliesLeave
  <2>3. QED BY <2>1, <2>2
<1>11. ASSUME NEW r \in Readers, Collect(r) PROVE Locked'
  BY <1>11 DEF Collect, config
<1>12. CASE UNCHANGED vars
  BY <1>12 DEF vars, config
<1> HIDE DEF TypeOK, ReaderTypeOK, Locked, Critical
<1>13. ASSUME NEW r \in Readers, ReadStep(r) \/ LockFault(r) PROVE Locked'
  BY <1>5, <1>6, <1>7, <1>8, <1>9, <1>10, <1>13, StepsPastTheLock DEF ReadStep, LockFault
<1>14. QED
  BY <1>1, <1>2, <1>3, <1>4, <1>11, <1>12, <1>13 DEF Next

------------------------------------------------------------------------------
LEMMA InitPatient == Init => Patient
BY BoundsAssumption DEF Init, Patient

LEMMA NextPatient == TypeOK /\ Locked /\ Patient /\ [Next]_vars => Patient'
<1> SUFFICES ASSUME TypeOK, Locked, Patient, [Next]_vars PROVE Patient'
  OBVIOUS
<1> USE LockAssumption, BoundsAssumption DEF TypeOK, ReaderTypeOK, Locked, Critical, Patient
<1>1. ASSUME NEW v \in Versions, ChangeFile(v) PROVE Patient'
  BY <1>1 DEF ChangeFile, own
<1>2. CASE Tick
  <2>1. lock \in Readers => pc[lock] = "run" BY <1>2 DEF Tick
  <2>2. \A r \in Readers : ran'[r] <= Timeout BY <1>2 DEF Tick
  <2>3. \A r \in Readers : pc[r] \in {"idle", "check", "answered"} => waited'[r] = 0 BY <1>2 DEF Tick
  <2>4. \A r \in Readers : pc[r] = "wait" => lock = Dead \/ holders[r] # 0 BY <1>2 DEF Tick
  <2>5. \A r \in Readers : pc[r] = "wait" /\ holders[r] = 1 /\ lock \in Readers => waited'[r] <= ran'[lock]
    BY <1>2, <2>1 DEF Tick
  <2>6. UNCHANGED <<pc, lock, holders>> BY <1>2 DEF Tick
  <2> HIDE DEF TypeOK, ReaderTypeOK, Locked, Critical
  <2>7. ASSUME NEW r \in Readers
        PROVE  /\ ran'[r] <= Timeout
               /\ pc'[r] \in {"idle", "check", "answered"} => waited'[r] = 0
               /\ pc'[r] = "wait" /\ holders'[r] = 0 => lock' = Dead \/ (lock' = None /\ waited'[r] = 0)
               /\ pc'[r] = "wait" /\ holders'[r] = 1 /\ lock' \in Readers => waited'[r] <= ran'[lock']
    <3>1. pc' = pc /\ lock' = lock /\ holders' = holders BY <2>6
    <3>2. ran'[r] <= Timeout BY <2>2
    <3>3. pc'[r] \in {"idle", "check", "answered"} => waited'[r] = 0 BY <2>3, <3>1
    <3>4. pc'[r] = "wait" /\ holders'[r] = 0 => lock' = Dead \/ (lock' = None /\ waited'[r] = 0)
      BY <2>4, <3>1
    <3>5. pc'[r] = "wait" /\ holders'[r] = 1 /\ lock' \in Readers => waited'[r] <= ran'[lock']
      BY <2>5, <3>1
    <3>6. QED BY <3>2, <3>3, <3>4, <3>5
  <2>8. QED BY <2>7, Zenon
<1>3. CASE Crash
  BY <1>3 DEF Crash
<1>4. ASSUME NEW r \in Readers, Begin(r) PROVE Patient'
  BY <1>4 DEF Begin
<1>5. ASSUME NEW r \in Readers, Check(r) PROVE Patient'
  <2>1. CASE Valid /\ ReplyCached(r)
    <3>1. lock # r /\ lock' = lock /\ \A o \in Readers \ {r} : holders'[o] = holders[o]
      BY <1>5, <2>1 DEF Check
    <3>2. QED BY <2>1, <3>1, RepliesLeave DEF Replies
  <2>2. CASE ~(Valid /\ ReplyCached(r))
    BY <1>5, <2>2 DEF Check, own
  <2>3. QED BY <2>1, <2>2
<1>6. ASSUME NEW r \in Readers, Enter(r) PROVE Patient'
  BY <1>6 DEF Enter, own
<1>7. ASSUME NEW r \in Readers, LockTimesOut(r) PROVE Patient'
  <2>1. pc[r] = "wait" /\ lock' = lock /\ holders' = holders BY <1>7 DEF LockTimesOut
  <2>2. Replies(r) BY <1>7 DEF LockTimesOut, Replies, Outcomes
  <2>3. QED BY <2>1, <2>2, RepliesLeave
<1>8. ASSUME NEW r \in Readers, pc[r] \in Critical, UNCHANGED <<config, holders>>, Replies(r), Unlock(r)
      PROVE  Patient'
  <2>1. lock' \notin Readers /\ (lock = None => lock' = None) BY <1>8 DEF Unlock
  <2>2. QED BY <1>8, <2>1, RepliesLeave
<1>9. ASSUME NEW r \in Readers, pc[r] \in Critical, UNCHANGED <<config, lock, waited, ran, holders>>,
             NEW step \in Critical \ {"recheck"}, pc' = [pc EXCEPT ![r] = step]
      PROVE  Patient'
  BY <1>9
<1>10. ASSUME NEW r \in Readers, EnterFails(r) \/ ExitFails(r) PROVE Patient'
  <2>1. Replies(r) /\ holders' = holders BY <1>10, FailuresReply DEF EnterFails, ExitFails
  <2>2. (lock' = lock /\ lock # r) \/ lock' = Dead BY <1>10 DEF EnterFails, ExitFails
  <2>3. Dead \notin Readers OBVIOUS
  <2>4. QED BY <2>1, <2>2, <2>3, RepliesLeave
<1>11. ASSUME NEW r \in Readers, Collect(r) PROVE Patient'
  BY <1>11 DEF Collect, own
<1>12. CASE UNCHANGED vars
  BY <1>12 DEF vars, own
<1> HIDE DEF TypeOK, ReaderTypeOK, Locked, Critical, Patient
<1>13. ASSUME NEW r \in Readers, ReadStep(r) \/ LockFault(r) PROVE Patient'
  BY <1>5, <1>6, <1>7, <1>8, <1>9, <1>10, <1>13, StepsPastTheLock DEF ReadStep, LockFault
<1>14. QED
  BY <1>1, <1>2, <1>3, <1>4, <1>11, <1>12, <1>13 DEF Next

(* The one command a reader has waited for ran no longer than its timeout. *)
LEMMA GivesUpLate ==
  ASSUME TypeOK, Patient, NEW r \in Readers, LockTimesOut(r)
  PROVE  lock = Dead \/ holders[r] > 1
<1>1. pc[r] = "wait" /\ lock # None /\ waited[r] >= 2 * Timeout BY DEF LockTimesOut, Patience
<1>2. waited[r] \in Nat /\ holders[r] \in Nat /\ Timeout \in Nat \ {0}
  BY BoundsAssumption DEF TypeOK, ReaderTypeOK
<1>3. lock # Dead => holders[r] # 0 BY <1>1 DEF Patient
<1>4. ASSUME lock \in Readers PROVE holders[r] # 1
  <2>1. ran[lock] \in Nat /\ ran[lock] <= Timeout BY <1>4 DEF TypeOK, ReaderTypeOK, Patient
  <2>2. ~(waited[r] <= ran[lock]) BY <1>1, <1>2, <2>1
  <2>3. QED BY <1>1, <1>4, <2>2 DEF Patient
<1>5. lock \in Readers \/ lock = Dead BY <1>1 DEF TypeOK
<1>6. QED BY <1>2, <1>3, <1>4, <1>5

LEMMA NextWaitIsLongEnough ==
  TypeOK /\ Locked /\ Patient /\ WaitIsLongEnough /\ [Next]_vars => WaitIsLongEnough'
<1> SUFFICES ASSUME TypeOK, Locked, Patient, WaitIsLongEnough, [Next]_vars PROVE WaitIsLongEnough'
  OBVIOUS
<1> DEFINE GaveUp(r) == pc[r] = "answered" /\ answer[r].how = "lock timeout"
<1> USE LockAssumption, BoundsAssumption DEF TypeOK, ReaderTypeOK, WaitIsLongEnough
<1>1. ASSUME lock = Dead => lock' = Dead,
             \A o \in Readers : GaveUp(o)' => GaveUp(o) /\ holders'[o] = holders[o]
      PROVE  WaitIsLongEnough'
  BY <1>1
<1>2. ASSUME NEW v \in Versions, ChangeFile(v) PROVE WaitIsLongEnough'
  BY <1>1, <1>2 DEF ChangeFile
<1>3. CASE Tick
  BY <1>1, <1>3 DEF Tick
<1>4. CASE Crash
  BY <1>4 DEF Crash
<1>5. ASSUME NEW r \in Readers, Begin(r) PROVE WaitIsLongEnough'
  BY <1>1, <1>5 DEF Begin
<1>6. ASSUME NEW r \in Readers, Check(r) PROVE WaitIsLongEnough'
  <2>1. \A o \in Readers \ {r} : GaveUp(o)' => GaveUp(o) /\ holders'[o] = holders[o]
    BY <1>6 DEF Check, ReplyCached, Reply
  <2>2. ~GaveUp(r)'
    BY <1>6, OthersGetTheLock DEF Check
  <2>3. QED BY <1>1, <1>6, <2>1, <2>2 DEF Check
<1>7. ASSUME NEW r \in Readers, Enter(r) PROVE WaitIsLongEnough'
  BY <1>1, <1>7 DEF Enter
<1>8. ASSUME NEW r \in Readers, LockTimesOut(r) PROVE WaitIsLongEnough'
  <2>1. \A o \in Readers \ {r} : GaveUp(o)' => GaveUp(o)
    BY <1>8 DEF LockTimesOut, ReplyError, Reply
  <2>2. lock = Dead \/ holders[r] > 1 BY <1>8, GivesUpLate
  <2>3. QED BY <1>8, <2>1, <2>2 DEF LockTimesOut
<1>9. ASSUME NEW r \in Readers, Replies(r), Unlock(r), answer'[r].how # "lock timeout",
             UNCHANGED holders
      PROVE  WaitIsLongEnough'
  <2>1. \A o \in Readers \ {r} : GaveUp(o)' => GaveUp(o)
    BY <1>9 DEF Replies, ReplyCached, ReplyText, ReplyRead, ReplyError, Reply
  <2>2. QED BY <1>1, <1>9, <2>1 DEF Unlock
<1>10. ASSUME NEW r \in Readers, UNCHANGED <<lock, answer, holders>>,
              NEW step \in Critical, pc' = [pc EXCEPT ![r] = step]
      PROVE  WaitIsLongEnough'
  BY <1>1, <1>10 DEF Critical
<1>11. ASSUME NEW r \in Readers, EnterFails(r) \/ ExitFails(r) PROVE WaitIsLongEnough'
  <2>1. (lock = Dead => lock' = Dead) /\ holders' = holders BY <1>11, LockAssumption DEF EnterFails, ExitFails
  <2>2. \A o \in Readers \ {r} : GaveUp(o)' => GaveUp(o)
    BY <1>11 DEF EnterFails, ExitFails, ReplyError, Reply
  <2>3. ~GaveUp(r)' BY <1>11, FailuresReply
  <2>4. QED BY <1>1, <2>1, <2>2, <2>3
<1>12. ASSUME NEW r \in Readers, Collect(r) PROVE WaitIsLongEnough'
  BY <1>1, <1>12 DEF Collect
<1>13. CASE UNCHANGED vars
  BY <1>1, <1>13 DEF vars
<1> HIDE DEF TypeOK, ReaderTypeOK, WaitIsLongEnough
<1>14. ASSUME NEW r \in Readers, ReadStep(r) \/ LockFault(r) PROVE WaitIsLongEnough'
  BY <1>6, <1>7, <1>8, <1>9, <1>10, <1>11, <1>14, StepsPastTheLock DEF ReadStep, LockFault
<1>15. QED
  BY <1>2, <1>3, <1>4, <1>5, <1>12, <1>13, <1>14 DEF Next

(* A reader gives up on the lock only behind two commands, one after the other, or behind a
   lock file that nobody will remove: to wait for twice the timeout of a command is enough.   *)
THEOREM LongEnough == Spec => []WaitIsLongEnough
<1>1. Init => WaitIsLongEnough BY DEF Init, WaitIsLongEnough
<1>2. QED
  BY <1>1, InitTypeOK, NextTypeOK, InitLocked, NextLocked, InitPatient, NextPatient,
     NextWaitIsLongEnough, PTL DEF Spec

------------------------------------------------------------------------------
LEMMA InitSeen == Init => Seen /\ Kept /\ Needed
<1>1. IsFiniteSet({}) BY FS_EmptySet
<1>2. QED BY <1>1 DEF Init, Seen, Kept, Needed

LEMMA NextSeen == TypeOK /\ Seen /\ [Next]_vars => Seen'
<1> SUFFICES ASSUME TypeOK, Seen, [Next]_vars PROVE Seen'
  OBVIOUS
<1> USE DEF TypeOK, ReaderTypeOK, Seen, Wanted, config
<1>1. ASSUME NEW v \in Versions, ChangeFile(v) PROVE Seen'
  <2>1. \A r \in Readers : during[r] \subseteq during'[r] /\ during'[r] \subseteq during[r] \cup {v}
    BY <1>1 DEF ChangeFile
  <2>2. ASSUME NEW r \in Readers PROVE IsFiniteSet(during'[r])
    <3>1. IsFiniteSet(during[r] \cup {v}) BY FS_AddElement
    <3>2. QED BY <2>1, <3>1, FS_Subset
  <2>3. \A r \in Readers : pc'[r] # "idle" => file' \in during'[r] BY <1>1 DEF ChangeFile
  <2>4. ASSUME NEW r \in Readers
        PROVE  /\ {layer'[r], scan'[r]} \subseteq during'[r] \cup {None}
               /\ pc'[r] \in {"run", "stamp", "replace", "reply"} => scan'[r] \in during'[r]
               /\ pc'[r] = "replace" => \E u \in during'[r] : stamp'[r] = Fingerprint[u]
               /\ pc'[r] \in {"idle", "answered"} => layer'[r] = None /\ scan'[r] = None
               /\ done'[r] \subseteq Wanted'
    BY <1>1, <2>1 DEF ChangeFile, own
  <2>5. QED BY <2>2, <2>3, <2>4
<1>2. CASE Tick
  BY <1>2 DEF Tick
<1>3. CASE Crash
  <2>1. IsFiniteSet({}) BY FS_EmptySet
  <2>2. QED BY <1>3, <2>1 DEF Crash
<1>4. ASSUME NEW r \in Readers, Begin(r) PROVE Seen'
  <2>1. IsFiniteSet({file}) BY FS_Singleton
  <2>2. QED BY <1>4, <2>1 DEF Begin
<1>5. ASSUME NEW r \in Readers, pc[r] # "idle", UNCHANGED <<file, mixed, during>>, Replies(r) PROVE Seen'
  BY <1>5, RepliesLeave
<1>6. ASSUME NEW r \in Readers, UNCHANGED <<file, mixed, during, own>>,
             pc[r] # "idle", NEW step \in {"wait", "recheck", "start"}, pc' = [pc EXCEPT ![r] = step]
      PROVE  Seen'
  BY <1>6 DEF own
<1>7. ASSUME NEW r \in Readers, Check(r) PROVE Seen'
  BY <1>5, <1>6, <1>7 DEF Check, Replies
<1>8. ASSUME NEW r \in Readers, Enter(r) \/ LockTimesOut(r) PROVE Seen'
  BY <1>5, <1>6, <1>8 DEF Enter, LockTimesOut, Replies, Outcomes
<1>9. ASSUME NEW r \in Readers, Recheck(r) PROVE Seen'
  BY <1>5, <1>6, <1>9 DEF Recheck, Replies
<1>10. ASSUME NEW r \in Readers, StartCommand(r) PROVE Seen'
  BY <1>10 DEF StartCommand
<1>11. ASSUME NEW r \in Readers, CommandReads(r) PROVE Seen'
  <2>1. CASE ReplyText(r) /\ Unlock(r) BY <1>5, <1>11, <2>1 DEF CommandReads, Replies
  <2>2. CASE ~(ReplyText(r) /\ Unlock(r))
    <3>1. PICK merged \in IF mixed THEN Merged ELSE {[done |-> Wanted, failed |-> {}]} :
            /\ merged # None
            /\ done' = [done EXCEPT ![r] = merged.done]
            /\ pc' = [pc EXCEPT ![r] = IF keep'[r] THEN "stamp" ELSE "reply"]
            /\ UNCHANGED <<layer, scan, stamp>>
      BY <1>11, <2>2 DEF CommandReads
    <3>2. merged.done \subseteq Wanted BY <3>1, MergeTakesWanted
    <3>3. done'[r] \subseteq Wanted /\ \A o \in Readers \ {r} : done'[o] = done[o] BY <3>1, <3>2
    <3>4. pc[r] = "run" /\ pc'[r] \in {"stamp", "reply"} /\ \A o \in Readers \ {r} : pc'[o] = pc[o]
      BY <1>11, <3>1 DEF CommandReads
    <3>5. QED BY <1>11, <3>1, <3>3, <3>4 DEF CommandReads
  <2>3. QED BY <2>1, <2>2
<1>12. ASSUME NEW r \in Readers, CommandFails(r) \/ AnswerOnly(r) PROVE Seen'
  BY <1>5, <1>12 DEF CommandFails, AnswerOnly, Replies, Outcomes
<1>13. ASSUME NEW r \in Readers, Stamp(r) PROVE Seen'
  BY <1>13 DEF Stamp
<1>14. ASSUME NEW r \in Readers, Replace(r) PROVE Seen'
  BY <1>5, <1>14 DEF Replace, Replies, Outcomes
<1>15. ASSUME NEW r \in Readers, EnterFails(r) \/ ExitFails(r) PROVE Seen'
  BY <1>5, <1>15, FailuresReply DEF EnterFails, ExitFails
<1>16. ASSUME NEW r \in Readers, Collect(r) PROVE Seen'
  <2>1. IsFiniteSet({}) BY FS_EmptySet
  <2>2. QED BY <1>16, <2>1 DEF Collect, own
<1>17. CASE UNCHANGED vars
  BY <1>17 DEF vars, own
<1> HIDE DEF TypeOK, ReaderTypeOK, Seen, Wanted, config
<1>18. QED
  BY <1>1, <1>2, <1>3, <1>4, <1>7, <1>8, <1>9, <1>10, <1>11, <1>12, <1>13, <1>14, <1>15, <1>16,
     <1>17
     DEF Next, ReadStep, LockFault

(* The sidecar is changed by Replace alone, and by a failure right after it. *)
LEMMA SidecarStays ==
  ASSUME [Next]_vars, \A r \in Readers : ~Replace(r) /\ ~ExitFails(r)
  PROVE  sidecar' = sidecar
BY DEF Next, ReadStep, LockFault, vars, ChangeFile, Tick, Crash, Begin, Check, Enter, EnterFails,
       LockTimesOut, Recheck,
       StartCommand, CommandReads, CommandFails, AnswerOnly, Stamp, Collect

LEMMA ConfigStays == [Next]_vars => config' = config
BY DEF Next, ReadStep, LockFault, vars, ChangeFile, Tick, Crash, Begin, Check, Enter, EnterFails,
       LockTimesOut, Recheck, StartCommand, CommandReads, CommandFails, AnswerOnly, Stamp, Replace,
       ExitFails, Collect

LEMMA NextKept == TypeOK /\ Seen /\ Kept /\ [Next]_vars => Kept'
<1> SUFFICES ASSUME TypeOK, Seen, Kept, [Next]_vars PROVE Kept'
  OBVIOUS
<1>1. Wanted' = Wanted BY ConfigStays DEF Wanted, config
<1>2. CASE sidecar' = sidecar
  BY <1>1, <1>2 DEF Kept
<1>3. ASSUME NEW r \in Readers, Replace(r) \/ ExitFails(r), sidecar' # sidecar PROVE Kept'
  <2>1. sidecar' = [print |-> stamp[r], layer |-> layer[r], scan |-> scan[r],
                    done |-> done[r], clean |-> Unchanged(r)]
    BY <1>3 DEF Replace, ExitFails, Written
  <2>2. pc[r] = "replace" BY <1>3 DEF Replace, ExitFails
  <2>3. sidecar'.done \subseteq Wanted BY <2>1 DEF Seen
  <2>4. ASSUME Unchanged(r)
        PROVE  scan[r] \in Versions /\ stamp[r] = Fingerprint[scan[r]] /\ layer[r] \in {None, scan[r]}
    <3>1. PICK u : during[r] = {u} BY <2>4, FS_Singleton DEF Unchanged, Seen
    <3>2. QED BY <2>2, <3>1 DEF Seen, TypeOK
  <2>5. sidecar'.clean <=> Unchanged(r) BY <2>1
  <2>6. /\ sidecar'.scan = scan[r] /\ sidecar'.print = stamp[r] /\ sidecar'.layer = layer[r]
    BY <2>1
  <2>7. QED BY <1>1, <2>3, <2>4, <2>5, <2>6 DEF Kept
<1>4. QED BY <1>2, <1>3, SidecarStays

LEMMA TwoVersions ==
  ASSUME NEW S, IsFiniteSet(S), NEW a \in S, NEW b \in S, a # b
  PROVE  Cardinality(S) > 1
<1>1. Cardinality(S) \in Nat BY FS_CardinalityType
<1>2. Cardinality(S) # 0 BY FS_EmptySet
<1>3. Cardinality(S) # 1 BY FS_Singleton
<1>4. QED BY <1>1, <1>2, <1>3

LEMMA NextNeeded == TypeOK /\ Locked /\ Seen /\ Needed /\ [Next]_vars => Needed'
<1> SUFFICES ASSUME TypeOK, Locked, Seen, Needed, [Next]_vars, cached', NEW r \in Readers,
                    pc'[r] \in {"start", "run"}, Valid'
             PROVE  Cardinality(during'[r]) > 1
  BY DEF Needed
<1>0. cached /\ Seen' /\ TypeOK' BY ConfigStays, NextSeen, NextTypeOK DEF config
<1>1. ASSUME NEW v \in Versions, ChangeFile(v) PROVE Cardinality(during'[r]) > 1
  <2>1. pc[r] # "idle" BY <1>1 DEF ChangeFile
  <2>2. file \in during'[r] /\ v \in during'[r] /\ v # file
    BY <1>1, <2>1 DEF ChangeFile, Seen, TypeOK
  <2>3. QED BY <1>0, <2>2, TwoVersions DEF Seen
<1>2. ASSUME NEW o \in Readers, Replace(o) \/ ExitFails(o), pc[o] = "replace" PROVE FALSE
  <2>1. pc' = [pc EXCEPT ![o] = "answered"]
    BY <1>2, RepliesLeave, FailuresReply DEF Replace, Replies, Outcomes
  <2>2. o # r /\ pc[r] \in {"start", "run"} BY <1>2, <2>1 DEF TypeOK, ReaderTypeOK
  <2>3. QED BY <1>0, <1>2, <2>2 DEF Locked, Critical
<1>3. CASE file' = file /\ sidecar' = sidecar
  <2>1. Valid BY <1>3 DEF Valid
  <2>2. pc[r] \in {"start", "run"} /\ during'[r] = during[r]
    <3>1. ASSUME NEW o \in Readers, Begin(o) PROVE pc[r] \in {"start", "run"} /\ during'[r] = during[r]
      BY <1>0, <3>1 DEF Begin, TypeOK, ReaderTypeOK
    <3>2. ASSUME NEW o \in Readers, Replies(o) PROVE pc[r] \in {"start", "run"}
      BY <3>2, RepliesLeave DEF TypeOK, ReaderTypeOK
    <3>3. ASSUME NEW o \in Readers, Check(o) \/ Recheck(o)
          PROVE  pc[r] \in {"start", "run"} /\ during'[r] = during[r]
      BY <2>1, <3>2, <3>3 DEF Check, Recheck, Replies, TypeOK, ReaderTypeOK
    <3>4. ASSUME NEW o \in Readers, LockTimesOut(o) \/ CommandFails(o) \/ AnswerOnly(o) \/ Replace(o)
          PROVE  pc[r] \in {"start", "run"} /\ during'[r] = during[r]
      BY <3>2, <3>4 DEF LockTimesOut, CommandFails, AnswerOnly, Replace, Replies, Outcomes
    <3>5. ASSUME NEW o \in Readers, CommandReads(o)
          PROVE  pc[r] \in {"start", "run"} /\ during'[r] = during[r]
      BY <3>2, <3>5 DEF CommandReads, Replies, TypeOK, ReaderTypeOK
    <3>6. ASSUME NEW o \in Readers, Enter(o) \/ StartCommand(o) \/ Stamp(o) \/ Collect(o)
          PROVE  pc[r] \in {"start", "run"} /\ during'[r] = during[r]
      BY <3>6 DEF Enter, StartCommand, Stamp, Collect, TypeOK, ReaderTypeOK
    <3>7. CASE Tick \/ Crash \/ UNCHANGED vars
      BY <3>7 DEF Tick, Crash, vars
    <3>8. ASSUME NEW v \in Versions, ChangeFile(v) PROVE FALSE BY <1>3, <3>8 DEF ChangeFile
    <3>9. ASSUME NEW o \in Readers, EnterFails(o) \/ ExitFails(o)
          PROVE  pc[r] \in {"start", "run"} /\ during'[r] = during[r]
      BY <3>2, <3>9, FailuresReply DEF EnterFails, ExitFails
    <3>10. QED BY <3>1, <3>3, <3>4, <3>5, <3>6, <3>7, <3>8, <3>9 DEF Next, ReadStep, LockFault
  <2>3. QED BY <1>0, <2>1, <2>2 DEF Needed
<1>4. QED
  <2>1. file' = file \/ \E v \in Versions : ChangeFile(v)
    BY DEF Next, ReadStep, LockFault, vars, Tick, Crash, Begin, Check, Enter, EnterFails, LockTimesOut,
           Recheck, StartCommand, CommandReads, CommandFails, AnswerOnly, Stamp, Replace,
           ExitFails, Collect
  <2>2. ASSUME sidecar' # sidecar
        PROVE  \E o \in Readers : (Replace(o) \/ ExitFails(o)) /\ pc[o] = "replace"
    BY <2>2, SidecarStays DEF Replace, ExitFails
  <2>3. QED BY <1>1, <1>2, <1>3, <2>1, <2>2

(* No two commands recognise the file at a time, and none recognises what a valid sidecar
   already told when it started.                                                          *)
THEOREM Once == Spec => []RecognisedOnce
<1>1. Locked /\ Needed => RecognisedOnce
  BY DEF Locked, Critical, Needed, RecognisedOnce, Running
<1>2. QED
  BY <1>1, InitTypeOK, NextTypeOK, InitLocked, NextLocked, InitSeen, NextSeen, NextNeeded, PTL
     DEF Spec

------------------------------------------------------------------------------
(* AnswersAreCurrent of one answer, given the versions the file had meanwhile. *)
Sound(a, versions) ==
  LET Current(v) == v = None \/ \E u \in versions : Fingerprint[u] = Fingerprint[v] IN
  /\ a.how # "sidecar" => {a.layer, a.scan} \subseteq versions \cup {None}
  /\ a.how = "sidecar" /\ a.clean => Current(a.scan) /\ a.layer \in {None, a.scan}
  /\ a.done \subseteq Wanted

LEMMA SoundForMore ==
  ASSUME NEW a, NEW S, NEW T, S \subseteq T, Sound(a, S)
  PROVE  Sound(a, T)
BY DEF Sound

LEMMA RepliesSound ==
  ASSUME TypeOK, Seen, Kept, NEW r \in Readers, pc[r] # "idle", Replies(r)
  PROVE  /\ Sound(answer'[r], during[r])
         /\ \A o \in Readers \ {r} : answer'[o] = answer[o]
<1> USE DEF TypeOK, ReaderTypeOK
<1>1. ASSUME NEW how, NEW from, NEW seen, NEW pages, NEW clean,
             Reply(r, how, from, seen, pages, clean)
      PROVE  /\ answer'[r].how = how /\ answer'[r].layer = from /\ answer'[r].scan = seen
             /\ answer'[r].done = pages /\ (answer'[r].clean <=> clean)
             /\ \A o \in Readers \ {r} : answer'[o] = answer[o]
  BY <1>1 DEF Reply
<1>2. CASE Valid /\ ReplyCached(r)
  <2>1. /\ answer'[r].how = "sidecar" /\ answer'[r].layer = sidecar.layer
        /\ answer'[r].scan = sidecar.scan /\ answer'[r].done = sidecar.done
        /\ (answer'[r].clean <=> sidecar.clean)
        /\ \A o \in Readers \ {r} : answer'[o] = answer[o]
    BY <1>1, <1>2 DEF ReplyCached
  <2>2. file \in during[r] /\ sidecar.print = Fingerprint[file] /\ sidecar # None
    BY <1>2 DEF Seen, Valid
  <2>3. QED BY <2>1, <2>2 DEF Kept, Sound
<1>3. CASE ReplyText(r)
  <2>1. /\ answer'[r].how = "text layer" /\ answer'[r].layer = layer[r]
        /\ answer'[r].scan = None /\ answer'[r].done = {}
        /\ \A o \in Readers \ {r} : answer'[o] = answer[o]
    BY <1>1, <1>3 DEF ReplyText
  <2>2. QED BY <2>1 DEF Seen, Sound
<1>4. CASE ReplyRead(r)
  BY <1>1, <1>4 DEF ReplyRead, Seen, Sound
<1>5. ASSUME NEW code \in Outcomes, ReplyError(r, code)
      PROVE  /\ Sound(answer'[r], during[r])
             /\ \A o \in Readers \ {r} : answer'[o] = answer[o]
  BY <1>1, <1>5 DEF ReplyError, Sound
<1>6. QED BY <1>2, <1>3, <1>4, <1>5 DEF Replies

LEMMA NextAnswersAreCurrent ==
  TypeOK /\ Seen /\ Kept /\ AnswersAreCurrent /\ [Next]_vars => AnswersAreCurrent'
<1> SUFFICES ASSUME TypeOK, Seen, Kept, AnswersAreCurrent, [Next]_vars PROVE AnswersAreCurrent'
  OBVIOUS
<1> SUFFICES ASSUME NEW r \in Readers, pc'[r] = "answered"
             PROVE  Sound(answer'[r], during'[r])
  <2>1. Wanted' = Wanted BY ConfigStays DEF Wanted, config
  <2>2. QED BY <2>1 DEF AnswersAreCurrent, Sound
<1>1. pc[r] = "answered" => Sound(answer[r], during[r]) BY DEF AnswersAreCurrent, Sound
<1>2. ASSUME pc[r] = "answered", answer'[r] = answer[r], during[r] \subseteq during'[r]
      PROVE  Sound(answer'[r], during'[r])
  BY <1>1, <1>2, SoundForMore
<1>3. ASSUME NEW o \in Readers, pc[o] # "idle", Replies(o), UNCHANGED during
      PROVE  Sound(answer'[r], during'[r])
  <2>1. CASE o = r BY <1>3, <2>1, RepliesSound
  <2>2. CASE o # r
    <3>1. pc[r] = "answered" BY <1>3, <2>2, RepliesLeave DEF TypeOK, ReaderTypeOK
    <3>2. answer'[r] = answer[r] BY <1>3, <2>2, RepliesSound
    <3>3. QED BY <1>2, <1>3, <3>1, <3>2
  <2>3. QED BY <2>1, <2>2
<1>4. ASSUME NEW v \in Versions, ChangeFile(v) PROVE Sound(answer'[r], during'[r])
  BY <1>2, <1>4 DEF ChangeFile, TypeOK
<1>5. CASE Tick \/ Crash \/ UNCHANGED vars
  BY <1>2, <1>5 DEF Tick, Crash, vars
<1>6. ASSUME NEW o \in Readers, Begin(o) \/ Collect(o) PROVE Sound(answer'[r], during'[r])
  BY <1>2, <1>6 DEF Begin, Collect, TypeOK, ReaderTypeOK
<1>7. ASSUME NEW o \in Readers, Check(o) \/ Enter(o) \/ Recheck(o) \/ StartCommand(o) \/ Stamp(o)
      PROVE  Sound(answer'[r], during'[r])
  <2>1. CASE Valid /\ ReplyCached(o)
    <3>1. pc[o] # "idle" /\ UNCHANGED during
      BY <1>7 DEF Check, Enter, Recheck, StartCommand, Stamp
    <3>2. QED BY <1>3, <2>1, <3>1 DEF Replies
  <2>2. CASE ~(Valid /\ ReplyCached(o))
    BY <1>2, <1>7, <2>2 DEF Check, Enter, Recheck, StartCommand, Stamp, TypeOK, ReaderTypeOK
  <2>3. QED BY <2>1, <2>2
<1>8. ASSUME NEW o \in Readers, LockTimesOut(o) \/ CommandFails(o) \/ AnswerOnly(o) \/ Replace(o)
      PROVE  Sound(answer'[r], during'[r])
  BY <1>3, <1>8 DEF LockTimesOut, CommandFails, AnswerOnly, Replace, Replies, Outcomes
<1>9. ASSUME NEW o \in Readers, CommandReads(o) PROVE Sound(answer'[r], during'[r])
  <2>1. CASE ReplyText(o)
    BY <1>3, <1>9, <2>1 DEF CommandReads, Replies
  <2>2. CASE ~ReplyText(o)
    BY <1>2, <1>9, <2>2 DEF CommandReads, TypeOK, ReaderTypeOK
  <2>3. QED BY <2>1, <2>2
<1>10. ASSUME NEW o \in Readers, EnterFails(o) \/ ExitFails(o) PROVE Sound(answer'[r], during'[r])
  BY <1>3, <1>10, FailuresReply DEF EnterFails, ExitFails
<1>11. QED
  BY <1>4, <1>5, <1>6, <1>7, <1>8, <1>9, <1>10 DEF Next, ReadStep, LockFault

(* What a read answers is what the file said while it was read, or a text with the same
   fingerprint, unless the sidecar it answers from was written while the file changed.  *)
THEOREM AnswersHold == Spec => []AnswersAreCurrent
<1>1. Init => AnswersAreCurrent BY DEF Init, AnswersAreCurrent
<1>2. QED
  BY <1>1, InitTypeOK, NextTypeOK, InitSeen, NextSeen, NextKept, NextAnswersAreCurrent, PTL DEF Spec
==============================================================================
