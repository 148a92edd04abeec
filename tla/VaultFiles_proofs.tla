------------------------- MODULE VaultFiles_proofs --------------------------
(***************************************************************************)
(* Proofs about VaultFiles.  The inductive invariant says what a thread's    *)
(* locals are at each step, that what it is about to place is nowhere else   *)
(* in the vault, and that what stands where it is about to write was there   *)
(* when it looked, in which case its own text contains it, or has been put   *)
(* there since.                                                              *)
(***************************************************************************)
EXTENDS VaultFiles, TLAPS

Writes(t) == pc[t] \in {"stage", "place", "unlink", "verify"}
Staged(t) == pc[t] \in {"stage", "place"}

Locals ==
  \A t \in Threads :
    /\ Writes(t) => kind[t] \in Writings /\ path[t] \in Paths /\ made[t] \in Versions
    /\ Staged(t) => ~placed[t]
    /\ pc[t] \in {"unlink", "verify"} => placed[t]
    /\ pc[t] = "rename" => t = Loop /\ path[t] \in Paths /\ to[t] \in Paths /\ path[t] # to[t]
    /\ pc[t] = "trash" => t = Loop /\ path[t] \in Paths /\ to[t] \in Stamps

(* Versions are numbered as they are written. *)
Numbered ==
  /\ \A p \in Paths : entry[p] <= written
  /\ \A s \in Stamps : trash[s] <= written
  /\ \A t \in Threads : made[t] <= written
  /\ \A t \in Threads : \A v \in since[t] : v <= written

(* A version a thread is about to place is its own. *)
Own ==
  \A t \in Threads : Staged(t) =>
    /\ \A p \in Paths : entry[p] # made[t]
    /\ \A u \in Threads \ {t} : Writes(u) => made[u] # made[t]

Temps ==
  /\ \A t \in Threads : temp[t] = IF pc[t] \in {"place", "unlink"} THEN made[t] ELSE Absent
  /\ faults = 0 => orphans = {}

(* What stands at p is in the text t has made, or has come since t looked. *)
Foreseen(t, p) ==
  entry[p] # Absent => entry[p] \in since[t] \/ text[entry[p]] \subseteq text[made[t]]

Looked ==
  /\ \A t \in Threads : Staged(t) /\ kind[t] \in Rewriting \cup {"template"} => Foreseen(t, path[t])
  /\ pc[Loop] = "rename" => entry[to[Loop]] = Absent \/ entry[to[Loop]] \in since[Loop]
  /\ pc[Loop] = "trash" /\ to[Loop] = Plain => trash[Plain] = Absent

IInv == TypeOK /\ Locals /\ Numbered /\ Own /\ Temps /\ Looked

(* Each step of the tools, of others and of the disk keeps every variable in its type. *)
LEMMA TypeOKKept == TypeOK /\ Locals /\ Temps /\ [Next]_vars => TypeOK'
<1> SUFFICES ASSUME TypeOK /\ Locals /\ Temps, [Next]_vars PROVE TypeOK'
  OBVIOUS
<1> USE BoundsAssumption, ThreadsAssumption, NamesAssumption
  DEF TypeOK, Locals, Temps, Threads, Writes, Staged, Versions, Stamps, Absent, Writings,
        Exclusive, Overwriting, Rewriting, Verified, disk, world, thread, past
<1>1. ASSUME NEW t \in Threads, NEW k \in Writings, NEW p \in Paths, Compose(t, k, p) PROVE TypeOK'
  BY <1>1 DEF Compose, Call, Composed
<1>2. ASSUME NEW t \in Threads, Stage(t) PROVE TypeOK'
  BY <1>2 DEF Stage
<1>3. ASSUME NEW t \in Threads, WriteFails(t) PROVE TypeOK'
  BY <1>3 DEF WriteFails, Answer
<1>4. ASSUME NEW t \in Threads, Replace(t) PROVE TypeOK'
  BY <1>4 DEF Replace, AnswerOrVerify, Answer, Disturb
<1>5. ASSUME NEW t \in Threads, Link(t) PROVE TypeOK'
  BY <1>5 DEF Link, Disturb
<1>6. ASSUME NEW t \in Threads, LinkRefused(t) PROVE TypeOK'
  BY <1>6 DEF LinkRefused, Answer
<1>7. ASSUME NEW t \in Threads, UnlinkTemp(t) PROVE TypeOK'
  BY <1>7 DEF UnlinkTemp, AnswerOrVerify, Answer
<1>8. ASSUME NEW t \in Threads, UnlinkFails(t) PROVE TypeOK'
  <2>1. orphans' \subseteq Versions
    BY <1>8 DEF UnlinkFails
  <2>2. /\ entry' = entry /\ trash' = trash /\ text' = text /\ written' = written /\ now' = now
        /\ placed' = placed /\ since' = since
        /\ faults' = faults + 1 /\ faults < MaxFaults
    BY <1>8 DEF UnlinkFails
  <2>3. temp' \in [Threads -> Versions \cup {Absent}]
    BY <1>8 DEF UnlinkFails
  <2>4. AnswerOrVerify(t)
    BY <1>8 DEF UnlinkFails
  <2> QED BY <2>1, <2>2, <2>3, <2>4 DEF AnswerOrVerify, Answer
<1>9. ASSUME NEW t \in Threads, Verify(t) PROVE TypeOK'
  BY <1>9 DEF Verify, Answer
<1>10. ASSUME NEW p \in Paths, NEW q \in Paths, Move(p, q) PROVE TypeOK'
  BY <1>10 DEF Move, Call
<1>11. ASSUME NEW p \in Paths, Delete(p) PROVE TypeOK'
  BY <1>11 DEF Delete, Call, TrashName
<1>12. ASSUME Rename PROVE TypeOK'
  <2>1. since' \in [Threads -> SUBSET (Versions \cup {Absent})]
    BY <1>12 DEF Rename, Answer, Disturb
  <2>2. entry' \in [Paths -> Versions \cup {Absent}]
    BY <1>12 DEF Rename, Answer
  <2> QED BY <1>12, <2>1, <2>2 DEF Rename, Answer
<1>13. ASSUME Trash PROVE TypeOK'
  BY <1>13 DEF Trash, Answer, Disturb
<1>14. ASSUME SourceGone PROVE TypeOK'
  BY <1>14 DEF SourceGone, Answer
<1>15. ASSUME NEW p \in Paths, NEW keep \in BOOLEAN, OtherWriter(p, keep) PROVE TypeOK'
  BY <1>15 DEF OtherWriter
<1>16. ASSUME NEW p \in Paths, OtherRemoval(p) PROVE TypeOK'
  BY <1>16 DEF OtherRemoval
<1>17. ASSUME Tick PROVE TypeOK'
  BY <1>17 DEF Tick
<1>18. ASSUME Crash PROVE TypeOK'
  <2>1. orphans' \subseteq Versions
    BY <1>18 DEF Crash
  <2> QED BY <1>18, <2>1 DEF Crash
<1>19. CASE UNCHANGED vars
  BY <1>19 DEF vars
<1> HIDE DEF TypeOK, Locals, Temps
<1> QED BY <1>1, <1>2, <1>3, <1>4, <1>5, <1>6, <1>7, <1>8, <1>9, <1>10, <1>11, <1>12, <1>13,
      <1>14, <1>15, <1>16, <1>17, <1>18, <1>19 DEF Next

(* A thread's locals fit the step it is at: it writes a version to a path, moves between
   two paths, or deletes a path into the trash (vault.py 907-1100). *)
LEMMA LocalsKept == TypeOK /\ Locals /\ [Next]_vars => Locals'
<1> SUFFICES ASSUME TypeOK /\ Locals, [Next]_vars PROVE Locals'
  OBVIOUS
<1> USE BoundsAssumption, ThreadsAssumption, NamesAssumption
  DEF TypeOK, Locals, Threads, Writes, Staged, Versions, Stamps, Absent, Writings, Exclusive,
        Overwriting, Rewriting, Verified, disk, world, thread, past
<1>1. ASSUME NEW t \in Threads, NEW k \in Writings, NEW p \in Paths, Compose(t, k, p) PROVE Locals'
  BY <1>1 DEF Compose, Call, Composed
<1>2. ASSUME NEW t \in Threads, Stage(t) PROVE Locals'
  BY <1>2 DEF Stage
<1>3. ASSUME NEW t \in Threads, WriteFails(t) PROVE Locals'
  BY <1>3 DEF WriteFails, Answer
<1>4. ASSUME NEW t \in Threads, Replace(t) PROVE Locals'
  BY <1>4 DEF Replace, AnswerOrVerify, Answer, Disturb
<1>5. ASSUME NEW t \in Threads, Link(t) PROVE Locals'
  BY <1>5 DEF Link, Disturb
<1>6. ASSUME NEW t \in Threads, LinkRefused(t) PROVE Locals'
  BY <1>6 DEF LinkRefused, Answer
<1>7. ASSUME NEW t \in Threads, UnlinkTemp(t) PROVE Locals'
  BY <1>7 DEF UnlinkTemp, AnswerOrVerify, Answer
<1>8. ASSUME NEW t \in Threads, UnlinkFails(t) PROVE Locals'
  BY <1>8 DEF UnlinkFails, AnswerOrVerify, Answer
<1>9. ASSUME NEW t \in Threads, Verify(t) PROVE Locals'
  BY <1>9 DEF Verify, Answer
<1>10. ASSUME NEW p \in Paths, NEW q \in Paths, Move(p, q) PROVE Locals'
  BY <1>10 DEF Move, Call
<1>11. ASSUME NEW p \in Paths, Delete(p) PROVE Locals'
  BY <1>11 DEF Delete, Call, TrashName
<1>12. ASSUME Rename PROVE Locals'
  BY <1>12 DEF Rename, Answer, Disturb
<1>13. ASSUME Trash PROVE Locals'
  BY <1>13 DEF Trash, Answer, Disturb
<1>14. ASSUME SourceGone PROVE Locals'
  BY <1>14 DEF SourceGone, Answer
<1>15. ASSUME NEW p \in Paths, NEW keep \in BOOLEAN, OtherWriter(p, keep) PROVE Locals'
  BY <1>15 DEF OtherWriter
<1>16. ASSUME NEW p \in Paths, OtherRemoval(p) PROVE Locals'
  BY <1>16 DEF OtherRemoval
<1>17. ASSUME Tick PROVE Locals'
  BY <1>17 DEF Tick
<1>18. ASSUME Crash PROVE Locals'
  BY <1>18 DEF Crash
<1>19. CASE UNCHANGED vars
  BY <1>19 DEF vars
<1> HIDE DEF TypeOK, Locals
<1> QED BY <1>1, <1>2, <1>3, <1>4, <1>5, <1>6, <1>7, <1>8, <1>9, <1>10, <1>11, <1>12, <1>13,
      <1>14, <1>15, <1>16, <1>17, <1>18, <1>19 DEF Next

(* No file, name in the trash or local refers to a version that is not yet written. *)
LEMMA NumberedKept == TypeOK /\ Locals /\ Numbered /\ [Next]_vars => Numbered'
<1> SUFFICES ASSUME TypeOK /\ Locals /\ Numbered, [Next]_vars PROVE Numbered'
  OBVIOUS
<1> USE BoundsAssumption, ThreadsAssumption, NamesAssumption
  DEF TypeOK, Locals, Numbered, Writes, Versions, Absent, Threads, disk, world, thread, past
<1>1. ASSUME NEW t \in Threads, NEW k \in Writings, NEW p \in Paths, Compose(t, k, p) PROVE Numbered'
  <2>1. written' = written + 1 /\ written \in Nat /\ entry' = entry /\ trash' = trash
    BY <1>1 DEF Compose
  <2>2. made' = [made EXCEPT ![t] = written + 1] /\ since' = [since EXCEPT ![t] = {}]
    BY <1>1 DEF Compose, Call
  <2>3. \A n \in Versions \cup {Absent} : n <= written => n <= written + 1
    BY <2>1
  <2>4. (\A q \in Paths : entry[q] <= written + 1) /\ (\A s \in Stamps : trash[s] <= written + 1)
    BY <2>3
  <2>5. \A u \in Threads : made'[u] <= written + 1
    <3> SUFFICES ASSUME NEW u \in Threads PROVE made'[u] <= written + 1
      OBVIOUS
    <3>1. made'[u] = written + 1 \/ made'[u] = made[u]
      BY <2>2
    <3>2. made[u] <= written + 1
      BY <2>3
    <3> QED BY <3>1, <3>2, <2>1
  <2>6. \A u \in Threads : \A v \in since'[u] : v <= written + 1
    <3> SUFFICES ASSUME NEW u \in Threads, NEW v \in since'[u] PROVE v <= written + 1
      OBVIOUS
    <3>1. v \in since[u]
      BY <2>2
    <3> QED BY <3>1, <2>3
  <2> QED BY <2>1, <2>4, <2>5, <2>6
<1>2. ASSUME NEW t \in Threads, Stage(t) PROVE Numbered'
  BY <1>2 DEF Stage
<1>3. ASSUME NEW t \in Threads, WriteFails(t) PROVE Numbered'
  BY <1>3 DEF WriteFails, Answer
<1>4. ASSUME NEW t \in Threads, Replace(t) PROVE Numbered'
  BY <1>4 DEF Replace, AnswerOrVerify, Answer, Disturb
<1>5. ASSUME NEW t \in Threads, Link(t) PROVE Numbered'
  BY <1>5 DEF Link, Disturb
<1>6. ASSUME NEW t \in Threads, LinkRefused(t) PROVE Numbered'
  BY <1>6 DEF LinkRefused, Answer
<1>7. ASSUME NEW t \in Threads, UnlinkTemp(t) PROVE Numbered'
  BY <1>7 DEF UnlinkTemp, AnswerOrVerify, Answer
<1>8. ASSUME NEW t \in Threads, UnlinkFails(t) PROVE Numbered'
  BY <1>8 DEF UnlinkFails, AnswerOrVerify, Answer
<1>9. ASSUME NEW t \in Threads, Verify(t) PROVE Numbered'
  BY <1>9 DEF Verify, Answer
<1>10. ASSUME NEW p \in Paths, NEW q \in Paths, Move(p, q) PROVE Numbered'
  BY <1>10 DEF Move, Call
<1>11. ASSUME NEW p \in Paths, Delete(p) PROVE Numbered'
  BY <1>11 DEF Delete, Call, TrashName
<1>12. ASSUME Rename PROVE Numbered'
  <2> DEFINE p == path[Loop]
  <2>1. written' = written /\ trash' = trash /\ written \in Nat
    BY <1>12 DEF Rename
  <2>2. \A u \in Threads : made'[u] \in {made[u], 0}
    BY <1>12 DEF Rename, Answer
  <2>3. \A q \in Paths : \/ entry'[q] \in {entry[p], 0} /\ p \in Paths
                         \/ entry'[q] = entry[q]
    BY <1>12 DEF Rename
  <2>4. \A u \in Threads : since'[u] \subseteq since[u] \cup {0, entry[p]} /\ p \in Paths
    BY <1>12 DEF Rename, Disturb
  <2>5. \A q \in Paths : entry'[q] <= written
    BY <2>1, <2>3
  <2>6. \A u \in Threads : made'[u] <= written
    BY <2>1, <2>2
  <2>7. \A u \in Threads : \A v \in since'[u] : v <= written
    <3> SUFFICES ASSUME NEW u \in Threads, NEW v \in since'[u] PROVE v <= written
      OBVIOUS
    <3>1. v \in since[u] \/ v = 0 \/ (v = entry[p] /\ p \in Paths)
      BY <2>4
    <3> QED BY <3>1, <2>1
  <2> QED BY <2>1, <2>5, <2>6, <2>7
<1>13. ASSUME Trash PROVE Numbered'
  BY <1>13 DEF Trash, Answer, Disturb
<1>14. ASSUME SourceGone PROVE Numbered'
  BY <1>14 DEF SourceGone, Answer
<1>15. ASSUME NEW p \in Paths, NEW keep \in BOOLEAN, OtherWriter(p, keep) PROVE Numbered'
  <2>1. written' = written + 1 /\ written \in Nat /\ made' = made /\ trash' = trash
    BY <1>15 DEF OtherWriter
  <2>2. entry' = [entry EXCEPT ![p] = written + 1]
    BY <1>15 DEF OtherWriter
  <2>3. \A u \in Threads : since'[u] \subseteq since[u] \cup {written + 1}
    BY <1>15 DEF OtherWriter
  <2>4. \A n \in Versions \cup {Absent} : n <= written => n <= written + 1
    BY <2>1
  <2>5. \A q \in Paths : entry'[q] <= written + 1
    BY <2>1, <2>2, <2>4
  <2>6. \A u \in Threads : \A v \in since'[u] : v <= written + 1
    <3> SUFFICES ASSUME NEW u \in Threads, NEW v \in since'[u] PROVE v <= written + 1
      OBVIOUS
    <3>1. v \in since[u] \/ v = written + 1
      BY <2>3
    <3>2. written \in Nat /\ (v \in since[u] => v \in Nat /\ v <= written)
      BY <2>1
    <3> QED BY <3>1, <3>2
  <2>7. (\A u \in Threads : made[u] <= written + 1) /\ (\A s \in Stamps : trash[s] <= written + 1)
    BY <2>4
  <2> QED BY <2>1, <2>5, <2>6, <2>7
<1>16. ASSUME NEW p \in Paths, OtherRemoval(p) PROVE Numbered'
  BY <1>16 DEF OtherRemoval
<1>17. ASSUME Tick PROVE Numbered'
  BY <1>17 DEF Tick
<1>18. ASSUME Crash PROVE Numbered'
  BY <1>18 DEF Crash
<1>19. CASE UNCHANGED vars
  BY <1>19 DEF vars
<1> HIDE DEF TypeOK, Locals, Numbered
<1> QED BY <1>1, <1>2, <1>3, <1>4, <1>5, <1>6, <1>7, <1>8, <1>9, <1>10, <1>11, <1>12, <1>13,
      <1>14, <1>15, <1>16, <1>17, <1>18, <1>19 DEF Next

(* What a thread is about to place is neither in the vault nor another thread's. *)
LEMMA OwnKept == TypeOK /\ Locals /\ Numbered /\ Own /\ [Next]_vars => Own'
<1> SUFFICES ASSUME TypeOK /\ Locals /\ Numbered /\ Own, [Next]_vars PROVE Own'
  OBVIOUS
<1> USE BoundsAssumption, ThreadsAssumption, NamesAssumption
  DEF TypeOK, Locals, Numbered, Own, Writes, Staged, Versions, Absent, Threads, disk, world,
        thread, past
<1>1. ASSUME NEW t \in Threads, NEW k \in Writings, NEW p \in Paths, Compose(t, k, p) PROVE Own'
  BY <1>1 DEF Compose, Call, Composed
<1>2. ASSUME NEW t \in Threads, Stage(t) PROVE Own'
  BY <1>2 DEF Stage
<1>3. ASSUME NEW t \in Threads, WriteFails(t) PROVE Own'
  BY <1>3 DEF WriteFails, Answer
<1>4. ASSUME NEW t \in Threads, Replace(t) PROVE Own'
  BY <1>4 DEF Replace, AnswerOrVerify, Answer, Disturb
<1>5. ASSUME NEW t \in Threads, Link(t) PROVE Own'
  BY <1>5 DEF Link, Disturb
<1>6. ASSUME NEW t \in Threads, LinkRefused(t) PROVE Own'
  BY <1>6 DEF LinkRefused, Answer
<1>7. ASSUME NEW t \in Threads, UnlinkTemp(t) PROVE Own'
  BY <1>7 DEF UnlinkTemp, AnswerOrVerify, Answer
<1>8. ASSUME NEW t \in Threads, UnlinkFails(t) PROVE Own'
  BY <1>8 DEF UnlinkFails, AnswerOrVerify, Answer
<1>9. ASSUME NEW t \in Threads, Verify(t) PROVE Own'
  BY <1>9 DEF Verify, Answer
<1>10. ASSUME NEW p \in Paths, NEW q \in Paths, Move(p, q) PROVE Own'
  BY <1>10 DEF Move, Call
<1>11. ASSUME NEW p \in Paths, Delete(p) PROVE Own'
  BY <1>11 DEF Delete, Call, TrashName
<1>12. ASSUME Rename PROVE Own'
  BY <1>12 DEF Rename, Answer, Disturb
<1>13. ASSUME Trash PROVE Own'
  BY <1>13 DEF Trash, Answer, Disturb
<1>14. ASSUME SourceGone PROVE Own'
  BY <1>14 DEF SourceGone, Answer
<1>15. ASSUME NEW p \in Paths, NEW keep \in BOOLEAN, OtherWriter(p, keep) PROVE Own'
  BY <1>15 DEF OtherWriter
<1>16. ASSUME NEW p \in Paths, OtherRemoval(p) PROVE Own'
  BY <1>16 DEF OtherRemoval
<1>17. ASSUME Tick PROVE Own'
  BY <1>17 DEF Tick
<1>18. ASSUME Crash PROVE Own'
  BY <1>18 DEF Crash
<1>19. CASE UNCHANGED vars
  BY <1>19 DEF vars
<1> HIDE DEF TypeOK, Locals, Numbered, Own
<1> QED BY <1>1, <1>2, <1>3, <1>4, <1>5, <1>6, <1>7, <1>8, <1>9, <1>10, <1>11, <1>12, <1>13,
      <1>14, <1>15, <1>16, <1>17, <1>18, <1>19 DEF Next

(* A temp name exists only from mkstemp to the replace or the unlink, unless there was
   a fault (vault.py 939-951, 975-998). *)
LEMMA TempsKept == TypeOK /\ Locals /\ Temps /\ [Next]_vars => Temps'
<1> SUFFICES ASSUME TypeOK /\ Locals /\ Temps, [Next]_vars PROVE Temps'
  OBVIOUS
<1> USE BoundsAssumption, ThreadsAssumption, NamesAssumption
  DEF TypeOK, Locals, Temps, Writes, Staged, Absent, Versions, Threads, disk, world, thread,
        past
<1>1. ASSUME NEW t \in Threads, NEW k \in Writings, NEW p \in Paths, Compose(t, k, p) PROVE Temps'
  BY <1>1 DEF Compose, Call, Composed
<1>2. ASSUME NEW t \in Threads, Stage(t) PROVE Temps'
  BY <1>2 DEF Stage
<1>3. ASSUME NEW t \in Threads, WriteFails(t) PROVE Temps'
  BY <1>3 DEF WriteFails, Answer
<1>4. ASSUME NEW t \in Threads, Replace(t) PROVE Temps'
  BY <1>4 DEF Replace, AnswerOrVerify, Answer, Disturb
<1>5. ASSUME NEW t \in Threads, Link(t) PROVE Temps'
  BY <1>5 DEF Link, Disturb
<1>6. ASSUME NEW t \in Threads, LinkRefused(t) PROVE Temps'
  BY <1>6 DEF LinkRefused, Answer
<1>7. ASSUME NEW t \in Threads, UnlinkTemp(t) PROVE Temps'
  BY <1>7 DEF UnlinkTemp, AnswerOrVerify, Answer
<1>8. ASSUME NEW t \in Threads, UnlinkFails(t) PROVE Temps'
  BY <1>8 DEF UnlinkFails, AnswerOrVerify, Answer
<1>9. ASSUME NEW t \in Threads, Verify(t) PROVE Temps'
  BY <1>9 DEF Verify, Answer
<1>10. ASSUME NEW p \in Paths, NEW q \in Paths, Move(p, q) PROVE Temps'
  BY <1>10 DEF Move, Call
<1>11. ASSUME NEW p \in Paths, Delete(p) PROVE Temps'
  BY <1>11 DEF Delete, Call, TrashName
<1>12. ASSUME Rename PROVE Temps'
  BY <1>12 DEF Rename, Answer, Disturb
<1>13. ASSUME Trash PROVE Temps'
  BY <1>13 DEF Trash, Answer, Disturb
<1>14. ASSUME SourceGone PROVE Temps'
  BY <1>14 DEF SourceGone, Answer
<1>15. ASSUME NEW p \in Paths, NEW keep \in BOOLEAN, OtherWriter(p, keep) PROVE Temps'
  BY <1>15 DEF OtherWriter
<1>16. ASSUME NEW p \in Paths, OtherRemoval(p) PROVE Temps'
  BY <1>16 DEF OtherRemoval
<1>17. ASSUME Tick PROVE Temps'
  BY <1>17 DEF Tick
<1>18. ASSUME Crash PROVE Temps'
  BY <1>18 DEF Crash
<1>19. CASE UNCHANGED vars
  BY <1>19 DEF vars
<1> HIDE DEF TypeOK, Locals, Temps
<1> QED BY <1>1, <1>2, <1>3, <1>4, <1>5, <1>6, <1>7, <1>8, <1>9, <1>10, <1>11, <1>12, <1>13,
      <1>14, <1>15, <1>16, <1>17, <1>18, <1>19 DEF Next

(* What a tool looked at is as it was, or is known to have changed since. *)
LEMMA LookedKept == IInv /\ [Next]_vars => Looked'
<1> SUFFICES ASSUME IInv, [Next]_vars PROVE Looked'
  OBVIOUS
<1> USE BoundsAssumption, ThreadsAssumption, NamesAssumption
  DEF IInv, TypeOK, Locals, Numbered, Looked, Foreseen, Writes, Staged, Versions, Absent,
        Threads, Stamps, disk, world, thread, past
<1>1. ASSUME NEW t \in Threads, NEW k \in Writings, NEW p \in Paths, Compose(t, k, p) PROVE Looked'
  BY <1>1 DEF Compose, Call, Composed
<1>2. ASSUME NEW t \in Threads, Stage(t) PROVE Looked'
  BY <1>2 DEF Stage
<1>3. ASSUME NEW t \in Threads, WriteFails(t) PROVE Looked'
  BY <1>3 DEF WriteFails, Answer
<1>4. ASSUME NEW t \in Threads, Replace(t) PROVE Looked'
  BY <1>4 DEF Replace, AnswerOrVerify, Answer, Disturb
<1>5. ASSUME NEW t \in Threads, Link(t) PROVE Looked'
  BY <1>5 DEF Link, Disturb
<1>6. ASSUME NEW t \in Threads, LinkRefused(t) PROVE Looked'
  BY <1>6 DEF LinkRefused, Answer
<1>7. ASSUME NEW t \in Threads, UnlinkTemp(t) PROVE Looked'
  BY <1>7 DEF UnlinkTemp, AnswerOrVerify, Answer
<1>8. ASSUME NEW t \in Threads, UnlinkFails(t) PROVE Looked'
  BY <1>8 DEF UnlinkFails, AnswerOrVerify, Answer
<1>9. ASSUME NEW t \in Threads, Verify(t) PROVE Looked'
  BY <1>9 DEF Verify, Answer
<1>10. ASSUME NEW p \in Paths, NEW q \in Paths, Move(p, q) PROVE Looked'
  BY <1>10 DEF Move, Call
<1>11. ASSUME NEW p \in Paths, Delete(p) PROVE Looked'
  BY <1>11 DEF Delete, Call, TrashName
<1>12. ASSUME Rename PROVE Looked'
  BY <1>12 DEF Rename, Answer, Disturb
<1>13. ASSUME Trash PROVE Looked'
  BY <1>13 DEF Trash, Answer, Disturb
<1>14. ASSUME SourceGone PROVE Looked'
  BY <1>14 DEF SourceGone, Answer
<1>15. ASSUME NEW p \in Paths, NEW keep \in BOOLEAN, OtherWriter(p, keep) PROVE Looked'
  BY <1>15 DEF OtherWriter
<1>16. ASSUME NEW p \in Paths, OtherRemoval(p) PROVE Looked'
  BY <1>16 DEF OtherRemoval
<1>17. ASSUME Tick PROVE Looked'
  BY <1>17 DEF Tick
<1>18. ASSUME Crash PROVE Looked'
  BY <1>18 DEF Crash
<1>19. CASE UNCHANGED vars
  BY <1>19 DEF vars
<1> HIDE DEF IInv, TypeOK, Locals, Numbered, Looked, Foreseen
<1> QED BY <1>1, <1>2, <1>3, <1>4, <1>5, <1>6, <1>7, <1>8, <1>9, <1>10, <1>11, <1>12, <1>13,
      <1>14, <1>15, <1>16, <1>17, <1>18, <1>19 DEF Next

(* The inductive invariant holds always. *)
LEMMA Inductive == Spec => []IInv
<1>1. Init => IInv
  BY BoundsAssumption
  DEF Init, IInv, TypeOK, Locals, Numbered, Own, Temps, Looked, Foreseen, Writes, Staged,
      Threads, Versions, Absent, Stamps
<1>2. IInv /\ [Next]_vars => IInv'
  BY TypeOKKept, LocalsKept, NumberedKept, OwnKept, TempsKept, LookedKept DEF IInv
<1> QED BY <1>1, <1>2, PTL DEF Spec

(* Every variable keeps its type; above all, the temp names and the trash hold versions. *)
THEOREM TypeCorrect == Spec => []TypeOK
<1>1. IInv => TypeOK
  BY DEF IInv
<1> QED BY <1>1, Inductive, PTL

(* A note has a second name, which makes read_file refuse it, only between os.link and
   the unlink of the tool that makes it, unless there was a fault (vault.py 984-991). *)
THEOREM AlwaysReadableAgain == Spec => []ReadableAgain
<1>1. IInv => ReadableAgain
  <2> SUFFICES ASSUME IInv, faults = 0, NEW p \in Paths, Linked(p)
               PROVE  \E t \in Threads : pc[t] = "unlink" /\ made[t] = entry[p]
    BY DEF ReadableAgain
  <2>1. PICK t \in Threads : temp[t] = entry[p] /\ entry[p] # Absent
    BY DEF Linked, IInv, Temps
  <2>2. pc[t] \in {"place", "unlink"} /\ made[t] = entry[p]
    BY <2>1 DEF IInv, Temps
  <2>3. pc[t] # "place"
    BY <2>2 DEF IInv, Own, Staged
  <2> QED BY <2>2, <2>3
<1> QED BY <1>1, Inductive, PTL

(* A tool says that it is done only if it is, and that the file exists only if it has
   changed nothing (write.py 68-84, create_note.py 248-293). *)
THEOREM AnswersAreTrue == Spec => RepliesTellTheTruth
<1>1. IInv /\ [Next]_vars => [\A t \in Threads : TellsTheTruth(t)]_vars
  <2> SUFFICES ASSUME IInv, Next, NEW u \in Threads PROVE TellsTheTruth(u)
    OBVIOUS
  <2> USE DEF TellsTheTruth, Answers, Answer, IInv, TypeOK, Locals, Threads, Staged
  <2>1. ASSUME NEW t \in Threads, NEW k \in Writings, NEW p \in Paths, Compose(t, k, p)
        PROVE  TellsTheTruth(u)
    BY <2>1 DEF Compose, Call
  <2>2. ASSUME NEW t \in Threads, Stage(t) \/ WriteFails(t) \/ Link(t) \/ LinkRefused(t)
        PROVE  TellsTheTruth(u)
    BY <2>2 DEF Stage, WriteFails, Link, LinkRefused, past
  <2>3. ASSUME NEW t \in Threads, Replace(t) PROVE TellsTheTruth(u)
    BY <2>3 DEF Replace, AnswerOrVerify
  <2>4. ASSUME NEW t \in Threads, UnlinkTemp(t) \/ UnlinkFails(t) PROVE TellsTheTruth(u)
    BY <2>4 DEF UnlinkTemp, UnlinkFails, AnswerOrVerify, past
  <2>5. ASSUME NEW t \in Threads, Verify(t) PROVE TellsTheTruth(u)
    BY <2>5 DEF Verify, past
  <2>6. ASSUME NEW p \in Paths, NEW q \in Paths, Move(p, q) \/ Delete(p) PROVE TellsTheTruth(u)
    BY <2>6 DEF Move, Delete, Call
  <2>7. ASSUME Rename \/ Trash \/ SourceGone PROVE TellsTheTruth(u)
    BY <2>7, ThreadsAssumption DEF Rename, Trash, SourceGone, past
  <2>8. ASSUME NEW p \in Paths, NEW keep \in BOOLEAN, OtherWriter(p, keep) \/ OtherRemoval(p)
        PROVE  TellsTheTruth(u)
    BY <2>8 DEF OtherWriter, OtherRemoval, thread
  <2>9. ASSUME Tick \/ Crash PROVE TellsTheTruth(u)
    BY <2>9 DEF Tick, Crash, thread
  <2> HIDE DEF IInv, TellsTheTruth
  <2> QED BY <2>1, <2>2, <2>3, <2>4, <2>5, <2>6, <2>7, <2>8, <2>9 DEF Next
<1> QED BY <1>1, Inductive, PTL DEF Spec, RepliesTellTheTruth

(* What is kept, as the places it is kept in. *)
LEMMA KeptPlaces ==
  ASSUME NEW c
  PROVE  c \in Kept <=> \/ \E p \in Paths : entry[p] # Absent /\ c \in text[entry[p]]
                        \/ \E s \in Stamps : trash[s] # Absent /\ c \in text[trash[s]]
  BY DEF Kept, TextsOf

(* The same, after a step. *)
LEMMA KeptPlacesNext ==
  ASSUME NEW c
  PROVE  c \in Kept' <=> \/ \E p \in Paths : entry'[p] # Absent /\ c \in text'[entry'[p]]
                         \/ \E s \in Stamps : trash'[s] # Absent /\ c \in text'[trash'[s]]
  BY DEF Kept, TextsOf

(* Text leaves the vault and its trash for the four stated reasons only: every replace, link
   and rename of vault.py 907-1100, with every interleaving of other writers. *)
THEOREM LossAlwaysExplained == Spec => NoUnexplainedLoss
<1>1. IInv /\ [Next]_vars => [LossIsExplained]_vars
  <2> SUFFICES ASSUME IInv, Next, NEW c \in Kept, c \notin Kept'
               PROVE  Explained(c)
    BY DEF LossIsExplained
  <2>a. \/ \E p \in Paths : entry[p] # Absent /\ c \in text[entry[p]]
        \/ \E s \in Stamps : trash[s] # Absent /\ c \in text[trash[s]]
    BY KeptPlaces
  <2>b. /\ \A p \in Paths : entry'[p] # Absent => c \notin text'[entry'[p]]
        /\ \A s \in Stamps : trash'[s] # Absent => c \notin text'[trash'[s]]
    BY KeptPlacesNext
  <2>c. ~(entry' = entry /\ trash' = trash /\ text' = text)
    BY <2>a, <2>b
  <2>1. ASSUME NEW t \in Threads, NEW k \in Writings, NEW p \in Paths, Compose(t, k, p)
        PROVE  FALSE
    <3>1. entry' = entry /\ trash' = trash /\ text' = [text EXCEPT ![written + 1] = Composed(k, p, written + 1)]
      BY <2>1 DEF Compose, disk
    <3>2. \A v \in Versions : v <= written => text'[v] = text[v]
      BY <3>1 DEF IInv, TypeOK, Versions
    <3> QED BY <3>1, <3>2, <2>a, <2>b DEF IInv, TypeOK, Numbered
  <2>2. ASSUME NEW t \in Threads, Stage(t) \/ WriteFails(t) \/ LinkRefused(t) \/ UnlinkTemp(t) \/ UnlinkFails(t) \/ Verify(t)
        PROVE  FALSE
    BY <2>2, <2>c DEF Stage, WriteFails, LinkRefused, UnlinkTemp, UnlinkFails, Verify, disk,
          world
  <2>3. ASSUME NEW t \in Threads, Replace(t) PROVE Explained(c)
    <3>0. pc[t] = "place" /\ placed'[t] /\ pc'[t] # "place"
      BY <2>3 DEF Replace, AnswerOrVerify, Answer, IInv, TypeOK
    <3>1. /\ entry' = [entry EXCEPT ![path[t]] = made[t]] /\ trash' = trash /\ text' = text
          /\ path[t] \in Paths /\ made[t] \in Versions /\ kind[t] \in Writings /\ kind[t] \notin Exclusive
      BY <2>3, <3>0 DEF Replace, world, IInv, Locals, Writes
    <3>2. entry[path[t]] # Absent /\ c \in text[entry[path[t]]] /\ c \notin text[made[t]]
      BY <3>1, <2>a, <2>b DEF IInv, TypeOK, Absent, Versions
    <3>3. CASE kind[t] \in Overwriting
      BY <3>3, <3>0 DEF Explained, Acts
    <3>4. CASE kind[t] \in Rewriting \cup {"template"}
      <4>1. entry[path[t]] \in since[t]
        BY <3>0, <3>2, <3>4 DEF IInv, Looked, Foreseen, Staged
      <4>2. c \in TextsOf(since[t])
        BY <4>1, <3>2 DEF TextsOf
      <4> QED BY <4>2, <3>0 DEF Explained, Acts
    <3> QED BY <3>1, <3>3, <3>4 DEF Writings
  <2>4. ASSUME NEW t \in Threads, Link(t) PROVE FALSE
    <3>1. /\ entry' = [entry EXCEPT ![path[t]] = made[t]] /\ trash' = trash /\ text' = text
          /\ entry[path[t]] = Absent
      BY <2>4 DEF Link, world
    <3> QED BY <3>1, <2>a, <2>b DEF IInv, TypeOK
  <2>5. ASSUME NEW p \in Paths, NEW q \in Paths, Move(p, q) \/ Delete(p) PROVE FALSE
    BY <2>5, <2>c DEF Move, Delete, disk, world
  <2>6. ASSUME Rename PROVE Explained(c)
    <3>0. pc[Loop] = "rename" /\ placed'[Loop] /\ pc'[Loop] # "rename"
      BY <2>6 DEF Rename, Answer, IInv, TypeOK, Threads
    <3>1. /\ entry' = [entry EXCEPT ![to[Loop]] = entry[path[Loop]], ![path[Loop]] = Absent]
          /\ trash' = trash /\ text' = text /\ entry[path[Loop]] # Absent
          /\ path[Loop] \in Paths /\ to[Loop] \in Paths /\ path[Loop] # to[Loop]
      BY <2>6, <3>0 DEF Rename, world, IInv, Locals, Threads
    <3>2. /\ entry'[to[Loop]] = entry[path[Loop]]
          /\ \A p \in Paths \ {path[Loop], to[Loop]} : entry'[p] = entry[p]
      BY <3>1 DEF IInv, TypeOK
    <3>3. entry[to[Loop]] # Absent /\ c \in text[entry[to[Loop]]]
      BY <3>1, <3>2, <2>a, <2>b
    <3>4. c \in TextsOf(since[Loop])
      BY <3>0, <3>3 DEF IInv, Looked, TextsOf
    <3> QED BY <3>4, <3>0 DEF Explained, Acts
  <2>7. ASSUME Trash PROVE Explained(c)
    <3>0. pc[Loop] = "trash" /\ placed'[Loop] /\ pc'[Loop] # "trash"
      BY <2>7 DEF Trash, Answer, IInv, TypeOK, Threads
    <3>1. /\ trash' = [trash EXCEPT ![to[Loop]] = entry[path[Loop]]]
          /\ entry' = [entry EXCEPT ![path[Loop]] = Absent]
          /\ text' = text /\ entry[path[Loop]] # Absent
          /\ path[Loop] \in Paths /\ to[Loop] \in Stamps
      BY <2>7, <3>0 DEF Trash, world, IInv, Locals, Threads
    <3>2. /\ trash'[to[Loop]] = entry[path[Loop]]
          /\ \A p \in Paths \ {path[Loop]} : entry'[p] = entry[p]
          /\ \A s \in Stamps \ {to[Loop]} : trash'[s] = trash[s]
      BY <3>1 DEF IInv, TypeOK
    <3>3. trash[to[Loop]] # Absent /\ c \in text[trash[to[Loop]]]
      BY <3>1, <3>2, <2>a, <2>b
    <3>4. to[Loop] # Plain
      BY <3>0, <3>3 DEF IInv, Looked
    <3> QED BY <3>3, <3>4, <3>0 DEF Explained, Acts, TextsOf
  <2>8. ASSUME SourceGone \/ Tick \/ Crash PROVE FALSE
    BY <2>8, <2>c DEF SourceGone, Tick, Crash, disk, world
  <2>9. ASSUME NEW p \in Paths, NEW keep \in BOOLEAN, OtherWriter(p, keep) \/ OtherRemoval(p)
        PROVE  Explained(c)
    BY <2>9 DEF Explained, OtherWriter, OtherRemoval, thread
  <2> QED BY <2>1, <2>2, <2>3, <2>4, <2>5, <2>6, <2>7, <2>8, <2>9 DEF Next
<1> QED BY <1>1, Inductive, PTL DEF Spec, NoUnexplainedLoss

==============================================================================
