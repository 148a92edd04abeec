----------------------- MODULE FrontmatterIndex_proofs -----------------------
(***************************************************************************)
(* Proofs about FrontmatterIndex: types, no pending path without a timer,   *)
(* fresh entries and read-after-write, for any number of files, timers,     *)
(* writers and changes.                                                      *)
(***************************************************************************)
EXTENDS FrontmatterIndex, TLAPS

------------------------------------------------------------------------------
(* Sequences of events. *)

Mentions(s, p) == \E i \in 1..Len(s) : s[i][1] = p

LEMMA AppendMentions ==
  ASSUME NEW s \in Seq(Paths \X Kinds), NEW e \in Paths \X Kinds
  PROVE  /\ Append(s, e) \in Seq(Paths \X Kinds)
         /\ Mentions(Append(s, e), e[1])
         /\ \A p : Mentions(s, p) => Mentions(Append(s, e), p)
<1>1. Append(s, e) \in Seq(Paths \X Kinds) /\ Len(Append(s, e)) = Len(s) + 1
      /\ Append(s, e)[Len(s) + 1] = e
      /\ \A i \in 1..Len(s) : Append(s, e)[i] = s[i]
  OBVIOUS
<1>2. Len(s) \in Nat
  OBVIOUS
<1>3. Mentions(Append(s, e), e[1])
  BY <1>1, <1>2 DEF Mentions
<1>4. ASSUME NEW p, Mentions(s, p) PROVE Mentions(Append(s, e), p)
  <2>1. PICK i \in 1..Len(s) : s[i][1] = p BY <1>4 DEF Mentions
  <2>2. i \in 1..Len(Append(s, e)) /\ Append(s, e)[i][1] = p BY <1>1, <1>2, <2>1
  <2>3. QED BY <2>2 DEF Mentions
<1>5. QED BY <1>1, <1>3, <1>4

LEMMA TailMentions ==
  ASSUME NEW s \in Seq(Paths \X Kinds), s # <<>>
  PROVE  /\ Tail(s) \in Seq(Paths \X Kinds)
         /\ Head(s) \in Paths \X Kinds
         /\ \A p : Mentions(s, p) => p = Head(s)[1] \/ Mentions(Tail(s), p)
<1>1. /\ Tail(s) \in Seq(Paths \X Kinds) /\ Head(s) = s[1] /\ Len(s) \in Nat \ {0}
      /\ Len(Tail(s)) = Len(s) - 1
      /\ \A i \in 1..(Len(s) - 1) : Tail(s)[i] = s[i + 1]
  OBVIOUS
<1>2. Head(s) \in Paths \X Kinds
  BY <1>1
<1>3. ASSUME NEW p, Mentions(s, p), p # Head(s)[1] PROVE Mentions(Tail(s), p)
  <2>1. PICK i \in 1..Len(s) : s[i][1] = p BY <1>3 DEF Mentions
  <2>2. i # 1 BY <1>1, <1>3, <2>1
  <2>3. i - 1 \in 1..(Len(s) - 1) /\ (i - 1) + 1 = i BY <1>1, <2>1, <2>2
  <2>4. Tail(s)[i - 1] = s[i] BY <1>1, <2>3
  <2>5. QED BY <1>1, <2>1, <2>3, <2>4 DEF Mentions
<1>4. QED BY <1>1, <1>2, <1>3

(* A change of the vault that is noticed calls for an update. *)
LEMMA NoticedMentions ==
  ASSUME TypeOK, NEW p \in Paths, NEW content
  PROVE  /\ Noticed(p, content) \in Seq(Paths \X Kinds)
         /\ \A q : Mentions(events, q) => Mentions(Noticed(p, content), q)
         /\ watching => Mentions(Noticed(p, content), p)
<1> DEFINE e == <<p, IF content = None THEN "deleted" ELSE "changed">>
<1>1. e \in Paths \X Kinds /\ e[1] = p
  BY DEF Kinds
<1>2. events \in Seq(Paths \X Kinds) /\ Noticed(p, content) \in {events, Append(events, e)}
      /\ (watching => Noticed(p, content) = Append(events, e))
  BY DEF TypeOK, Noticed
<1> HIDE DEF e
<1>3. QED BY <1>1, <1>2, AppendMentions

------------------------------------------------------------------------------
(* Types. *)

(* A thread that reads a file or enters it is at a file. *)
Located == \A t \in Threads : pc[t] \in {"parse", "put"} => at[t] \in Paths

LEMMA InitTypeOK == Init => TypeOK /\ Located
<1> SUFFICES ASSUME Init PROVE TypeOK /\ Located
  OBVIOUS
<1>1. events \in Seq(Paths \X Kinds) /\ changes \in 0..MaxChanges
  BY MaxChangesAssumption DEF Init
<1>2. file \in [Paths -> Files] /\ refused \subseteq Paths /\ index \in [Paths -> Entries]
  BY DEF Init, Entries
<1>3. TypeOK
  BY <1>1, <1>2 DEF Init, TypeOK, Entries, Steps
<1>4. QED BY <1>3 DEF Init, Located

LEMMA ForgetType ==
  ASSUME NEW memory \in [Writers -> SUBSET Paths], NEW ps
  PROVE  Forget(ps, memory) \in [Writers -> SUBSET Paths]
  BY DEF Forget

(* What every tool does that changes the files ps: one of them, or several in turn. *)
Changes(w, ps, step) ==
  /\ watching /\ watching' = watching
  /\ pc[w] \in {"idle", "answered"} \/ (pc[w] = step /\ step \in Tools)
  /\ Owes(w, ps, step)
  /\ changes' \in 0..MaxChanges
  /\ file' \in [Paths -> Files] /\ refused' \subseteq Paths
  /\ \A r \in Paths \ ps : file'[r] = file[r] /\ (r \in refused' <=> r \in refused)
  /\ events' \in Seq(Paths \X Kinds)
  /\ \A r : Mentions(events, r) => Mentions(events', r)
  /\ UNCHANGED <<index, toWalk, pending, debounce, at, seen, latest, overtaken, unnoticed>>

LEMMA ToolChanges ==
  ASSUME TypeOK, NEW w \in Writers,
         \/ \E p \in Paths, content \in Files : Write(w, p, content) \/ BatchWrite(w, p, content)
         \/ \E p, q \in Paths : Move(w, p, q)
         \/ \E p \in Paths : Remove(w, p)
  PROVE  \E ps \in SUBSET Paths, step \in Tools \cup {"next"} : Changes(w, ps, step)
<1> USE DEF TypeOK
<1>0. MayChange(w, "idle") \/ (\E step \in Tools : MayChange(w, step)) => changes' \in 0..MaxChanges
  BY MaxChangesAssumption DEF MayChange
<1>1. ASSUME NEW p \in Paths, NEW content \in Files, Write(w, p, content)
      PROVE  Changes(w, {p}, "next")
  <2>1. events' = Noticed(p, content) BY <1>1 DEF Write
  <2>2. events' \in Seq(Paths \X Kinds) /\ \A r : Mentions(events, r) => Mentions(events', r)
    BY <2>1, NoticedMentions
  <2>3. QED BY <1>0, <1>1, <2>2 DEF Write, MayChange, Changes
<1>2. ASSUME NEW p \in Paths, NEW content \in Files, BatchWrite(w, p, content)
      PROVE  Changes(w, {p}, "updating")
  <2>1. events' = Noticed(p, content) BY <1>2 DEF BatchWrite
  <2>2. events' \in Seq(Paths \X Kinds) /\ \A r : Mentions(events, r) => Mentions(events', r)
    BY <2>1, NoticedMentions
  <2>3. QED BY <1>0, <1>2, <2>2 DEF BatchWrite, MayChange, Changes, Tools
<1>3. ASSUME NEW p \in Paths, NEW q \in Paths, Move(w, p, q)
      PROVE  Changes(w, {p, q}, "moving")
  <2>1. events' = Append(Noticed(p, None), <<q, "changed">>) BY <1>3 DEF Move
  <2>2. /\ Noticed(p, None) \in Seq(Paths \X Kinds)
        /\ \A r : Mentions(events, r) => Mentions(Noticed(p, None), r)
    BY NoticedMentions
  <2>3. <<q, "changed">> \in Paths \X Kinds BY DEF Kinds
  <2>4. events' \in Seq(Paths \X Kinds) /\ \A r : Mentions(events, r) => Mentions(events', r)
    BY <2>1, <2>2, <2>3, AppendMentions
  <2>5. file' \in [Paths -> Files] /\ refused' \subseteq Paths
    BY <1>3 DEF Move, Files
  <2>6. \A r \in Paths \ {p, q} : file'[r] = file[r] /\ (r \in refused' <=> r \in refused)
    BY <1>3 DEF Move
  <2>7. QED BY <1>0, <1>3, <2>4, <2>5, <2>6 DEF Move, MayChange, Changes, Tools
<1>4. ASSUME NEW p \in Paths, Remove(w, p)
      PROVE  Changes(w, {p}, "removing")
  <2>1. events' = Noticed(p, None) BY <1>4 DEF Remove
  <2>2. events' \in Seq(Paths \X Kinds) /\ \A r : Mentions(events, r) => Mentions(events', r)
    BY <2>1, NoticedMentions
  <2>3. QED BY <1>0, <1>4, <2>2 DEF Remove, MayChange, Changes, Tools, Files
<1>5. \A p, q \in Paths : {p} \in SUBSET Paths /\ {p, q} \in SUBSET Paths
  OBVIOUS
<1>6. {"next", "updating", "moving", "removing"} \subseteq Tools \cup {"next"}
  BY DEF Tools
<1>7. CASE \E p \in Paths, content \in Files : Write(w, p, content) \/ BatchWrite(w, p, content)
  BY <1>1, <1>2, <1>5, <1>6, <1>7
<1>8. CASE \E p, q \in Paths : Move(w, p, q)
  BY <1>3, <1>5, <1>6, <1>8
<1>9. CASE \E p \in Paths : Remove(w, p)
  BY <1>4, <1>5, <1>6, <1>9
<1>10. QED BY <1>7, <1>8, <1>9

(* The kinds of steps there are, with the changes the tools make taken together. *)
LEMMA KindsOfSteps ==
  ASSUME TypeOK, Next
  PROVE  \/ Watch
         \/ \E p \in Paths : Walk(p) \/ Link(p)
         \/ \E p \in Paths, content \in Files : OtherWriter(p, content)
         \/ \E w \in Writers, p \in Paths, content \in Files : Edit(w, p, content)
         \/ \E w \in Writers, ps \in SUBSET Paths, step \in Tools \cup {"next"} : Changes(w, ps, step)
         \/ \E w \in Writers : Refresh(w)
         \/ \E n \in Timers : Dispatch(n) \/ Fire(n) \/ TakePending(n)
         \/ \E t \in Threads : Update(t)
<1>1. ASSUME NEW w \in Writers, NEW p \in Paths, NEW content \in Files,
             Write(w, p, content) \/ BatchWrite(w, p, content)
      PROVE  \E ps \in SUBSET Paths, step \in Tools \cup {"next"} : Changes(w, ps, step)
  BY <1>1, ToolChanges
<1>2. ASSUME NEW w \in Writers, NEW p \in Paths, NEW q \in Paths, Move(w, p, q)
      PROVE  \E ps \in SUBSET Paths, step \in Tools \cup {"next"} : Changes(w, ps, step)
  BY <1>2, ToolChanges
<1>3. ASSUME NEW w \in Writers, NEW p \in Paths, Remove(w, p)
      PROVE  \E ps \in SUBSET Paths, step \in Tools \cup {"next"} : Changes(w, ps, step)
  BY <1>3, ToolChanges
<1>4. QED BY <1>1, <1>2, <1>3, Zenon DEF Next

LEMMA StaysWatching == ASSUME TypeOK, Next, watching PROVE watching'
<1>1. CASE Watch \/ \E p \in Paths : Walk(p) \/ Link(p)
  BY <1>1 DEF Watch, Walk, Link
<1>2. CASE \E p \in Paths, content \in Files : OtherWriter(p, content)
  BY <1>2 DEF OtherWriter
<1>3. CASE \E w \in Writers, p \in Paths, content \in Files : Edit(w, p, content)
  BY <1>3 DEF Edit
<1>4. CASE \E w \in Writers, ps \in SUBSET Paths, step \in Tools \cup {"next"} : Changes(w, ps, step)
  BY <1>4 DEF Changes
<1>5. CASE \E w \in Writers : Refresh(w)
  BY <1>5 DEF Refresh
<1>6. CASE \E n \in Timers : Dispatch(n) \/ Fire(n) \/ TakePending(n)
  BY <1>6 DEF Dispatch, Fire, TakePending
<1>7. CASE \E t \in Threads : Update(t)
  BY <1>7 DEF Update, Look, Parse, Put
<1>8. QED BY <1>1, <1>2, <1>3, <1>4, <1>5, <1>6, <1>7, KindsOfSteps

LEMMA OwesType ==
  ASSUME TypeOK, NEW w \in Writers, NEW ps \in SUBSET Paths, NEW step \in Tools \cup {"next"},
         Owes(w, ps, step)
  PROVE  /\ pc' \in [Threads -> Steps] /\ batch' \in [Threads -> SUBSET Paths]
         /\ wrote' \in [Writers -> SUBSET Paths] /\ edited' \in [Writers -> SUBSET Paths]
<1>1. pc' \in [Threads -> Steps] /\ batch' \in [Threads -> SUBSET Paths]
  BY DEF TypeOK, Owes, Steps
<1>2. Forget(ps, wrote) \in [Writers -> SUBSET Paths] /\ Forget(ps, edited) \in [Writers -> SUBSET Paths]
  BY ForgetType DEF TypeOK
<1>3. QED BY <1>1, <1>2 DEF Owes

LEMMA NextTypeOK == TypeOK /\ Located /\ [Next]_vars => TypeOK'
<1> SUFFICES ASSUME TypeOK, Located, [Next]_vars PROVE TypeOK'
  OBVIOUS
<1> USE DEF TypeOK, vault, watcher, threads, history
<1>1. ASSUME NEW p \in Paths, Walk(p) PROVE TypeOK'
  <2>1. Due(p) \in Entries BY DEF Due, Parsed, Entries
  <2>2. QED BY <1>1, <2>1 DEF Walk
<1>2. CASE Watch
  BY <1>2 DEF Watch
<1>3. ASSUME NEW p \in Paths, NEW content \in Files, OtherWriter(p, content) PROVE TypeOK'
  <2>1. events' \in Seq(Paths \X Kinds) BY <1>3, NoticedMentions DEF OtherWriter
  <2>2. wrote' \in [Writers -> SUBSET Paths] /\ edited' \in [Writers -> SUBSET Paths]
    BY <1>3, ForgetType DEF OtherWriter
  <2>3. changes' \in 0..MaxChanges /\ file' \in [Paths -> Files] /\ refused' \subseteq Paths
    BY <1>3, MaxChangesAssumption DEF OtherWriter
  <2>4. QED BY <1>3, <2>1, <2>2, <2>3 DEF OtherWriter
<1>4. ASSUME NEW p \in Paths, Link(p) PROVE TypeOK'
  <2>1. wrote' \in [Writers -> SUBSET Paths] /\ edited' \in [Writers -> SUBSET Paths]
    BY <1>4, ForgetType DEF Link
  <2>2. changes' \in 0..MaxChanges /\ refused' \subseteq Paths
    BY <1>4, MaxChangesAssumption DEF Link
  <2>3. QED BY <1>4, <2>1, <2>2 DEF Link
<1>5. ASSUME NEW w \in Writers, NEW ps \in SUBSET Paths, NEW step \in Tools \cup {"next"},
             Changes(w, ps, step)
      PROVE  TypeOK'
  <2>1. /\ pc' \in [Threads -> Steps] /\ batch' \in [Threads -> SUBSET Paths]
        /\ wrote' \in [Writers -> SUBSET Paths] /\ edited' \in [Writers -> SUBSET Paths]
    BY <1>5, OwesType DEF Changes
  <2>2. QED BY <1>5, <2>1 DEF Changes
<1>6. ASSUME NEW w \in Writers, NEW p \in Paths, NEW content \in Files, Edit(w, p, content)
      PROVE  TypeOK'
  <2>1. events' \in Seq(Paths \X Kinds) BY <1>6, NoticedMentions DEF Edit
  <2>2. wrote' \in [Writers -> SUBSET Paths] /\ edited' \in [Writers -> SUBSET Paths]
    BY <1>6, ForgetType DEF Edit
  <2>3. changes' \in 0..MaxChanges BY <1>6, MaxChangesAssumption DEF Edit, MayChange
  <2>4. file' \in [Paths -> Files]
        /\ pc' \in [Threads -> Steps]
    BY <1>6 DEF Edit, Steps
  <2>5. QED BY <1>6, <2>1, <2>2, <2>3, <2>4 DEF Edit, MayChange
<1>7. ASSUME NEW n \in Timers, Dispatch(n) PROVE TypeOK'
  <2>1. events' \in Seq(Paths \X Kinds) /\ Head(events)[1] \in Paths
    BY <1>7, TailMentions DEF Dispatch
  <2>2. n \in Threads BY DEF Threads
  <2>3. Rearmed(n) \in [Threads -> Steps]
    BY DEF Rearmed, Steps
  <2>4. QED BY <1>7, <2>1, <2>2, <2>3 DEF Dispatch, Schedule
<1>8. ASSUME NEW n \in Timers, Fire(n) \/ TakePending(n) PROVE TypeOK'
  BY <1>8 DEF Fire, TakePending, Threads, Steps
<1>9. ASSUME NEW t \in Threads, NEW p \in Paths, Look(t, p) PROVE TypeOK'
  BY <1>9 DEF Look, Entries, Steps
<1>10. ASSUME NEW t \in Threads, Parse(t) PROVE TypeOK'
  <2>1. Parsed(at[t]) \in Entries BY DEF Parsed, Entries
  <2>2. QED BY <1>10, <2>1 DEF Parse, Steps
<1>11. ASSUME NEW t \in Threads, Put(t) PROVE TypeOK'
  <2>1. at[t] \in Paths BY <1>11 DEF Put, Located
  <2>2. QED BY <1>11, <2>1 DEF Put, Finished, Steps, Entries
<1>12. ASSUME NEW w \in Writers, Refresh(w) PROVE TypeOK'
  BY <1>12 DEF Refresh, Steps
<1>13. CASE UNCHANGED vars
  BY <1>13 DEF vars
<1> HIDE DEF TypeOK, vault, watcher, threads, history
<1>14. QED
  BY <1>1, <1>2, <1>3, <1>4, <1>5, <1>6, <1>7, <1>8, <1>9, <1>10, <1>11, <1>12, <1>13, KindsOfSteps
     DEF Update

LEMMA NextLocated == TypeOK /\ Located /\ [Next]_vars => Located'
<1> SUFFICES ASSUME TypeOK, Located, [Next]_vars, NEW t \in Threads, pc'[t] \in {"parse", "put"}
             PROVE  at'[t] \in Paths
  BY DEF Located
<1> USE DEF TypeOK, Located, vault, watcher, threads, history
<1>1. CASE Watch \/ (\E p \in Paths : Walk(p) \/ Link(p)) \/ UNCHANGED vars
  BY <1>1 DEF Watch, Walk, Link, vars
<1>2. CASE \E p \in Paths, content \in Files : OtherWriter(p, content)
  BY <1>2 DEF OtherWriter
<1>3. ASSUME NEW w \in Writers, NEW p \in Paths, NEW content \in Files, Edit(w, p, content)
      PROVE  at'[t] \in Paths
  BY <1>3 DEF Edit
<1>4. ASSUME NEW n \in Timers, Dispatch(n) PROVE at'[t] \in Paths
  BY <1>4 DEF Dispatch, Schedule, Rearmed
<1>5. ASSUME NEW n \in Timers, Fire(n) \/ TakePending(n) PROVE at'[t] \in Paths
  BY <1>5 DEF Fire, TakePending
<1>6. ASSUME NEW u \in Threads, NEW p \in Paths, Look(u, p) PROVE at'[t] \in Paths
  BY <1>6 DEF Look
<1>7. ASSUME NEW u \in Threads, Parse(u) PROVE at'[t] \in Paths
  BY <1>7 DEF Parse
<1>8. ASSUME NEW u \in Threads, Put(u) PROVE at'[t] \in Paths
  BY <1>8 DEF Put, Finished
<1>9. ASSUME NEW w \in Writers, NEW ps \in SUBSET Paths, NEW step \in Tools \cup {"next"},
             Changes(w, ps, step)
      PROVE  at'[t] \in Paths
  BY <1>9 DEF Changes, Owes, Tools
<1>10. ASSUME NEW w \in Writers, Refresh(w) PROVE at'[t] \in Paths
  BY <1>10 DEF Refresh
<1> HIDE DEF TypeOK, Located, vault, watcher, threads, history
<1>11. QED
  BY <1>1, <1>2, <1>3, <1>4, <1>5, <1>6, <1>7, <1>8, <1>9, <1>10, KindsOfSteps DEF Update

(* Every variable always holds what its comment in FrontmatterIndex says. *)
THEOREM TypeCorrect == Spec => []TypeOK
<1>1. Init => TypeOK /\ Located
  BY InitTypeOK
<1>2. TypeOK /\ Located /\ [Next]_vars => (TypeOK /\ Located)'
  BY NextTypeOK, NextLocated
<1>3. QED BY <1>1, <1>2, PTL DEF Spec

------------------------------------------------------------------------------
(* No pending path without a timer. *)

(* A path that has been scheduled always has a timer that will come for it. *)
THEOREM PendingAlwaysHasTimer == Spec => []PendingHasTimer
<1>1. Init => PendingHasTimer
  BY DEF Init, PendingHasTimer
<1>2. TypeOK /\ PendingHasTimer /\ [Next]_vars => PendingHasTimer'
  <2> SUFFICES ASSUME TypeOK, PendingHasTimer, [Next]_vars, pending' # {}
               PROVE  \E n \in Timers : pc'[n] \in {"armed", "fired"}
    BY DEF PendingHasTimer
  <2> USE DEF TypeOK, PendingHasTimer, Threads, vault, watcher, threads, history
  <2>1. CASE Watch \/ (\E p \in Paths : Walk(p) \/ Link(p)) \/ UNCHANGED vars
    BY <2>1 DEF Watch, Walk, Link, vars
  <2>2. CASE \E p \in Paths, content \in Files : OtherWriter(p, content)
    BY <2>2 DEF OtherWriter
  <2>3. ASSUME NEW w \in Writers, NEW p \in Paths, NEW content \in Files, Edit(w, p, content)
        PROVE  \E n \in Timers : pc'[n] \in {"armed", "fired"}
    BY <2>3 DEF Edit, MayChange
  <2>4. ASSUME NEW n \in Timers, Dispatch(n)
        PROVE  \E m \in Timers : pc'[m] \in {"armed", "fired"}
    <3>1. CASE pc' = pc /\ pending' = pending BY <3>1
    <3>2. CASE Schedule(Head(events)[1], n) BY <3>2 DEF Schedule, Rearmed
    <3>3. QED BY <2>4, <3>1, <3>2 DEF Dispatch
  <2>5. ASSUME NEW n \in Timers, Fire(n) \/ TakePending(n)
        PROVE  \E m \in Timers : pc'[m] \in {"armed", "fired"}
    BY <2>5 DEF Fire, TakePending
  <2>6. ASSUME NEW t \in Threads, NEW p \in Paths, Look(t, p)
        PROVE  \E n \in Timers : pc'[n] \in {"armed", "fired"}
    BY <2>6 DEF Look
  <2>7. ASSUME NEW t \in Threads, Parse(t)
        PROVE  \E n \in Timers : pc'[n] \in {"armed", "fired"}
    BY <2>7 DEF Parse
  <2>8. ASSUME NEW t \in Threads, Put(t)
        PROVE  \E n \in Timers : pc'[n] \in {"armed", "fired"}
    BY <2>8 DEF Put
  <2>9. ASSUME NEW w \in Writers, NEW ps \in SUBSET Paths, NEW step \in Tools \cup {"next"},
               Changes(w, ps, step)
        PROVE  \E n \in Timers : pc'[n] \in {"armed", "fired"}
    BY <2>9 DEF Changes, Owes, Tools
  <2>10. ASSUME NEW w \in Writers, Refresh(w)
         PROVE  \E n \in Timers : pc'[n] \in {"armed", "fired"}
    BY <2>10 DEF Refresh, Tools
  <2> HIDE DEF TypeOK, PendingHasTimer, Threads, vault, watcher, threads, history
  <2>11. QED
    BY <2>1, <2>2, <2>3, <2>4, <2>5, <2>6, <2>7, <2>8, <2>9, <2>10, KindsOfSteps DEF Update
<1>3. QED BY <1>1, <1>2, TypeCorrect, PTL DEF Spec

------------------------------------------------------------------------------
(* What the latest thread to look at a file does for its entry. *)

(* start() comes before everything else. *)
StartInv ==
  /\ watching => toWalk = {}
  /\ ~watching => events = <<>> /\ \A t \in Threads : pc[t] = "idle"

LEMMA NextStartInv == TypeOK /\ StartInv /\ [Next]_vars => StartInv'
<1> SUFFICES ASSUME TypeOK, StartInv, [Next]_vars PROVE StartInv'
  OBVIOUS
<1> USE DEF TypeOK, StartInv, vault, watcher, threads, history
<1>1. CASE Watch
  BY <1>1 DEF Watch
<1>2. ASSUME NEW p \in Paths, Walk(p) PROVE StartInv'
  <2>1. ~watching /\ UNCHANGED <<watching, events, pc>> BY <1>2 DEF Walk
  <2>2. QED BY <2>1
<1>3. CASE (\E p \in Paths : Link(p)) \/ UNCHANGED vars
  <2>1. UNCHANGED <<toWalk, watching, events, pc>> BY <1>3 DEF Link, vars
  <2>2. QED BY <2>1
<1>4. CASE \E p \in Paths, content \in Files : OtherWriter(p, content)
  BY <1>4 DEF OtherWriter, Noticed
<1>5. CASE \E w \in Writers, p \in Paths, content \in Files : Edit(w, p, content)
  BY <1>5 DEF Edit, MayChange
<1>6. CASE \E n \in Timers : Dispatch(n) \/ Fire(n) \/ TakePending(n)
  BY <1>6 DEF Dispatch, Fire, TakePending, Threads
<1>7. CASE \E t \in Threads : Update(t)
  BY <1>7 DEF Update, Look, Parse, Put
<1>8. ASSUME NEW w \in Writers, NEW ps \in SUBSET Paths, NEW step \in Tools \cup {"next"},
             Changes(w, ps, step)
      PROVE  StartInv'
  BY <1>8 DEF Changes
<1>9. ASSUME NEW w \in Writers, Refresh(w) PROVE StartInv'
  BY <1>9 DEF Refresh, Tools, Threads
<1> HIDE DEF TypeOK, StartInv, vault, watcher, threads, history
<1>10. QED BY <1>1, <1>2, <1>3, <1>4, <1>5, <1>6, <1>7, <1>8, <1>9, KindsOfSteps

(* It is the latest thread to look at a file that brings its entry up to date. *)
LatestUpdates(p) == \E t \in Threads : t = latest[p] /\ OnCourse(t, p)

LatestIsOnCourse(p) ==
  \A t \in Threads :
    t = latest[p] /\ at[t] = p /\ pc[t] \in {"parse", "put"} => OnCourse(t, p)

(* The entry is what the file says, or an older reading has been entered. *)
EntrySet(p) == index[p] = Due(p) \/ p \in overtaken

LEMMA LookSetsOut ==
  ASSUME TypeOK, NEW t \in Threads, NEW p \in Paths, Look(t, p)
  PROVE  LatestIsOnCourse(p)' /\ LatestUpdates(p)'
<1> USE DEF TypeOK, vault, watcher, threads, history
<1>1. latest'[p] = t /\ at'[t] = p
  BY DEF Look
<1>2. CASE p \in refused \/ file[p] = None
  <2>1. Due(p)' = None BY <1>2, ContentsAssumption DEF Look, Due, Parsed
  <2>2. pc'[t] = "put" /\ seen'[t] = None BY <1>2 DEF Look
  <2>3. QED BY <1>1, <2>1, <2>2 DEF LatestIsOnCourse, LatestUpdates, OnCourse
<1>3. CASE ~(p \in refused \/ file[p] = None)
  <2>1. pc'[t] = "parse" /\ p \notin refused' BY <1>3 DEF Look
  <2>2. QED BY <1>1, <2>1 DEF LatestIsOnCourse, LatestUpdates, OnCourse
<1>4. QED BY <1>2, <1>3

(* A step that leaves file p as it is leaves the latest thread at p on course, and
   the entry set, or brings it up to date.                                       *)
LEMMA StepKeepsCourse ==
  ASSUME TypeOK, Located, StartInv, watching, Next, NEW p \in Paths,
         file'[p] = file[p], p \in refused' <=> p \in refused, LatestIsOnCourse(p)
  PROVE  /\ LatestIsOnCourse(p)'
         /\ EntrySet(p) => EntrySet(p)'
         /\ LatestUpdates(p) => LatestUpdates(p)' \/ EntrySet(p)'
<1> DEFINE Keeps == /\ LatestIsOnCourse(p)'
                    /\ EntrySet(p) => EntrySet(p)'
                    /\ LatestUpdates(p) => LatestUpdates(p)' \/ EntrySet(p)'
<1>0. Due(p)' = Due(p)
  BY DEF Due, Parsed
<1> USE DEF TypeOK, vault, watcher, threads, history
<1>1. ASSUME index' = index, overtaken' = overtaken, latest' = latest, at' = at, seen' = seen,
             \A t \in Threads : pc[t] \in {"parse", "put"} \/ pc'[t] \in {"parse", "put"}
                                   => pc'[t] = pc[t]
      PROVE  Keeps
  <2>1. \A t \in Threads : OnCourse(t, p) => OnCourse(t, p)'
    BY <1>0, <1>1 DEF OnCourse
  <2>2. LatestIsOnCourse(p)'
    BY <1>1, <2>1 DEF LatestIsOnCourse
  <2>3. QED BY <1>0, <1>1, <2>1, <2>2 DEF EntrySet, LatestUpdates
<1>2. CASE \E q \in Paths : Walk(q)
  BY <1>2 DEF Walk, StartInv
<1>3. CASE Watch
  BY <1>3 DEF Watch
<1>4. CASE \E q \in Paths, content \in Files : OtherWriter(q, content)
  BY <1>1, <1>4 DEF OtherWriter
<1>5. CASE \E q \in Paths : Link(q)
  BY <1>1, <1>5 DEF Link
<1>6. ASSUME NEW w \in Writers, NEW q \in Paths, NEW content \in Files, Edit(w, q, content)
      PROVE  Keeps
  BY <1>1, <1>6 DEF Edit, MayChange
<1>7. ASSUME NEW n \in Timers, Dispatch(n) PROVE Keeps
  BY <1>1, <1>7 DEF Dispatch, Schedule, Rearmed
<1>8. ASSUME NEW n \in Timers, Fire(n) \/ TakePending(n) PROVE Keeps
  BY <1>1, <1>8 DEF Fire, TakePending
<1>9. ASSUME NEW t \in Threads, NEW q \in Paths, Look(t, q) PROVE Keeps
  <2>1. EntrySet(p) => EntrySet(p)' BY <1>0, <1>9 DEF Look, EntrySet
  <2>2. CASE q = p BY <1>9, <2>1, <2>2, LookSetsOut
  <2>3. CASE q # p
    <3>1. latest'[p] = latest[p] /\ at'[t] = q /\ pc[t] = "next" BY <1>9, <2>3 DEF Look
    <3>2. ASSUME NEW u \in Threads, u # t
          PROVE  at'[u] = at[u] /\ pc'[u] = pc[u] /\ seen'[u] = seen[u]
      BY <1>9, <3>2 DEF Look
    <3>3. \A u \in Threads : OnCourse(u, p) => OnCourse(u, p)'
      BY <1>0, <3>1, <3>2 DEF OnCourse
    <3>4. LatestIsOnCourse(p)' BY <2>3, <3>1, <3>2, <3>3 DEF LatestIsOnCourse
    <3>5. LatestUpdates(p) => LatestUpdates(p)' BY <3>1, <3>3 DEF LatestUpdates
    <3>6. QED BY <2>1, <3>4, <3>5
  <2>4. QED BY <2>2, <2>3
<1>10. ASSUME NEW t \in Threads, Parse(t) PROVE Keeps
  <2>1. at' = at /\ latest' = latest /\ pc[t] = "parse" /\ pc'[t] = "put"
        /\ seen'[t] = Parsed(at[t])
    BY <1>10 DEF Parse
  <2>2. ASSUME NEW u \in Threads, u # t PROVE pc'[u] = pc[u] /\ seen'[u] = seen[u]
    BY <1>10, <2>2 DEF Parse
  <2>3. OnCourse(t, p) => OnCourse(t, p)'
    BY <1>0, <2>1 DEF OnCourse, Due
  <2>4. \A u \in Threads : OnCourse(u, p) => OnCourse(u, p)'
    BY <1>0, <2>1, <2>2, <2>3 DEF OnCourse
  <2>5. LatestIsOnCourse(p)' BY <2>1, <2>2, <2>4 DEF LatestIsOnCourse
  <2>6. QED BY <1>0, <1>10, <2>1, <2>4, <2>5 DEF LatestUpdates, EntrySet, Parse
<1>11. ASSUME NEW t \in Threads, Put(t) PROVE Keeps
  <2>1. latest' = latest /\ pc[t] = "put" /\ at[t] \in Paths /\ pc'[t] \notin {"parse", "put"}
    BY <1>11 DEF Put, Finished, Located
  <2>2. ASSUME NEW u \in Threads, u # t PROVE pc'[u] = pc[u] /\ at'[u] = at[u] /\ seen'[u] = seen[u]
    BY <1>11, <2>2 DEF Put
  <2>3. \A u \in Threads : u # t /\ OnCourse(u, p) => OnCourse(u, p)'
    BY <1>0, <2>1, <2>2 DEF OnCourse
  <2>4. LatestIsOnCourse(p)' BY <2>1, <2>2, <2>3 DEF LatestIsOnCourse
  <2>5. CASE at[t] # p
    <3>1. index'[p] = index[p] /\ (p \in overtaken' <=> p \in overtaken)
      BY <1>11, <2>1, <2>5 DEF Put
    <3>2. ~OnCourse(t, p) BY <2>5 DEF OnCourse
    <3>3. QED BY <1>0, <2>1, <2>3, <2>4, <3>1, <3>2 DEF LatestUpdates, EntrySet
  <2>6. CASE at[t] = p
    <3>1. index'[p] = seen[t] BY <1>11, <2>6 DEF Put
    <3>2. CASE latest[p] = t
      <4>1. seen[t] = Due(p) BY <2>1, <2>6, <3>2 DEF LatestIsOnCourse, OnCourse
      <4>2. EntrySet(p)' BY <1>0, <3>1, <4>1 DEF EntrySet
      <4>3. QED BY <2>4, <4>2
    <3>3. CASE latest[p] # t
      <4>1. p \in overtaken' BY <1>11, <2>6, <3>3 DEF Put
      <4>2. EntrySet(p)' BY <4>1 DEF EntrySet
      <4>3. QED BY <2>4, <4>2
    <3>4. QED BY <3>2, <3>3
  <2>7. QED BY <2>5, <2>6
<1>12. ASSUME NEW w \in Writers, NEW ps \in SUBSET Paths, NEW step \in Tools \cup {"next"},
              Changes(w, ps, step)
       PROVE  Keeps
  BY <1>1, <1>12 DEF Changes, Owes, Tools
<1>13. ASSUME NEW w \in Writers, Refresh(w) PROVE Keeps
  BY <1>1, <1>13 DEF Refresh, Tools
<1> HIDE DEF TypeOK, vault, watcher, threads, history
<1>14. QED
  BY <1>2, <1>3, <1>4, <1>5, <1>6, <1>7, <1>8, <1>9, <1>10, <1>11, <1>12, <1>13, KindsOfSteps
     DEF Update

------------------------------------------------------------------------------
(* Fresh entries. *)

Coming(p) == CalledFor(p) \/ p \in unnoticed
OnItsWay(p) == LatestIsOnCourse(p) /\ (EntrySet(p) \/ LatestUpdates(p))
NoBatchAtRest == \A t \in Threads : pc[t] \in {"idle", "armed", "fired", "answered"} => batch[t] = {}

LEMMA NextNoBatchAtRest == TypeOK /\ NoBatchAtRest /\ [Next]_vars => NoBatchAtRest'
<1> SUFFICES ASSUME TypeOK, NoBatchAtRest, [Next]_vars, NEW t \in Threads,
                    pc'[t] \in {"idle", "armed", "fired", "answered"}
             PROVE  batch'[t] = {}
  BY DEF NoBatchAtRest
<1> USE DEF TypeOK, NoBatchAtRest, vault, watcher, threads, history
<1>1. CASE Watch \/ (\E p \in Paths : Walk(p) \/ Link(p)) \/ UNCHANGED vars
  BY <1>1 DEF Watch, Walk, Link, vars
<1>2. CASE \E p \in Paths, content \in Files : OtherWriter(p, content)
  BY <1>2 DEF OtherWriter
<1>3. ASSUME NEW w \in Writers, NEW p \in Paths, NEW content \in Files, Edit(w, p, content)
      PROVE  batch'[t] = {}
  BY <1>3 DEF Edit, MayChange
<1>4. ASSUME NEW n \in Timers, Dispatch(n) PROVE batch'[t] = {}
  BY <1>4 DEF Dispatch, Schedule, Rearmed
<1>5. ASSUME NEW n \in Timers, Fire(n) \/ TakePending(n) PROVE batch'[t] = {}
  BY <1>5 DEF Fire, TakePending
<1>6. ASSUME NEW u \in Threads, NEW p \in Paths, Look(u, p) PROVE batch'[t] = {}
  BY <1>6 DEF Look
<1>7. ASSUME NEW u \in Threads, Parse(u) PROVE batch'[t] = {}
  BY <1>7 DEF Parse
<1>8. ASSUME NEW u \in Threads, Put(u) PROVE batch'[t] = {}
  BY <1>8 DEF Put
<1>9. ASSUME NEW w \in Writers, NEW ps \in SUBSET Paths, NEW step \in Tools \cup {"next"},
             Changes(w, ps, step)
      PROVE  batch'[t] = {}
  BY <1>9 DEF Changes, Owes, Tools
<1>10. ASSUME NEW w \in Writers, Refresh(w) PROVE batch'[t] = {}
  BY <1>10 DEF Refresh
<1> HIDE DEF TypeOK, NoBatchAtRest, vault, watcher, threads, history
<1>11. QED
  BY <1>1, <1>2, <1>3, <1>4, <1>5, <1>6, <1>7, <1>8, <1>9, <1>10, KindsOfSteps DEF Update

(* A call for an update is answered only by a look at the file. *)
LEMMA StepKeepsCall ==
  ASSUME TypeOK, NoBatchAtRest, watching, Next, NEW p \in Paths, Coming(p)
  PROVE  Coming(p)' \/ (file'[p] = file[p] /\ LatestIsOnCourse(p)' /\ LatestUpdates(p)')
<1> USE DEF TypeOK, NoBatchAtRest, vault, watcher, threads, history
<1>1. ASSUME pending' = pending, batch' = batch, unnoticed \subseteq unnoticed',
             \A q : Mentions(events, q) => Mentions(events', q)
      PROVE  Coming(p)'
  BY <1>1 DEF Coming, CalledFor, Mentions
<1>2. CASE \E q \in Paths : Walk(q)
  BY <1>1, <1>2 DEF Walk
<1>3. CASE Watch
  BY <1>3 DEF Watch
<1>4. ASSUME NEW q \in Paths, NEW content \in Files, OtherWriter(q, content) PROVE Coming(p)'
  BY <1>1, <1>4, NoticedMentions DEF OtherWriter
<1>5. CASE \E q \in Paths : Link(q)
  BY <1>1, <1>5 DEF Link
<1>6. ASSUME NEW w \in Writers, NEW ps \in SUBSET Paths, NEW step \in Tools \cup {"next"},
             Changes(w, ps, step)
      PROVE  Coming(p)'
  <2>1. \A t \in Threads : batch[t] \subseteq batch'[t] BY <1>6 DEF Changes, Owes
  <2>2. QED BY <1>6, <2>1 DEF Changes, Coming, CalledFor, Mentions
<1>7. ASSUME NEW w \in Writers, NEW q \in Paths, NEW content \in Files, Edit(w, q, content)
      PROVE  Coming(p)'
  BY <1>1, <1>7, NoticedMentions DEF Edit
<1>8. ASSUME NEW n \in Timers, Dispatch(n) PROVE Coming(p)'
  <2>1. \A q : Mentions(events, q) => q = Head(events)[1] \/ Mentions(events', q)
    BY <1>8, TailMentions DEF Dispatch
  <2>2. /\ batch' = batch /\ pending \subseteq pending' /\ unnoticed \subseteq unnoticed'
        /\ Head(events)[1] \in pending' \cup unnoticed'
    BY <1>8 DEF Dispatch, Schedule
  <2>3. QED BY <2>1, <2>2 DEF Coming, CalledFor, Mentions
<1>9. ASSUME NEW n \in Timers, Fire(n) PROVE Coming(p)'
  BY <1>1, <1>9 DEF Fire
<1>10. ASSUME NEW n \in Timers, TakePending(n) PROVE Coming(p)'
  <2>1. n \in Threads /\ batch[n] = {} /\ events' = events /\ unnoticed' = unnoticed
        /\ batch' = [batch EXCEPT ![n] = pending]
    BY <1>10 DEF TakePending, Threads
  <2>2. batch'[n] = pending /\ \A t \in Threads : batch[t] \subseteq batch'[t]
    BY <2>1
  <2>3. QED BY <2>1, <2>2 DEF Coming, CalledFor
<1>11. ASSUME NEW t \in Threads, NEW q \in Paths, Look(t, q)
       PROVE  Coming(p)' \/ (file'[p] = file[p] /\ LatestIsOnCourse(p)' /\ LatestUpdates(p)')
  <2>1. CASE q = p BY <1>11, <2>1, LookSetsOut DEF Look
  <2>2. CASE q # p
    <3>1. events' = events /\ pending' = pending /\ (p \in unnoticed => p \in unnoticed')
      BY <1>11, <2>2 DEF Look
    <3>2. \A u \in Threads : p \in batch[u] => p \in batch'[u]
      BY <1>11, <2>2 DEF Look
    <3>3. QED BY <3>1, <3>2 DEF Coming, CalledFor
  <2>3. QED BY <2>1, <2>2
<1>12. CASE \E t \in Threads : Parse(t) \/ Put(t)
  BY <1>1, <1>12 DEF Parse, Put
<1>13. CASE \E w \in Writers : Refresh(w)
  BY <1>1, <1>13 DEF Refresh
<1> HIDE DEF TypeOK, NoBatchAtRest, vault, watcher, threads, history
<1>14. QED
  BY <1>2, <1>3, <1>4, <1>5, <1>6, <1>7, <1>8, <1>9, <1>10, <1>11, <1>12, <1>13, KindsOfSteps
     DEF Update

(* A change of file p calls for an update of it. *)
LEMMA ChangeCalls ==
  ASSUME TypeOK, watching, Next, NEW p \in Paths,
         file'[p] # file[p] \/ ~(p \in refused' <=> p \in refused)
  PROVE  Coming(p)'
<1> USE DEF TypeOK, vault, watcher, threads, history
<1>1. ASSUME NEW q \in Paths, NEW content \in Files, OtherWriter(q, content) PROVE Coming(p)'
  <2>1. q = p BY <1>1 DEF OtherWriter
  <2>2. Mentions(events', p) BY <1>1, <2>1, NoticedMentions DEF OtherWriter
  <2>3. QED BY <2>2 DEF Coming, CalledFor, Mentions
<1>2. ASSUME NEW q \in Paths, Link(q) PROVE Coming(p)'
  BY <1>2 DEF Link, Coming
<1>3. ASSUME NEW w \in Writers, NEW q \in Paths, NEW content \in Files, Edit(w, q, content)
      PROVE  Coming(p)'
  <2>1. q = p BY <1>3 DEF Edit
  <2>2. events' = Noticed(p, content) BY <1>3, <2>1 DEF Edit
  <2>3. Mentions(events', p) BY <2>2, NoticedMentions
  <2>4. QED BY <2>3 DEF Coming, CalledFor, Mentions
<1>4. ASSUME NEW w \in Writers, NEW ps \in SUBSET Paths, NEW step \in Tools \cup {"next"},
             Changes(w, ps, step)
      PROVE  Coming(p)'
  <2>1. p \in ps BY <1>4 DEF Changes
  <2>2. w \in Threads /\ p \in batch'[w] BY <1>4, <2>1 DEF Changes, Owes, Threads
  <2>3. QED BY <2>2 DEF Coming, CalledFor
<1>5. (file' = file /\ refused' = refused) \/ Coming(p)'
  BY <1>1, <1>2, <1>3, <1>4, ToolChanges
     DEF Next, Update, Walk, Watch, Refresh, Dispatch, Fire, TakePending, Look, Parse, Put
<1>6. QED BY <1>5

FreshInv ==
  /\ TypeOK /\ Located /\ StartInv /\ NoBatchAtRest
  /\ watching => \A p \in Paths : Coming(p) \/ OnItsWay(p)

LEMMA WatchNotices ==
  ASSUME TypeOK, StartInv, Watch, NEW p \in Paths
  PROVE  Coming(p)' \/ OnItsWay(p)'
<1> USE DEF TypeOK, StartInv, vault, watcher, threads, history
<1>1. CASE index[p] # Due(p)
  BY <1>1 DEF Watch, Coming
<1>2. CASE index[p] = Due(p)
  <2>1. EntrySet(p)' BY <1>2 DEF Watch, EntrySet, Due, Parsed
  <2>2. \A t \in Threads : pc'[t] = "idle" BY DEF Watch
  <2>3. LatestIsOnCourse(p)' BY <2>2 DEF LatestIsOnCourse
  <2>4. QED BY <2>1, <2>3 DEF OnItsWay
<1>3. QED BY <1>1, <1>2

LEMMA WatchingStarts == TypeOK /\ Next /\ ~watching /\ watching' => Watch
<1> SUFFICES ASSUME TypeOK, Next, watching' # watching PROVE Watch
  OBVIOUS
<1> USE DEF vault, watcher, threads, history
<1>1. ASSUME NEW w \in Writers, NEW ps \in SUBSET Paths, NEW step \in Tools \cup {"next"},
             Changes(w, ps, step)
      PROVE  FALSE
  BY <1>1 DEF Changes
<1>2. CASE \E p \in Paths : Walk(p) \/ Link(p) \/ \E content \in Files : OtherWriter(p, content)
  BY <1>2 DEF Walk, Link, OtherWriter
<1>3. CASE \E w \in Writers : Refresh(w) \/ \E p \in Paths, content \in Files : Edit(w, p, content)
  BY <1>3 DEF Refresh, Edit
<1>4. CASE \E n \in Timers : Dispatch(n) \/ Fire(n) \/ TakePending(n)
  BY <1>4 DEF Dispatch, Fire, TakePending
<1>5. CASE \E t \in Threads : Update(t)
  BY <1>5 DEF Update, Look, Parse, Put
<1> HIDE DEF vault, watcher, threads, history
<1>6. QED BY <1>1, <1>2, <1>3, <1>4, <1>5, KindsOfSteps

LEMMA NextFreshInv == FreshInv /\ [Next]_vars => FreshInv'
<1> SUFFICES ASSUME FreshInv, [Next]_vars PROVE FreshInv'
  OBVIOUS
<1>1. (TypeOK /\ Located /\ StartInv /\ NoBatchAtRest)'
  BY NextTypeOK, NextLocated, NextStartInv, NextNoBatchAtRest DEF FreshInv
<1>2. ASSUME watching', NEW p \in Paths PROVE Coming(p)' \/ OnItsWay(p)'
  <2>1. CASE UNCHANGED vars
    <3>1. Coming(p) \/ OnItsWay(p)
      BY <1>2, <2>1 DEF FreshInv, vars
    <3>2. QED
      BY <2>1, <3>1 DEF vars, vault, watcher, threads, history, Coming, CalledFor, OnItsWay,
                        EntrySet, Due, Parsed, LatestIsOnCourse, LatestUpdates, OnCourse
  <2>2. CASE Next /\ ~watching
    <3>1. Watch
      BY <1>2, <2>2, WatchingStarts DEF FreshInv
    <3>2. QED BY <3>1, WatchNotices DEF FreshInv
  <2>3. CASE Next /\ watching
    <3>1. CASE file'[p] # file[p] \/ ~(p \in refused' <=> p \in refused)
      BY <2>3, <3>1, ChangeCalls DEF FreshInv
    <3>2. CASE file'[p] = file[p] /\ (p \in refused' <=> p \in refused) /\ Coming(p)
      BY <2>3, <3>2, StepKeepsCall DEF FreshInv, OnItsWay
    <3>3. CASE file'[p] = file[p] /\ (p \in refused' <=> p \in refused) /\ OnItsWay(p)
      BY <2>3, <3>3, StepKeepsCourse DEF FreshInv, OnItsWay
    <3>4. QED BY <2>3, <3>1, <3>2, <3>3 DEF FreshInv
  <2>4. QED BY <2>1, <2>2, <2>3
<1>3. QED BY <1>1, <1>2 DEF FreshInv

(* An entry is what its file says, or an update is called for or under way, but for
   the files a late reading overtook or whose change nobody was told of.           *)
THEOREM AlwaysFreshOrComing == Spec => []FreshOrComing
<1>1. Init => FreshInv
  BY InitTypeOK DEF FreshInv, StartInv, NoBatchAtRest, Init
<1>2. FreshInv /\ [Next]_vars => FreshInv'
  BY NextFreshInv
<1>3. FreshInv => FreshOrComing
  <2> SUFFICES ASSUME FreshInv, watching, NEW p \in Paths,
                      ~CalledFor(p), p \notin unnoticed, ~EntrySet(p)
               PROVE  \E t \in Threads : OnCourse(t, p)
    BY DEF FreshOrComing, EntrySet
  <2>1. LatestUpdates(p) BY DEF FreshInv, Coming, OnItsWay
  <2>2. QED BY <2>1 DEF LatestUpdates
<1>4. QED BY <1>1, <1>2, <1>3, PTL DEF Spec

------------------------------------------------------------------------------
(* Read-after-write. *)

Refreshed(p) == LatestIsOnCourse(p) /\ EntrySet(p)

(* Writer w has the entry of p still to bring up to date, is at it, or has done it. *)
Refreshes(w, p) ==
  \/ p \in batch[w]
  \/ pc[w] \in {"parse", "put"} /\ at[w] = p /\ LatestIsOnCourse(p)
  \/ Refreshed(p)

ReadAfterWriteInv ==
  /\ TypeOK /\ Located /\ StartInv /\ NoBatchAtRest
  /\ \A w \in Writers : wrote[w] # {} => watching
  /\ \A w \in Writers : \A p \in wrote[w] : Refreshes(w, p)

(* A file a writer remembers is one of those it has just changed, or it remembered it
   before and nobody has changed it.                                                *)
LEMMA RememberedIsUnchanged ==
  ASSUME TypeOK, Next, NEW w \in Writers, NEW p \in Paths, p \in wrote'[w]
  PROVE  \/ watching /\ watching' /\ p \in batch'[w]
         \/ p \in wrote[w] /\ file'[p] = file[p] /\ (p \in refused' <=> p \in refused)
<1> DEFINE Claim == \/ watching /\ watching' /\ p \in batch'[w]
                    \/ p \in wrote[w] /\ file'[p] = file[p] /\ (p \in refused' <=> p \in refused)
<1> USE DEF TypeOK, Threads, vault, watcher, threads, history
<1>1. ASSUME NEW q \in Paths, NEW content \in Files, OtherWriter(q, content) PROVE Claim
  BY <1>1 DEF OtherWriter, Forget
<1>2. ASSUME NEW q \in Paths, Link(q) PROVE Claim
  BY <1>2 DEF Link, Forget
<1>3. ASSUME NEW v \in Writers, NEW q \in Paths, NEW content \in Files, Edit(v, q, content)
      PROVE  Claim
  BY <1>3 DEF Edit, Forget
<1>4. ASSUME NEW v \in Writers, NEW ps \in SUBSET Paths, NEW step \in Tools \cup {"next"},
             Changes(v, ps, step)
      PROVE  Claim
  <2>1. CASE v = w /\ p \in ps
    BY <1>4, <2>1 DEF Changes, Owes
  <2>2. CASE ~(v = w /\ p \in ps)
    <3>1. p \in wrote[w] /\ p \notin ps BY <1>4, <2>2 DEF Changes, Owes, Forget
    <3>2. QED BY <1>4, <3>1 DEF Changes
  <2>3. QED BY <2>1, <2>2
<1>5. Claim \/ (wrote' = wrote /\ file' = file /\ refused' = refused)
  BY <1>1, <1>2, <1>3, <1>4, ToolChanges
     DEF Next, Update, Walk, Watch, Refresh, Dispatch, Fire, TakePending, Look, Parse, Put
<1>6. QED BY <1>5

(* What becomes of the files a writer has still to refresh, and of the one it is at. *)
LEMMA WriterSteps ==
  ASSUME TypeOK, NoBatchAtRest, Next, NEW w \in Writers
  PROVE  \/ \E q \in Paths : Look(w, q)
         \/ Parse(w) \/ Put(w)
         \/ /\ batch[w] \subseteq batch'[w]
            /\ pc[w] \in {"parse", "put"} => pc'[w] = pc[w] /\ at'[w] = at[w]
<1> DEFINE Same == /\ batch[w] \subseteq batch'[w]
                   /\ pc[w] \in {"parse", "put"} => pc'[w] = pc[w] /\ at'[w] = at[w]
<1> USE DEF TypeOK, Threads, vault, watcher, threads, history
<1>1. CASE Watch \/ \E q \in Paths : Walk(q) \/ Link(q)
  BY <1>1 DEF Watch, Walk, Link
<1>2. CASE \E q \in Paths, content \in Files : OtherWriter(q, content)
  BY <1>2 DEF OtherWriter
<1>3. ASSUME NEW v \in Writers, NEW q \in Paths, NEW content \in Files, Edit(v, q, content)
      PROVE  Same
  BY <1>3 DEF Edit, MayChange
<1>4. ASSUME NEW v \in Writers, NEW ps \in SUBSET Paths, NEW step \in Tools \cup {"next"},
             Changes(v, ps, step)
      PROVE  Same
  BY <1>4 DEF Changes, Owes, Tools
<1>5. ASSUME NEW v \in Writers, Refresh(v) PROVE Same
  BY <1>5 DEF Refresh, Tools
<1>6. ASSUME NEW n \in Timers, Dispatch(n) PROVE Same
  <2>1. n # w /\ debounce # w BY ThreadsAssumption
  <2>2. QED BY <1>6, <2>1 DEF Dispatch, Schedule, Rearmed
<1>7. ASSUME NEW n \in Timers, Fire(n) \/ TakePending(n) PROVE Same
  <2>1. n # w BY ThreadsAssumption
  <2>2. QED BY <1>7, <2>1 DEF Fire, TakePending
<1>8. ASSUME NEW t \in Threads, t # w, Update(t) PROVE Same
  BY <1>8 DEF Update, Look, Parse, Put
<1>9. ASSUME NEW t \in Threads, Update(t)
      PROVE  Same \/ Parse(w) \/ Put(w) \/ \E q \in Paths : Look(w, q)
  BY <1>8, <1>9 DEF Update
<1> HIDE DEF TypeOK, Threads, vault, watcher, threads, history
<1>10. CASE \E n \in Timers : Dispatch(n) \/ Fire(n) \/ TakePending(n)
  BY <1>6, <1>7, <1>10
<1>11. CASE \E t \in Threads : Update(t)
  BY <1>9, <1>11
<1>12. CASE \E v \in Writers, ps \in SUBSET Paths, step \in Tools \cup {"next"} : Changes(v, ps, step)
  BY <1>4, <1>12
<1>13. QED
  BY <1>1, <1>2, <1>3, <1>5, <1>10, <1>11, <1>12, KindsOfSteps

(* A file that stays as it is stays under way, and is refreshed in the end. *)
LEMMA StepRefreshes ==
  ASSUME TypeOK, Located, StartInv, NoBatchAtRest, watching, Next,
         NEW w \in Writers, NEW p \in Paths,
         file'[p] = file[p], p \in refused' <=> p \in refused, Refreshes(w, p)
  PROVE  Refreshes(w, p)'
<1>0. w \in Threads
  BY DEF Threads
<1>1. CASE Refreshed(p)
  BY <1>1, StepKeepsCourse DEF Refreshed, Refreshes
<1>2. ASSUME NEW q \in Paths, Look(w, q) PROVE Refreshes(w, p)' \/ Refreshed(p)
  <2>1. pc[w] = "next" /\ batch' = [batch EXCEPT ![w] = @ \ {q}] BY <1>2 DEF Look
  <2>2. p \in batch[w] \/ Refreshed(p) BY <2>1 DEF Refreshes
  <2>3. CASE p \in batch[w] /\ q # p
    BY <1>0, <2>1, <2>3 DEF Refreshes, TypeOK
  <2>4. CASE q = p
    <3>1. LatestIsOnCourse(p)' BY <1>0, <1>2, <2>4, LookSetsOut
    <3>2. pc'[w] \in {"parse", "put"} /\ at'[w] = p BY <1>0, <1>2, <2>4 DEF Look, TypeOK
    <3>3. QED BY <3>1, <3>2 DEF Refreshes
  <2>5. QED BY <2>2, <2>3, <2>4
<1>3. CASE Parse(w)
  <2>1. pc'[w] = "put" /\ at' = at /\ batch' = batch BY <1>0, <1>3 DEF Parse, TypeOK
  <2>2. LatestIsOnCourse(p) => LatestIsOnCourse(p)' BY StepKeepsCourse
  <2>3. QED BY <1>1, <2>1, <2>2 DEF Refreshes
<1>4. CASE Put(w) /\ p \notin batch[w] /\ at[w] = p /\ LatestIsOnCourse(p)
  <2>1. LatestIsOnCourse(p)' BY <1>4, StepKeepsCourse
  <2>2. index'[p] = seen[w] /\ (latest[p] # w => p \in overtaken')
    BY <1>0, <1>4 DEF Put, TypeOK
  <2>3. latest[p] = w => seen[w] = Due(p)
    BY <1>0, <1>4 DEF Put, LatestIsOnCourse, OnCourse
  <2>4. Due(p)' = Due(p) BY DEF Due, Parsed
  <2>5. EntrySet(p)' BY <2>2, <2>3, <2>4 DEF EntrySet
  <2>6. QED BY <2>1, <2>5 DEF Refreshed, Refreshes
<1>5. CASE Put(w) /\ p \in batch[w]
  BY <1>5 DEF Put, Refreshes, threads
<1>6. CASE /\ batch[w] \subseteq batch'[w]
           /\ pc[w] \in {"parse", "put"} => pc'[w] = pc[w] /\ at'[w] = at[w]
  <2>1. LatestIsOnCourse(p) => LatestIsOnCourse(p)' BY StepKeepsCourse
  <2>2. QED BY <1>1, <1>6, <2>1 DEF Refreshes
<1>7. QED BY <1>1, <1>2, <1>3, <1>4, <1>5, <1>6, WriterSteps DEF Refreshes

LEMMA NextReadAfterWriteInv == ReadAfterWriteInv /\ [Next]_vars => ReadAfterWriteInv'
<1> SUFFICES ASSUME ReadAfterWriteInv, [Next]_vars PROVE ReadAfterWriteInv'
  OBVIOUS
<1>1. (TypeOK /\ Located /\ StartInv /\ NoBatchAtRest)'
  BY NextTypeOK, NextLocated, NextStartInv, NextNoBatchAtRest DEF ReadAfterWriteInv
<1>2. ASSUME NEW w \in Writers, NEW p \in wrote'[w] PROVE watching' /\ Refreshes(w, p)'
  <2>0. p \in Paths
    BY <1>1 DEF TypeOK
  <2>1. CASE UNCHANGED vars
    <3>1. watching /\ Refreshes(w, p)
      BY <2>1 DEF ReadAfterWriteInv, vars, history
    <3>2. QED
      BY <2>1, <3>1 DEF vars, vault, watcher, threads, history, Refreshes, Refreshed, EntrySet,
                        Due, Parsed, LatestIsOnCourse, OnCourse
  <2>2. CASE Next
    <3>1. CASE watching /\ watching' /\ p \in batch'[w]
      BY <3>1 DEF Refreshes
    <3>2. CASE p \in wrote[w] /\ file'[p] = file[p] /\ (p \in refused' <=> p \in refused)
      <4>1. watching /\ Refreshes(w, p) BY <3>2 DEF ReadAfterWriteInv
      <4>2. watching' BY <2>2, <4>1, StaysWatching DEF ReadAfterWriteInv
      <4>3. QED BY <2>0, <2>2, <3>2, <4>1, <4>2, StepRefreshes DEF ReadAfterWriteInv
    <3>3. QED BY <2>0, <2>2, <3>1, <3>2, RememberedIsUnchanged DEF ReadAfterWriteInv
  <2>3. QED BY <2>1, <2>2
<1>3. QED BY <1>1, <1>2 DEF ReadAfterWriteInv

(* When a tool has answered, the entry of each file it changed is what the file says until
   somebody changes it again, unless a reading begun before its own was entered after.    *)
THEOREM AnswersAreFresh == Spec => []AnswerIsFresh
<1>1. Init => ReadAfterWriteInv
  BY InitTypeOK DEF ReadAfterWriteInv, StartInv, NoBatchAtRest, Init
<1>2. ReadAfterWriteInv /\ [Next]_vars => ReadAfterWriteInv'
  BY NextReadAfterWriteInv
<1>3. ReadAfterWriteInv => AnswerIsFresh
  <2> SUFFICES ASSUME ReadAfterWriteInv, NEW w \in Writers, pc[w] = "answered", NEW p \in wrote[w]
               PROVE  EntrySet(p)
    BY DEF AnswerIsFresh, EntrySet
  <2>1. batch[w] = {} BY DEF ReadAfterWriteInv, NoBatchAtRest, Threads
  <2>2. Refreshes(w, p) BY DEF ReadAfterWriteInv
  <2>3. QED BY <2>1, <2>2 DEF Refreshes, Refreshed
<1>4. QED BY <1>1, <1>2, <1>3, PTL DEF Spec
==============================================================================
