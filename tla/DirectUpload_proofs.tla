------------------------- MODULE DirectUpload_proofs --------------------------
(***************************************************************************)
(* DirectUpload for every number of URLs, requests, contents and crashes:  *)
(* type correctness, the safety invariants, the implementation of          *)
(* OneShotUpload, and when the post-write hook is started.  The argument   *)
(* for the safety of a URL is the one the comment in commit_direct_upload  *)
(* hints at: the directory "claimed" is held by one request at a time, and *)
(* once the file is written nobody removes it.                             *)
(***************************************************************************)
EXTENDS DirectUpload, TLAPS

LEMMA InitInv == Init => TypeOK /\ ClaimInv
  BY MaxCrashesAssumption
     DEF Init, TypeOK, Stages, Replies, Serving, InCommit, Holding, ClaimInv,
         InFlight, OneHolder, ClaimCoversWrite, NotWrittenYet, WrittenOnce

(* Types: InFlight is needed because a request at work has a URL, and because
   only a body that passed the checks is written to the target.              *)
LEMMA NextTypeOK == TypeOK /\ InFlight /\ [Next]_vars => TypeOK'
<1> SUFFICES ASSUME TypeOK, [Next]_vars,
                    \A r \in Requests : pc[r] \in Serving => url[r] \in Uploads,
                    \A r \in Requests : pc[r] = "placing" => body[r] \in Contents
             PROVE  TypeOK'
  BY DEF InFlight, TypeOK, Serving, InCommit, Holding
<1> USE DEF TypeOK, given, Stages, Replies, Serving, InCommit, Holding, Goto, Answer
<1>1. ASSUME NEW u \in Uploads, NEW old \in SUBSET Uploads, RequestUrl(u, old)
      PROVE  TypeOK'
  BY <1>1 DEF RequestUrl, Sweep, request, history
<1>2. ASSUME NEW old \in SUBSET Uploads, RequestOtherUrl(old)
      PROVE  TypeOK'
  BY <1>2 DEF RequestOtherUrl, Sweep, request, history
<1>3. ASSUME NEW u \in Uploads, Expire(u) PROVE TypeOK'
  BY <1>3 DEF Expire, request, history
<1>4. ASSUME NEW r \in Requests, NEW u \in Uploads, RefuseUnread(r, u)
      PROVE  TypeOK'
  BY <1>4 DEF RefuseUnread, disk, history
<1>5. ASSUME NEW r \in Requests, NEW u \in Uploads, AcceptGrant(r, u)
      PROVE  TypeOK'
  BY <1>5 DEF AcceptGrant, history
<1>6. ASSUME NEW r \in Requests, NEW bytes \in Contents \cup {BadBody},
             StreamBody(r, bytes)
      PROVE  TypeOK'
  BY <1>6 DEF StreamBody, disk, history
<1>7. ASSUME NEW r \in Requests, CutOff(r) PROVE TypeOK'
  BY <1>7 DEF CutOff, history
<1>8. ASSUME NEW r \in Requests, Close(r) PROVE TypeOK'
  BY <1>8 DEF Close, history
<1>9. ASSUME NEW r \in Requests, LoadGrant(r) PROVE TypeOK'
  BY <1>9 DEF LoadGrant, disk, history
<1>10. ASSUME NEW r \in Requests, Claim(r) PROVE TypeOK'
  BY <1>10 DEF Claim, history
<1>11. ASSUME NEW r \in Requests, Check(r) PROVE TypeOK'
  BY <1>11 DEF Check, disk, history
<1>12. ASSUME NEW r \in Requests, Copy(r) PROVE TypeOK'
  BY <1>12 DEF Copy, history
<1>13. ASSUME NEW r \in Requests, WriteFails(r) PROVE TypeOK'
  BY <1>13 DEF WriteFails, history
<1>14. ASSUME NEW r \in Requests, Replace(r) PROVE TypeOK'
  BY <1>14 DEF Replace
<1>15. ASSUME NEW r \in Requests, Link(r) PROVE TypeOK'
  <2>1. CASE target = Nothing
    <3>1. /\ pc' \in [Requests -> {"idle", "done"} \cup Serving]
          /\ isNew' \in [Requests -> BOOLEAN]
          /\ target' \in Contents \cup {Nothing}
      BY <1>15, <2>1 DEF Link
    <3>2. placedBy' \in [Uploads -> SUBSET Requests]
      BY <1>15, <2>1 DEF Link
    <3>3. QED BY <1>15, <2>1, <3>1, <3>2 DEF Link
  <2>2. CASE target # Nothing BY <1>15, <2>2 DEF Link
  <2>3. QED BY <2>1, <2>2
<1>16. ASSUME NEW r \in Requests, UnlinkTemp(r) PROVE TypeOK'
  BY <1>16 DEF UnlinkTemp, history
<1>17. ASSUME NEW r \in Requests, RecordCompletion(r) PROVE TypeOK'
  BY <1>17 DEF RecordCompletion, FirePostWrite, history
<1>18. ASSUME NEW r \in Requests, RecordFails(r) PROVE TypeOK'
  BY <1>18 DEF RecordFails, history
<1>19. ASSUME NEW r \in Requests, Release(r) PROVE TypeOK'
  BY <1>19 DEF Release, history
<1>20. ASSUME NEW r \in Requests, ReleaseFails(r) PROVE TypeOK'
  BY <1>20 DEF ReleaseFails, disk
<1>21. CASE OtherWriter
  BY <1>21 DEF OtherWriter, request, history
<1>22. CASE Crash
  BY <1>22, MaxCrashesAssumption DEF Crash, disk
<1>23. CASE UNCHANGED vars
  BY <1>23 DEF vars, disk, request, history
<1>24. ASSUME NEW r \in Requests, SnapshotFails(r) PROVE TypeOK'
  BY <1>24 DEF SnapshotFails, history
<1>25. ASSUME NEW r \in Requests, FailsUnclaimed(r) PROVE TypeOK'
  BY <1>25 DEF FailsUnclaimed, disk, history
<1>26. QED
  BY <1>1, <1>2, <1>3, <1>4, <1>5, <1>6, <1>7, <1>8, <1>9, <1>10, <1>11, <1>12,
     <1>13, <1>14, <1>15, <1>16, <1>17, <1>18, <1>19, <1>20, <1>21, <1>22, <1>23,
     <1>24, <1>25
     DEF Next, Commit, CommitStep, CommitFault

(* One step of the proof per action, and under it one per conjunct of ClaimInv
   when the action is one of a request.                                       *)
LEMMA NextClaimInv == TypeOK /\ ClaimInv /\ [Next]_vars => ClaimInv'
<1> SUFFICES ASSUME TypeOK, ClaimInv, [Next]_vars PROVE ClaimInv'
  OBVIOUS
<1> USE DEF TypeOK, given, ClaimInv, InFlight, OneHolder, ClaimCoversWrite,
            NotWrittenYet, WrittenOnce, Stages, Replies, Serving, InCommit,
            Holding, Goto, Answer
<1>1. ASSUME NEW u \in Uploads, NEW old \in SUBSET Uploads, RequestUrl(u, old)
      PROVE  ClaimInv'
  BY <1>1 DEF RequestUrl, Stale, Sweep, request, history
<1>2. ASSUME NEW old \in SUBSET Uploads, RequestOtherUrl(old)
      PROVE  ClaimInv'
  BY <1>2 DEF RequestOtherUrl, Stale, Sweep, request, history
<1>3. ASSUME NEW u \in Uploads, Expire(u) PROVE ClaimInv'
  BY <1>3 DEF Expire, request, history
<1>4. ASSUME NEW r \in Requests, NEW u \in Uploads, RefuseUnread(r, u)
      PROVE  ClaimInv'
  BY <1>4 DEF RefuseUnread, disk, history
<1>5. ASSUME NEW r \in Requests, NEW u \in Uploads, AcceptGrant(r, u)
      PROVE  ClaimInv'
  BY <1>5 DEF AcceptGrant, history
<1>6. ASSUME NEW r \in Requests, NEW bytes \in Contents \cup {BadBody},
             StreamBody(r, bytes)
      PROVE  ClaimInv'
  BY <1>6, NothingAssumption, BadBodyAssumption DEF StreamBody, disk, history
<1>7. ASSUME NEW r \in Requests, CutOff(r) PROVE ClaimInv'
  <2>1. InFlight' BY <1>7 DEF CutOff, history
  <2>2. OneHolder' BY <1>7 DEF CutOff, history
  <2>3. ClaimCoversWrite' BY <1>7 DEF CutOff, history
  <2>4. NotWrittenYet' BY <1>7 DEF CutOff, history
  <2>5. WrittenOnce' BY <1>7 DEF CutOff, history
  <2>6. QED BY <2>1, <2>2, <2>3, <2>4, <2>5 DEF ClaimInv
<1>8. ASSUME NEW r \in Requests, Close(r) PROVE ClaimInv'
  <2>1. InFlight' BY <1>8 DEF Close, history
  <2>2. OneHolder' BY <1>8 DEF Close, history
  <2>3. ClaimCoversWrite' BY <1>8 DEF Close, history
  <2>4. NotWrittenYet' BY <1>8 DEF Close, history
  <2>5. WrittenOnce' BY <1>8 DEF Close, history
  <2>6. QED BY <2>1, <2>2, <2>3, <2>4, <2>5 DEF ClaimInv
<1>9. ASSUME NEW r \in Requests, LoadGrant(r) PROVE ClaimInv'
  <2>1. InFlight' BY <1>9 DEF LoadGrant, GrantOK, disk, history
  <2>2. OneHolder' BY <1>9 DEF LoadGrant, GrantOK, disk, history
  <2>3. ClaimCoversWrite' BY <1>9 DEF LoadGrant, GrantOK, disk, history
  <2>4. NotWrittenYet' BY <1>9 DEF LoadGrant, GrantOK, disk, history
  <2>5. WrittenOnce' BY <1>9 DEF LoadGrant, GrantOK, disk, history
  <2>6. QED BY <2>1, <2>2, <2>3, <2>4, <2>5 DEF ClaimInv
<1>10. ASSUME NEW r \in Requests, Claim(r) PROVE ClaimInv'
  <2>1. InFlight' BY <1>10 DEF Claim, history
  <2>2. OneHolder' BY <1>10 DEF Claim, history
  <2>3. ClaimCoversWrite' BY <1>10 DEF Claim, history
  <2>4. NotWrittenYet' BY <1>10 DEF Claim, history
  <2>5. WrittenOnce' BY <1>10 DEF Claim, history
  <2>6. QED BY <2>1, <2>2, <2>3, <2>4, <2>5 DEF ClaimInv
<1>11. ASSUME NEW r \in Requests, Check(r) PROVE ClaimInv'
  <2>1. InFlight' BY <1>11 DEF Check, Acceptable, disk, history
  <2>2. OneHolder' BY <1>11 DEF Check, Acceptable, disk, history
  <2>3. ClaimCoversWrite' BY <1>11 DEF Check, Acceptable, disk, history
  <2>4. NotWrittenYet' BY <1>11 DEF Check, Acceptable, disk, history
  <2>5. WrittenOnce' BY <1>11 DEF Check, Acceptable, disk, history
  <2>6. QED BY <2>1, <2>2, <2>3, <2>4, <2>5 DEF ClaimInv
<1>12. ASSUME NEW r \in Requests, Copy(r) PROVE ClaimInv'
  <2>1. InFlight' BY <1>12 DEF Copy, history
  <2>2. OneHolder' BY <1>12 DEF Copy, history
  <2>3. ClaimCoversWrite' BY <1>12 DEF Copy, history
  <2>4. NotWrittenYet' BY <1>12 DEF Copy, history
  <2>5. WrittenOnce' BY <1>12 DEF Copy, history
  <2>6. QED BY <2>1, <2>2, <2>3, <2>4, <2>5 DEF ClaimInv
<1>13. ASSUME NEW r \in Requests, WriteFails(r) PROVE ClaimInv'
  <2>1. InFlight' BY <1>13 DEF WriteFails, history
  <2>2. OneHolder' BY <1>13 DEF WriteFails, history
  <2>3. ClaimCoversWrite' BY <1>13 DEF WriteFails, history
  <2>4. NotWrittenYet' BY <1>13 DEF WriteFails, history
  <2>5. WrittenOnce' BY <1>13 DEF WriteFails, history
  <2>6. QED BY <2>1, <2>2, <2>3, <2>4, <2>5 DEF ClaimInv
<1>14. ASSUME NEW r \in Requests, Replace(r) PROVE ClaimInv'
  <2>1. InFlight' BY <1>14 DEF Replace
  <2>2. OneHolder' BY <1>14 DEF Replace
  <2>3. ClaimCoversWrite' BY <1>14 DEF Replace
  <2>4. NotWrittenYet' BY <1>14 DEF Replace
  <2>5. WrittenOnce' BY <1>14 DEF Replace
  <2>6. QED BY <2>1, <2>2, <2>3, <2>4, <2>5 DEF ClaimInv
<1>15. ASSUME NEW r \in Requests, Link(r) PROVE ClaimInv'
  <2>1. InFlight' BY <1>15 DEF Link
  <2>2. OneHolder' BY <1>15 DEF Link
  <2>3. ClaimCoversWrite' BY <1>15 DEF Link
  <2>4. NotWrittenYet' BY <1>15 DEF Link
  <2>5. WrittenOnce'
    <3>1. url[r] \in Uploads /\ placedBy[url[r]] = {} BY <1>15 DEF Link
    <3>2. placedBy' = placedBy \/ placedBy' = [placedBy EXCEPT ![url[r]] = @ \cup {r}]
      BY <1>15 DEF Link
    <3>3. \A u \in Uploads : placedBy'[u] = placedBy[u] \/ placedBy'[u] = {r} BY <3>1, <3>2
    <3>4. QED BY <3>3
  <2>6. QED BY <2>1, <2>2, <2>3, <2>4, <2>5 DEF ClaimInv
<1>16. ASSUME NEW r \in Requests, UnlinkTemp(r) PROVE ClaimInv'
  <2>1. InFlight' BY <1>16 DEF UnlinkTemp, history
  <2>2. OneHolder' BY <1>16 DEF UnlinkTemp, history
  <2>3. ClaimCoversWrite' BY <1>16 DEF UnlinkTemp, history
  <2>4. NotWrittenYet' BY <1>16 DEF UnlinkTemp, history
  <2>5. WrittenOnce' BY <1>16 DEF UnlinkTemp, history
  <2>6. QED BY <2>1, <2>2, <2>3, <2>4, <2>5 DEF ClaimInv
<1>17. ASSUME NEW r \in Requests, RecordCompletion(r) PROVE ClaimInv'
  <2>1. InFlight' BY <1>17 DEF RecordCompletion, FirePostWrite, history
  <2>2. OneHolder' BY <1>17 DEF RecordCompletion, FirePostWrite, history
  <2>3. ClaimCoversWrite' BY <1>17 DEF RecordCompletion, FirePostWrite, history
  <2>4. NotWrittenYet' BY <1>17 DEF RecordCompletion, FirePostWrite, history
  <2>5. WrittenOnce' BY <1>17 DEF RecordCompletion, FirePostWrite, history
  <2>6. QED BY <2>1, <2>2, <2>3, <2>4, <2>5 DEF ClaimInv
<1>18. ASSUME NEW r \in Requests, RecordFails(r) PROVE ClaimInv'
  <2>1. InFlight' BY <1>18 DEF RecordFails, history
  <2>2. OneHolder' BY <1>18 DEF RecordFails, history
  <2>3. ClaimCoversWrite' BY <1>18 DEF RecordFails, history
  <2>4. NotWrittenYet' BY <1>18 DEF RecordFails, history
  <2>5. WrittenOnce' BY <1>18 DEF RecordFails, history
  <2>6. QED BY <2>1, <2>2, <2>3, <2>4, <2>5 DEF ClaimInv
<1>19. ASSUME NEW r \in Requests, Release(r) PROVE ClaimInv'
  <2>1. InFlight' BY <1>19 DEF Release, history
  <2>2. OneHolder' BY <1>19 DEF Release, history
  <2>3. ClaimCoversWrite' BY <1>19 DEF Release, history
  <2>4. NotWrittenYet' BY <1>19 DEF Release, history
  <2>5. WrittenOnce' BY <1>19 DEF Release, history
  <2>6. QED BY <2>1, <2>2, <2>3, <2>4, <2>5 DEF ClaimInv
<1>20. ASSUME NEW r \in Requests, ReleaseFails(r) PROVE ClaimInv'
  <2>1. InFlight' BY <1>20 DEF ReleaseFails, disk
  <2>2. OneHolder' BY <1>20 DEF ReleaseFails, disk
  <2>3. ClaimCoversWrite' BY <1>20 DEF ReleaseFails, disk
  <2>4. NotWrittenYet' BY <1>20 DEF ReleaseFails, disk
  <2>5. WrittenOnce' BY <1>20 DEF ReleaseFails, disk
  <2>6. QED BY <2>1, <2>2, <2>3, <2>4, <2>5 DEF ClaimInv
<1>21. CASE OtherWriter
  BY <1>21 DEF OtherWriter, request, history
<1>22. CASE Crash
  BY <1>22, MaxCrashesAssumption DEF Crash, disk
<1>23. CASE UNCHANGED vars
  BY <1>23 DEF vars, disk, request, history
<1>24. ASSUME NEW r \in Requests, SnapshotFails(r) PROVE ClaimInv'
  <2>1. InFlight' BY <1>24 DEF SnapshotFails, history
  <2>2. OneHolder' BY <1>24 DEF SnapshotFails, history
  <2>3. ClaimCoversWrite' BY <1>24 DEF SnapshotFails, history
  <2>4. NotWrittenYet' BY <1>24 DEF SnapshotFails, history
  <2>5. WrittenOnce' BY <1>24 DEF SnapshotFails, history
  <2>6. QED BY <2>1, <2>2, <2>3, <2>4, <2>5 DEF ClaimInv
<1>25. ASSUME NEW r \in Requests, FailsUnclaimed(r) PROVE ClaimInv'
  <2>1. InFlight' BY <1>25 DEF FailsUnclaimed, disk, history
  <2>2. OneHolder' BY <1>25 DEF FailsUnclaimed, disk, history
  <2>3. ClaimCoversWrite' BY <1>25 DEF FailsUnclaimed, disk, history
  <2>4. NotWrittenYet' BY <1>25 DEF FailsUnclaimed, disk, history
  <2>5. WrittenOnce' BY <1>25 DEF FailsUnclaimed, disk, history
  <2>6. QED BY <2>1, <2>2, <2>3, <2>4, <2>5 DEF ClaimInv
<1>26. QED
  BY <1>1, <1>2, <1>3, <1>4, <1>5, <1>6, <1>7, <1>8, <1>9, <1>10, <1>11, <1>12,
     <1>13, <1>14, <1>15, <1>16, <1>17, <1>18, <1>19, <1>20, <1>21, <1>22, <1>23,
     <1>24, <1>25
     DEF Next, Commit, CommitStep, CommitFault

LEMMA NextInv == TypeOK /\ ClaimInv /\ [Next]_vars => TypeOK' /\ ClaimInv'
  BY NextTypeOK, NextClaimInv DEF ClaimInv

LEMMA Invariants == Spec => [](TypeOK /\ ClaimInv)
  BY InitInv, NextInv, PTL DEF Spec

(* Every variable of the upload protocol keeps its type. *)
THEOREM TypeCorrect == Spec => []TypeOK
  BY Invariants, PTL

(* However many requests race on however many URLs, and wherever the process
   dies, each URL writes the file at most once.                              *)
THEOREM UrlWritesOnce == Spec => []WrittenOnce
<1>1. ClaimInv => WrittenOnce BY DEF ClaimInv
<1>2. QED BY Invariants, <1>1, PTL

(* The detailed protocol implements the one-shot promise: a grant without
   overwrite never replaces a file, only bytes that match expected_sha256 are
   written, and at most once.  Replace and Link are Place; another writer is
   OtherWriter; every other step changes nothing the promise is about.        *)
THEOREM UploadKeepsPromise == Spec => KeepsPromise
<1>1. Init => Promise!Init
  BY DEF Init, Promise!Init, Promise!Terms
<1>2. TypeOK /\ ClaimInv /\ [Next]_vars => [Promise!Next]_Promise!vars
  <2> SUFFICES ASSUME TypeOK, ClaimInv, [Next]_vars
               PROVE  Promise!Next \/ UNCHANGED <<terms, target, placedBy>>
    BY DEF Promise!vars
  <2>1. ASSUME NEW r \in Requests, pc[r] = "placing", target' = body[r],
               target # Nothing => terms[url[r]].overwrite,
               placedBy' = [placedBy EXCEPT ![url[r]] = @ \cup {r}],
               UNCHANGED terms
        PROVE  Promise!Next
    <3> DEFINE U == url[r]
    <3>1. /\ U \in Uploads /\ body[r] \in Contents
          /\ terms[U].sha256 \in {Nothing, body[r]}
          /\ placedBy[U] = {}
      BY <2>1 DEF ClaimInv, InFlight, NotWrittenYet, TypeOK, Serving, InCommit, Holding
    <3>2. {u \in Uploads : placedBy'[u] # {}} = {u \in Uploads : placedBy[u] # {}} \cup {U}
      BY <2>1, <3>1 DEF TypeOK
    <3>3. ASSUME NEW u \in Uploads, NEW content \in Contents,
                 u = U, content = body[r]
          PROVE  Promise!Place(u, content)
      BY <2>1, <3>1, <3>2, <3>3 DEF Promise!Place
    <3>4. QED BY <3>1, <3>3 DEF Promise!Next
  <2>2. ASSUME NEW r \in Requests, Replace(r) PROVE Promise!Next
    BY <2>1, <2>2 DEF Replace, given
  <2>3. ASSUME NEW r \in Requests, Link(r)
        PROVE  Promise!Next \/ UNCHANGED <<terms, target, placedBy>>
    <3>1. CASE target = Nothing BY <2>1, <2>3, <3>1 DEF Link, given
    <3>2. CASE target # Nothing BY <2>3, <3>2 DEF Link, given
    <3>3. QED BY <3>1, <3>2
  <2>4. CASE OtherWriter
    <3>1. target' \in Contents \cup {Nothing} /\ UNCHANGED <<terms, placedBy>>
      BY <2>4 DEF OtherWriter, given, history
    <3>2. QED BY <3>1 DEF Promise!Next, Promise!OtherWriter
  <2>5. CASE (\E u \in Uploads, old \in SUBSET Uploads : RequestUrl(u, old))
             \/ (\E old \in SUBSET Uploads : RequestOtherUrl(old))
             \/ (\E u \in Uploads : Expire(u))
    BY <2>5 DEF RequestUrl, RequestOtherUrl, Expire, given, history
  <2>6. ASSUME NEW r \in Requests,
               \/ \E u \in Uploads : RefuseUnread(r, u) \/ AcceptGrant(r, u)
               \/ \E bytes \in Contents \cup {BadBody} : StreamBody(r, bytes)
               \/ CutOff(r) \/ Close(r) \/ SnapshotFails(r)
        PROVE  UNCHANGED <<terms, target, placedBy>>
    BY <2>6 DEF RefuseUnread, AcceptGrant, StreamBody, CutOff, Close, SnapshotFails,
                given, disk, history
  <2>7. ASSUME NEW r \in Requests,
               \/ FailsUnclaimed(r) \/ LoadGrant(r) \/ Claim(r) \/ Check(r)
               \/ Copy(r) \/ WriteFails(r) \/ UnlinkTemp(r) \/ RecordCompletion(r) \/ RecordFails(r)
               \/ Release(r) \/ ReleaseFails(r)
        PROVE  UNCHANGED <<terms, target, placedBy>>
    BY <2>7 DEF given, FailsUnclaimed, LoadGrant, Claim, Check, Copy, WriteFails, UnlinkTemp,
                RecordCompletion, RecordFails, Release, ReleaseFails, disk, history
  <2>8. CASE Crash \/ UNCHANGED vars
    BY <2>8 DEF Crash, vars, given, disk, history
  <2>9. QED
    BY <2>2, <2>3, <2>4, <2>5, <2>6, <2>7, <2>8 DEF Next, Commit, CommitStep, CommitFault
<1>3. QED
  BY <1>1, <1>2, Invariants, PTL DEF Spec, KeepsPromise, Promise!Spec

(* The answers, the claims and the files of a request, as far as they follow
   from where it is: one step per action, one conjunct of AnswerInv at a time. *)
LEMMA NextAnswerInv == TypeOK /\ ClaimInv /\ AnswerInv /\ [Next]_vars => AnswerInv'
<1> SUFFICES ASSUME TypeOK, ClaimInv, AnswerInv, [Next]_vars PROVE AnswerInv'
  OBVIOUS
<1> USE DEF TypeOK, given, ClaimInv, InFlight, OneHolder, AnswerInv, ReplyMatchesStep,
            WriterMovesOn, FilesMatchStep, RepliesTellTheTruth,
            RefusalKeepsTheUrl, Stages, Replies, Serving, InCommit, Holding,
            Goto, Answer
<1>0. ASSUME UNCHANGED <<pc, url, reply, temps, placedBy, abandoned>>,
             parts' \subseteq parts, claimed' \subseteq claimed
      PROVE  AnswerInv'
  <2>1. ReplyMatchesStep' /\ RepliesTellTheTruth' BY <1>0
  <2>2. WriterMovesOn' BY <1>0
  <2>3. FilesMatchStep' BY <1>0
  <2>4. RefusalKeepsTheUrl' BY <1>0
  <2>5. QED BY <2>1, <2>2, <2>3, <2>4
<1>1. ASSUME NEW u \in Uploads, NEW old \in SUBSET Uploads, RequestUrl(u, old)
      PROVE  AnswerInv'
  <2>1. /\ UNCHANGED <<pc, url, reply, temps, placedBy, abandoned>>
        /\ parts' \subseteq parts /\ claimed' \subseteq claimed
    BY <1>1 DEF RequestUrl, Sweep, request, history
  <2>2. QED BY <1>0, <2>1
<1>2. ASSUME NEW old \in SUBSET Uploads, RequestOtherUrl(old)
      PROVE  AnswerInv'
  <2>1. /\ UNCHANGED <<pc, url, reply, temps, placedBy, abandoned>>
        /\ parts' \subseteq parts /\ claimed' \subseteq claimed
    BY <1>2 DEF RequestOtherUrl, Sweep, request, history
  <2>2. QED BY <1>0, <2>1
<1>3. ASSUME NEW u \in Uploads, Expire(u) PROVE AnswerInv'
  BY <1>3 DEF Expire, request, history
<1>4. ASSUME NEW r \in Requests, NEW u \in Uploads, RefuseUnread(r, u)
      PROVE  AnswerInv'
  BY <1>4 DEF RefuseUnread, disk, history
<1>5. ASSUME NEW r \in Requests, NEW u \in Uploads, AcceptGrant(r, u)
      PROVE  AnswerInv'
  BY <1>5 DEF AcceptGrant, history
<1>6. ASSUME NEW r \in Requests, NEW bytes \in Contents \cup {BadBody},
             StreamBody(r, bytes)
      PROVE  AnswerInv'
  <2>1. ReplyMatchesStep' BY <1>6 DEF StreamBody, disk, history
  <2>2. WriterMovesOn' BY <1>6 DEF StreamBody, disk, history
  <2>3. FilesMatchStep' BY <1>6 DEF StreamBody, disk, history
  <2>4. RepliesTellTheTruth' BY <1>6 DEF StreamBody, disk, history
  <2>5. RefusalKeepsTheUrl' BY <1>6 DEF StreamBody, disk, history
  <2>6. QED BY <2>1, <2>2, <2>3, <2>4, <2>5 DEF AnswerInv
<1>7. ASSUME NEW r \in Requests, CutOff(r) PROVE AnswerInv'
  <2>1. ReplyMatchesStep' BY <1>7 DEF CutOff, history
  <2>2. WriterMovesOn' BY <1>7 DEF CutOff, history
  <2>3. FilesMatchStep' BY <1>7 DEF CutOff, history
  <2>4. RepliesTellTheTruth' BY <1>7 DEF CutOff, history
  <2>5. RefusalKeepsTheUrl' BY <1>7 DEF CutOff, history
  <2>6. QED BY <2>1, <2>2, <2>3, <2>4, <2>5 DEF AnswerInv
<1>8. ASSUME NEW r \in Requests, Close(r) PROVE AnswerInv'
  <2>1. ReplyMatchesStep' BY <1>8 DEF Close, history
  <2>2. WriterMovesOn' BY <1>8 DEF Close, history
  <2>3. FilesMatchStep' BY <1>8 DEF Close, history
  <2>4. RepliesTellTheTruth' BY <1>8 DEF Close, history
  <2>5. RefusalKeepsTheUrl' BY <1>8 DEF Close, history
  <2>6. QED BY <2>1, <2>2, <2>3, <2>4, <2>5 DEF AnswerInv
<1>9. ASSUME NEW r \in Requests, LoadGrant(r) PROVE AnswerInv'
  <2>1. ReplyMatchesStep' BY <1>9 DEF LoadGrant, disk, history
  <2>2. WriterMovesOn' BY <1>9 DEF LoadGrant, disk, history
  <2>3. FilesMatchStep' BY <1>9 DEF LoadGrant, disk, history
  <2>4. RepliesTellTheTruth' BY <1>9 DEF LoadGrant, disk, history
  <2>5. RefusalKeepsTheUrl' BY <1>9 DEF LoadGrant, disk, history
  <2>6. QED BY <2>1, <2>2, <2>3, <2>4, <2>5 DEF AnswerInv
<1>10. ASSUME NEW r \in Requests, Claim(r) PROVE AnswerInv'
  <2>1. ReplyMatchesStep' BY <1>10 DEF Claim, history
  <2>2. WriterMovesOn' BY <1>10 DEF Claim, history
  <2>3. FilesMatchStep' BY <1>10 DEF Claim, history
  <2>4. RepliesTellTheTruth' BY <1>10 DEF Claim, history
  <2>5. RefusalKeepsTheUrl' BY <1>10 DEF Claim, history
  <2>6. QED BY <2>1, <2>2, <2>3, <2>4, <2>5 DEF AnswerInv
<1>11. ASSUME NEW r \in Requests, Check(r) PROVE AnswerInv'
  <2>1. ReplyMatchesStep' BY <1>11 DEF Check, disk, history
  <2>2. WriterMovesOn'
    <3>1. /\ url' = url /\ placedBy' = placedBy
          /\ pc[r] = "checking"
          /\ \A s \in Requests \ {r} : pc'[s] = pc[s] /\ reply'[s] = reply[s]
      BY <1>11 DEF Check, disk, history
    <3>2. \A u \in Uploads : placedBy[u] \subseteq Requests \ {r}
      BY <3>1
    <3>3. QED BY <3>1, <3>2
  <2>3. FilesMatchStep' BY <1>11 DEF Check, disk, history
  <2>4. RepliesTellTheTruth' BY <1>11 DEF Check, disk, history
  <2>5. RefusalKeepsTheUrl' BY <1>11 DEF Check, disk, history
  <2>6. QED BY <2>1, <2>2, <2>3, <2>4, <2>5 DEF AnswerInv
<1>12. ASSUME NEW r \in Requests, Copy(r) PROVE AnswerInv'
  <2>1. ReplyMatchesStep' BY <1>12 DEF Copy, history
  <2>2. WriterMovesOn' BY <1>12 DEF Copy, history
  <2>3. FilesMatchStep' BY <1>12 DEF Copy, history
  <2>4. RepliesTellTheTruth' BY <1>12 DEF Copy, history
  <2>5. RefusalKeepsTheUrl' BY <1>12 DEF Copy, history
  <2>6. QED BY <2>1, <2>2, <2>3, <2>4, <2>5 DEF AnswerInv
<1>13. ASSUME NEW r \in Requests, WriteFails(r) PROVE AnswerInv'
  <2>1. ReplyMatchesStep' BY <1>13 DEF WriteFails, history
  <2>2. WriterMovesOn' BY <1>13 DEF WriteFails, history
  <2>3. FilesMatchStep' BY <1>13 DEF WriteFails, history
  <2>4. RepliesTellTheTruth' BY <1>13 DEF WriteFails, history
  <2>5. RefusalKeepsTheUrl' BY <1>13 DEF WriteFails, history
  <2>6. QED BY <2>1, <2>2, <2>3, <2>4, <2>5 DEF AnswerInv
<1>14. ASSUME NEW r \in Requests, Replace(r) PROVE AnswerInv'
  <2>1. ReplyMatchesStep' BY <1>14 DEF Replace
  <2>2. WriterMovesOn' BY <1>14 DEF Replace
  <2>3. FilesMatchStep' BY <1>14 DEF Replace
  <2>4. RepliesTellTheTruth' BY <1>14 DEF Replace
  <2>5. RefusalKeepsTheUrl' BY <1>14 DEF Replace
  <2>6. QED BY <2>1, <2>2, <2>3, <2>4, <2>5 DEF AnswerInv
<1>15. ASSUME NEW r \in Requests, Link(r) PROVE AnswerInv'
  <2>1. ReplyMatchesStep' BY <1>15 DEF Link
  <2>2. WriterMovesOn' BY <1>15 DEF Link
  <2>3. FilesMatchStep' BY <1>15 DEF Link
  <2>4. RepliesTellTheTruth'
    <3>1. CASE target = Nothing
      <4>1. /\ reply' = reply /\ url' = url /\ reply[r] = "none"
            /\ placedBy' = [placedBy EXCEPT ![url[r]] = @ \cup {r}]
        BY <1>15, <3>1 DEF Link
      <4>2. \A u \in Uploads : placedBy[u] \subseteq placedBy'[u]
                              /\ placedBy'[u] \subseteq placedBy[u] \cup {r}
        BY <4>1
      <4>3. QED BY <4>1, <4>2
    <3>2. CASE target # Nothing BY <1>15, <3>2 DEF Link
    <3>3. QED BY <3>1, <3>2
  <2>5. RefusalKeepsTheUrl' BY <1>15 DEF Link
  <2>6. QED BY <2>1, <2>2, <2>3, <2>4, <2>5 DEF AnswerInv
<1>16. ASSUME NEW r \in Requests, UnlinkTemp(r) PROVE AnswerInv'
  <2>1. ReplyMatchesStep' BY <1>16 DEF UnlinkTemp, history
  <2>2. WriterMovesOn' BY <1>16 DEF UnlinkTemp, history
  <2>3. FilesMatchStep' BY <1>16 DEF UnlinkTemp, history
  <2>4. RepliesTellTheTruth' BY <1>16 DEF UnlinkTemp, history
  <2>5. RefusalKeepsTheUrl' BY <1>16 DEF UnlinkTemp, history
  <2>6. QED BY <2>1, <2>2, <2>3, <2>4, <2>5 DEF AnswerInv
<1>17. ASSUME NEW r \in Requests, RecordCompletion(r) PROVE AnswerInv'
  <2>1. ReplyMatchesStep' BY <1>17 DEF RecordCompletion, FirePostWrite, history
  <2>2. WriterMovesOn' BY <1>17 DEF RecordCompletion, FirePostWrite, history
  <2>3. FilesMatchStep' BY <1>17 DEF RecordCompletion, FirePostWrite, history
  <2>4. RepliesTellTheTruth' BY <1>17 DEF RecordCompletion, FirePostWrite, history
  <2>5. RefusalKeepsTheUrl' BY <1>17 DEF RecordCompletion, FirePostWrite, history
  <2>6. QED BY <2>1, <2>2, <2>3, <2>4, <2>5 DEF AnswerInv
<1>18. ASSUME NEW r \in Requests, RecordFails(r) PROVE AnswerInv'
  <2>1. ReplyMatchesStep' BY <1>18 DEF RecordFails, history
  <2>2. WriterMovesOn' BY <1>18 DEF RecordFails, history
  <2>3. FilesMatchStep' BY <1>18 DEF RecordFails, history
  <2>4. RepliesTellTheTruth' BY <1>18 DEF RecordFails, history
  <2>5. RefusalKeepsTheUrl' BY <1>18 DEF RecordFails, history
  <2>6. QED BY <2>1, <2>2, <2>3, <2>4, <2>5 DEF AnswerInv
<1>19. ASSUME NEW r \in Requests, Release(r) PROVE AnswerInv'
  <2>1. ReplyMatchesStep' BY <1>19 DEF Release, history
  <2>2. WriterMovesOn' BY <1>19 DEF Release, history
  <2>3. FilesMatchStep' BY <1>19 DEF Release, history
  <2>4. RepliesTellTheTruth' BY <1>19 DEF Release, history
  <2>5. RefusalKeepsTheUrl' BY <1>19 DEF Release, history
  <2>6. QED BY <2>1, <2>2, <2>3, <2>4, <2>5 DEF AnswerInv
<1>20. ASSUME NEW r \in Requests, ReleaseFails(r) PROVE AnswerInv'
  <2>1. ReplyMatchesStep' BY <1>20 DEF ReleaseFails, disk
  <2>2. WriterMovesOn' BY <1>20 DEF ReleaseFails, disk
  <2>3. FilesMatchStep' BY <1>20 DEF ReleaseFails, disk
  <2>4. RepliesTellTheTruth' BY <1>20 DEF ReleaseFails, disk
  <2>5. RefusalKeepsTheUrl' BY <1>20 DEF ReleaseFails, disk
  <2>6. QED BY <2>1, <2>2, <2>3, <2>4, <2>5 DEF AnswerInv
<1>21. CASE OtherWriter
  BY <1>21 DEF OtherWriter, request, history
<1>22. CASE Crash
  <2>1. ReplyMatchesStep' BY <1>22 DEF Crash, disk
  <2>2. WriterMovesOn' BY <1>22 DEF Crash, disk
  <2>3. FilesMatchStep' BY <1>22 DEF Crash, disk
  <2>4. RepliesTellTheTruth' BY <1>22 DEF Crash, disk
  <2>5. RefusalKeepsTheUrl' BY <1>22 DEF Crash, disk
  <2>6. QED BY <2>1, <2>2, <2>3, <2>4, <2>5 DEF AnswerInv
<1>23. CASE UNCHANGED vars
  BY <1>23 DEF vars, disk, request, history
<1>24. ASSUME NEW r \in Requests, SnapshotFails(r) PROVE AnswerInv'
  <2>1. ReplyMatchesStep' BY <1>24 DEF SnapshotFails, history
  <2>2. WriterMovesOn' BY <1>24 DEF SnapshotFails, history
  <2>3. FilesMatchStep' BY <1>24 DEF SnapshotFails, history
  <2>4. RepliesTellTheTruth' BY <1>24 DEF SnapshotFails, history
  <2>5. RefusalKeepsTheUrl' BY <1>24 DEF SnapshotFails, history
  <2>6. QED BY <2>1, <2>2, <2>3, <2>4, <2>5 DEF AnswerInv
<1>25. ASSUME NEW r \in Requests, FailsUnclaimed(r) PROVE AnswerInv'
  <2>1. ReplyMatchesStep' BY <1>25 DEF FailsUnclaimed, disk, history
  <2>2. WriterMovesOn' BY <1>25 DEF FailsUnclaimed, disk, history
  <2>3. FilesMatchStep' BY <1>25 DEF FailsUnclaimed, disk, history
  <2>4. RepliesTellTheTruth' BY <1>25 DEF FailsUnclaimed, disk, history
  <2>5. RefusalKeepsTheUrl' BY <1>25 DEF FailsUnclaimed, disk, history
  <2>6. QED BY <2>1, <2>2, <2>3, <2>4, <2>5 DEF AnswerInv
<1>26. QED
  BY <1>1, <1>2, <1>3, <1>4, <1>5, <1>6, <1>7, <1>8, <1>9, <1>10, <1>11, <1>12,
     <1>13, <1>14, <1>15, <1>16, <1>17, <1>18, <1>19, <1>20, <1>21, <1>22, <1>23,
     <1>24, <1>25
     DEF Next, Commit, CommitStep, CommitFault

LEMMA AnswerInvariant == Spec => []AnswerInv
<1>1. Init => AnswerInv
  BY DEF Init, AnswerInv, ReplyMatchesStep, WriterMovesOn, FilesMatchStep,
         RepliesTellTheTruth, RefusalKeepsTheUrl, Serving, InCommit, Holding
<1>2. QED BY <1>1, NextAnswerInv, Invariants, PTL DEF Spec

(* 200 or 201 only to the request whose bytes were written, 4xx only to one
   whose bytes were not.                                                     *)
THEOREM RepliesAreTrue == Spec => []RepliesTellTheTruth
<1>1. AnswerInv => RepliesTellTheTruth BY DEF AnswerInv
<1>2. QED BY AnswerInvariant, <1>1, PTL

(* A refused commit does not burn the URL; only a write, a crash or a failed
   rmdir leaves the claim behind.                                            *)
THEOREM RefusedUrlStaysUsable == Spec => []RefusalKeepsTheUrl
<1>1. AnswerInv => RefusalKeepsTheUrl BY DEF AnswerInv
<1>2. QED BY AnswerInvariant, <1>1, PTL

(* A request that ends on its own leaves no part and no temp file. *)
THEOREM NoLitterLeft == Spec => []NoLitter
<1>1. AnswerInv => NoLitter
  BY DEF AnswerInv, FilesMatchStep, NoLitter, Serving, InCommit, Holding
<1>2. QED BY AnswerInvariant, <1>1, PTL

------------------------------------------------------------------------------
(* The hook. *)

(* Only RecordCompletion starts a hook or answers "ok", and it leaves the request
   where it does not move to another URL: one step per action that answers, one
   for all that leave replies and hooks alone.                                   *)
LEMMA NextHookInv == TypeOK /\ ClaimInv /\ AnswerInv /\ HookInv /\ [Next]_vars => HookInv'
<1> SUFFICES ASSUME TypeOK, ClaimInv, AnswerInv, HookInv, [Next]_vars PROVE HookInv'
  OBVIOUS
<1> USE DEF TypeOK, given, ClaimInv, InFlight, AnswerInv, ReplyMatchesStep, HookInv,
            Replies, Serving, InCommit, Holding, Goto, Answer
<1>1. ASSUME NEW r \in Requests, RecordCompletion(r) PROVE HookInv'
  <2>1. url[r] \in Uploads /\ r \in placedBy[url[r]] /\ reply[r] = "none" /\ r \notin hooks
    BY <1>1 DEF RecordCompletion
  <2>2. hooks' = IF audited THEN hooks ELSE hooks \cup {r}
    BY <1>1 DEF RecordCompletion, FirePostWrite
  <2>3. QED BY <1>1, <2>1, <2>2 DEF RecordCompletion, history
<1>2. ASSUME NEW r \in Requests, NEW u \in Uploads, RefuseUnread(r, u) \/ AcceptGrant(r, u)
      PROVE  HookInv'
  <2>1. /\ UNCHANGED <<hooks, placedBy, audited>>
        /\ pc[r] = "idle" /\ url' = [url EXCEPT ![r] = u]
        /\ \/ pc' = [pc EXCEPT ![r] = "done"] /\ reply' = [reply EXCEPT ![r] = "refused"]
           \/ pc' = [pc EXCEPT ![r] = "streaming"] /\ reply' = reply
    BY <1>2 DEF RefuseUnread, AcceptGrant, history
  <2>2. r \notin hooks /\ reply[r] = "none" BY <2>1
  <2>3. QED BY <2>1, <2>2
<1>3. ASSUME NEW r \in Requests, NEW bytes \in Contents \cup {BadBody}, StreamBody(r, bytes)
      PROVE  HookInv'
  BY <1>3 DEF StreamBody, disk, history
<1>4. ASSUME NEW r \in Requests, CutOff(r) PROVE HookInv'
  BY <1>4 DEF CutOff, history
<1>5. ASSUME NEW r \in Requests, Close(r) PROVE HookInv'
  BY <1>5 DEF Close, history
<1>6. ASSUME NEW r \in Requests, SnapshotFails(r) PROVE HookInv'
  BY <1>6 DEF SnapshotFails, history
<1>7. ASSUME NEW r \in Requests, FailsUnclaimed(r) \/ LoadGrant(r) \/ Check(r) PROVE HookInv'
  <2>1. CASE FailsUnclaimed(r) BY <2>1 DEF FailsUnclaimed, disk, history
  <2>2. CASE LoadGrant(r) BY <2>2 DEF LoadGrant, disk, history
  <2>3. CASE Check(r) BY <2>3 DEF Check, disk, history
  <2>4. QED BY <1>7, <2>1, <2>2, <2>3
<1>8. ASSUME NEW r \in Requests, Claim(r) \/ WriteFails(r) \/ Copy(r) PROVE HookInv'
  <2>1. CASE Claim(r)
    <3>1. CASE url[r] \notin claimed BY <2>1, <3>1 DEF Claim, history
    <3>2. CASE url[r] \in claimed BY <2>1, <3>2 DEF Claim, history
    <3>3. QED BY <3>1, <3>2
  <2>2. CASE WriteFails(r) BY <2>2 DEF WriteFails, history
  <2>3. CASE Copy(r) BY <2>3 DEF Copy, history
  <2>4. QED BY <1>8, <2>1, <2>2, <2>3
<1>9. ASSUME NEW r \in Requests, Replace(r) PROVE HookInv'
  BY <1>9 DEF Replace
<1>10. ASSUME NEW r \in Requests, Link(r) PROVE HookInv'
  <2>1. CASE target = Nothing
    <3>1. /\ UNCHANGED <<reply, url, hooks, audited>>
          /\ pc[r] = "placing" /\ pc' = [pc EXCEPT ![r] = "linked"]
          /\ placedBy' = [placedBy EXCEPT ![url[r]] = @ \cup {r}]
      BY <1>10, <2>1 DEF Link
    <3>2. \A u \in Uploads : placedBy[u] \subseteq placedBy'[u]
      BY <3>1
    <3>3. \A q \in hooks : q # r /\ pc'[q] = pc[q] /\ url[q] \in Uploads
      BY <3>1
    <3>4. QED BY <3>1, <3>2, <3>3
  <2>2. CASE target # Nothing
    <3>1. /\ UNCHANGED <<placedBy, url, hooks, audited>>
          /\ pc[r] = "placing" /\ pc' = [pc EXCEPT ![r] = "releasing"]
          /\ reply' = [reply EXCEPT ![r] = "error"]
      BY <1>10, <2>2 DEF Link, history
    <3>2. \A q \in hooks : q # r /\ pc'[q] = pc[q]
      BY <3>1
    <3>3. QED BY <3>1, <3>2
  <2>3. QED BY <2>1, <2>2
<1>11. ASSUME NEW r \in Requests, UnlinkTemp(r) \/ RecordFails(r) PROVE HookInv'
  BY <1>11 DEF UnlinkTemp, RecordFails, history
<1>12. ASSUME NEW r \in Requests, Release(r) \/ ReleaseFails(r) PROVE HookInv'
  BY <1>12 DEF Release, ReleaseFails, disk, history
<1>13. CASE Crash
  BY <1>13 DEF Crash, disk
<1>14. CASE \/ \E u \in Uploads, old \in SUBSET Uploads : RequestUrl(u, old)
            \/ \E old \in SUBSET Uploads : RequestOtherUrl(old)
            \/ \E u \in Uploads : Expire(u)
            \/ OtherWriter
            \/ UNCHANGED vars
  BY <1>14 DEF RequestUrl, RequestOtherUrl, Expire, OtherWriter, vars, request, history
<1>15. QED
  BY <1>1, <1>2, <1>3, <1>4, <1>5, <1>6, <1>7, <1>8, <1>9, <1>10, <1>11, <1>12,
     <1>13, <1>14
     DEF Next, Commit, CommitStep, CommitFault

LEMMA HookInvariant == Spec => []HookInv
<1>1. Init => HookInv BY DEF Init, HookInv
<1>2. QED BY <1>1, NextHookInv, Invariants, AnswerInvariant, PTL DEF Spec

(* A hook tells of a file that was written through the URL, and of every such write
   that was not answered with an error or lost in a crash, if there is no audit log:
   for every interleaving of requests, other writers, disk errors and crashes.      *)
THEOREM HooksTellOfWrites == Spec => []HooksFollowWrites
<1>1. TypeOK /\ AnswerInv /\ HookInv => HooksFollowWrites
  BY DEF TypeOK, AnswerInv, WriterMovesOn, HookInv, HooksFollowWrites, Replies
<1>2. QED BY <1>1, HookInvariant, Invariants, AnswerInvariant, PTL

(* With an audit log no upload ever starts its post-write hook, whatever else happens. *)
NoHookIfAudited == audited => hooks = {}

THEOREM AuditedHookNeverRuns == Spec => []NoHookIfAudited
<1>1. HookInv => NoHookIfAudited BY DEF HookInv, NoHookIfAudited
<1>2. QED BY <1>1, HookInvariant, PTL
==============================================================================
