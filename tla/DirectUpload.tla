---------------------------- MODULE DirectUpload -----------------------------
(***************************************************************************)
(* Signed, single-use upload URLs: vault_request_upload_url issues one, and *)
(* POST /upload/{id} streams a body into a part file of the URL's staging   *)
(* directory and commits it to the vault in a worker thread.  The event     *)
(* loop runs one piece of a handler between two awaits at a time; a commit  *)
(* runs in a thread, so each of its file operations is a step of its own    *)
(* here.  All the URLs of the model name the same file of the vault, which  *)
(* other writers (tools, Obsidian, a sync client) also change.  The process *)
(* may die between any two steps; the disk survives.                        *)
(***************************************************************************)
EXTENDS Naturals

CONSTANTS
  Uploads,      \* upload ids: uuid4, never issued twice
  Requests,     \* HTTP requests to POST /upload/{id}
  Contents,     \* bodies and file contents, told apart by their SHA-256
  BadBody,      \* a body the commit refuses: wrong Content-Type, empty, too big
  Nothing,      \* no file, no digest, no request body
  MaxCrashes    \* bound on the number of times the process dies

ASSUME BadBodyAssumption == BadBody \notin Contents /\ BadBody # Nothing
ASSUME NothingAssumption == Nothing \notin Contents
ASSUME MaxCrashesAssumption == MaxCrashes \in Nat

VARIABLES
  \* What the callers of vault_request_upload_url ask for.
  terms,       \* [Uploads -> overwrite flag and expected_sha256]
  \* The configuration the server was started with.
  audited,     \* VAULT_AUDIT_LOG_PATH is set
  \* On disk.
  stage,       \* staging record: unissued, live, expired, swept
  completed,   \* uploads whose metadata.json carries completed_at
  claimed,     \* uploads whose staging directory holds "claimed"
  parts,       \* requests whose .part file exists
  temps,       \* requests whose .~mcp- temp file exists beside the target
  target,      \* the file of the vault
  \* In the memory of the server.
  pc,          \* where each request is
  url,         \* the upload id of each request
  body,        \* the bytes it streamed
  isNew,       \* is_new, as write_file_from_path_atomic found it
  reply,       \* how the request was answered
  hookQueue,   \* requests with a hook queued in the context of the worker thread
  hooks,       \* requests whose post-write hook was started
  \* History, and the bound on crashes.
  placedBy,    \* [Uploads -> the requests that wrote the target through it]
  abandoned,   \* uploads whose claim a crash or a failed rmdir left behind
  crashes

given   == <<terms, audited>>
disk    == <<stage, completed, claimed, parts, temps, target>>
request == <<pc, url, body, isNew, reply, hookQueue, hooks>>
history == <<placedBy, abandoned, crashes>>
vars    == <<given, disk, request, history>>

Stages  == {"unissued", "live", "expired", "swept"}
Holding == {"checking", "copying", "placing", "linked", "recording", "releasing"}
InCommit == {"loaded"} \cup Holding
Serving == {"streaming", "staged", "closing"} \cup InCommit
Replies == {"none", "ok", "refused", "used", "error", "lost"}

Init ==
  /\ terms \in [Uploads -> [overwrite : BOOLEAN, sha256 : Contents \cup {Nothing}]]
  /\ audited \in BOOLEAN
  /\ stage = [u \in Uploads |-> "unissued"]
  /\ completed = {} /\ claimed = {} /\ parts = {} /\ temps = {}
  /\ target = Nothing
  /\ pc = [r \in Requests |-> "idle"]
  /\ url = [r \in Requests |-> Nothing]
  /\ body = [r \in Requests |-> Nothing]
  /\ isNew = [r \in Requests |-> FALSE]
  /\ reply = [r \in Requests |-> "none"]
  /\ hookQueue = {} /\ hooks = {}
  /\ placedBy = [u \in Uploads |-> {}]
  /\ abandoned = {} /\ crashes = 0

Goto(r, label) == pc' = [pc EXCEPT ![r] = label]

(* r is answered, and goes on to label. *)
Answer(r, answer, label) ==
  /\ reply' = [reply EXCEPT ![r] = answer]
  /\ Goto(r, label)

------------------------------------------------------------------------------
(* Issuing a URL. *)

(* A staging directory nothing has touched for UPLOAD_EXPIRY_SECONDS, a day.
   Its URL expired long ago (VAULT_UPLOAD_URL_MAX_TTL_SECONDS is an hour), and
   no commit takes a day; a client may still be streaming into it.           *)
Stale(u) ==
  /\ stage[u] = "expired"
  /\ \A r \in Requests : pc[r] \in InCommit => url[r] # u

(* _cleanup_stale_uploads: rmtree of every staging directory in old. *)
Sweep(old) ==
  /\ claimed' = claimed \ old
  /\ completed' = completed \ old
  /\ parts' = {r \in parts : url[r] \notin old}

(* vault_request_upload_url, on the event loop: sweep, then write the record,
   unless the file exists and the caller did not ask to overwrite it.  Which
   directories have been stale for a day is a choice.                         *)
RequestUrl(u, old) ==
  /\ stage[u] = "unissued"
  /\ \A v \in old : Stale(v)
  /\ Sweep(old)
  /\ stage' = [v \in Uploads |->
                 IF v \in old THEN "swept"
                 ELSE IF v = u /\ (target = Nothing \/ terms[u].overwrite)
                      THEN "live" ELSE stage[v]]
  /\ UNCHANGED <<given, temps, target, request, history>>

(* The same tool asked for a URL for another file: here, only its sweep. *)
RequestOtherUrl(old) ==
  /\ old # {}
  /\ \A v \in old : Stale(v)
  /\ Sweep(old)
  /\ stage' = [v \in Uploads |-> IF v \in old THEN "swept" ELSE stage[v]]
  /\ UNCHANGED <<given, temps, target, request, history>>

(* expires_at passes. *)
Expire(u) ==
  /\ stage[u] = "live"
  /\ stage' = [stage EXCEPT ![u] = "expired"]
  /\ UNCHANGED <<given, completed, claimed, parts, temps, target, request, history>>

------------------------------------------------------------------------------
(* The route: validate, stream, hand over to the commit, close. *)

(* _load_upload finds the record and _check_direct_upload_grant accepts it. *)
GrantOK(u) == stage[u] = "live" /\ u \notin completed

(* Refused before a byte of the body is read: the grant is not good, or the
   Content-Length is missing from a multipart body, malformed or past the cap. *)
RefuseUnread(r, u) ==
  /\ pc[r] = "idle" /\ stage[u] # "unissued"
  /\ url' = [url EXCEPT ![r] = u]
  /\ Answer(r, "refused", "done")
  /\ UNCHANGED <<given, disk, body, isNew, hookQueue, hooks, history>>

(* The grant is good: mkstemp of the .part file, with no await in between. *)
AcceptGrant(r, u) ==
  /\ pc[r] = "idle" /\ GrantOK(u)
  /\ url' = [url EXCEPT ![r] = u]
  /\ parts' = parts \cup {r}
  /\ Goto(r, "streaming")
  /\ UNCHANGED <<given, stage, completed, claimed, temps, target,
                 body, isNew, reply, hookQueue, hooks, history>>

(* The whole body has arrived; the commit is handed to a worker thread. *)
StreamBody(r, bytes) ==
  /\ pc[r] = "streaming"
  /\ body' = [body EXCEPT ![r] = bytes]
  /\ Goto(r, "staged")
  /\ UNCHANGED <<given, disk, url, isNew, reply, hookQueue, hooks, history>>

(* The body passes the cap of the grant, cannot be parsed, or the client goes
   away: no commit, and the finally clause unlinks the part.                  *)
CutOff(r) ==
  /\ pc[r] = "streaming"
  /\ parts' = parts \ {r}
  /\ Answer(r, "refused", "done")
  /\ UNCHANGED <<given, stage, completed, claimed, temps, target,
                 url, body, isNew, hookQueue, hooks, history>>

(* Back on the event loop: part.unlink, then flush_post_write_hooks, which
   sees the queue of the route's own context.  The commit ran in a copy of
   that context, so what it queued is not there.                             *)
Close(r) ==
  /\ pc[r] = "closing"
  /\ parts' = parts \ {r}
  /\ hookQueue' = hookQueue \ {r}
  /\ Goto(r, "done")
  /\ UNCHANGED <<given, stage, completed, claimed, temps, target,
                 url, body, isNew, reply, hooks, history>>

(* snapshot_path for the audit record raises after a commit that succeeded: the
   file is written, the part is unlinked, and the client gets a 500.  (It is
   called whether or not there is an audit log.)                              *)
SnapshotFails(r) ==
  /\ pc[r] = "closing" /\ reply[r] = "ok"
  /\ parts' = parts \ {r}
  /\ hookQueue' = hookQueue \ {r}
  /\ Answer(r, "error", "done")
  /\ UNCHANGED <<given, stage, completed, claimed, temps, target,
                 url, body, isNew, hooks, history>>

------------------------------------------------------------------------------
(* commit_direct_upload, in a worker thread. *)

(* A disk error before there is a claim, which nothing in the route catches:
   the snapshot taken before the commit, the load of the record, or a mkdir of
   the marker that fails for another reason than that the marker exists.      *)
FailsUnclaimed(r) ==
  /\ pc[r] \in {"staged", "loaded"}
  /\ Answer(r, "error", "closing")
  /\ UNCHANGED <<given, disk, url, body, isNew, hookQueue, hooks, history>>

(* The record is loaded and the grant checked again: two requests on one URL
   can both have passed the first check.                                      *)
LoadGrant(r) ==
  /\ pc[r] = "staged"
  /\ IF GrantOK(url[r])
     THEN Goto(r, "loaded") /\ UNCHANGED reply
     ELSE Answer(r, "refused", "closing")
  /\ UNCHANGED <<given, disk, url, body, isNew, hookQueue, hooks, history>>

(* claim.mkdir() ignoring FileExistsError: what the marker is there to stop. *)
ClaimExistOk(r) ==
  /\ pc[r] = "loaded"
  /\ claimed' = claimed \cup {url[r]}
  /\ Goto(r, "checking")
  /\ UNCHANGED <<given, stage, completed, parts, temps, target,
                 url, body, isNew, reply, hookQueue, hooks, history>>

(* Waiting for the marker to go, as for a lock, instead of refusing. *)
ClaimAsLock(r) ==
  /\ pc[r] = "loaded" /\ url[r] \notin claimed
  /\ ClaimExistOk(r)

(* claim.mkdir(): creates the marker, or fails because it exists. *)
Claim(r) ==
  /\ pc[r] = "loaded"
  /\ IF url[r] \notin claimed
     THEN claimed' = claimed \cup {url[r]} /\ Goto(r, "checking") /\ UNCHANGED reply
     ELSE Answer(r, "used", "closing") /\ UNCHANGED claimed
  /\ UNCHANGED <<given, stage, completed, parts, temps, target,
                 url, body, isNew, hookQueue, hooks, history>>

(* The checks _commit_claimed_upload makes before it writes anything. *)
Acceptable(r) ==
  /\ body[r] # BadBody
  /\ terms[url[r]].sha256 \in {Nothing, body[r]}
  /\ target # Nothing => terms[url[r]].overwrite

Check(r) ==
  /\ pc[r] = "checking"
  /\ IF Acceptable(r)
     THEN Goto(r, "copying") /\ UNCHANGED reply
     ELSE Answer(r, "refused", "releasing")
  /\ UNCHANGED <<given, disk, url, body, isNew, hookQueue, hooks, history>>

(* write_file_from_path_atomic: is_new, mkstemp, copy the part into the temp. *)
Copy(r) ==
  /\ pc[r] = "copying"
  /\ isNew' = [isNew EXCEPT ![r] = (target = Nothing)]
  /\ temps' = temps \cup {r}
  /\ Goto(r, "placing")
  /\ UNCHANGED <<given, stage, completed, claimed, parts, target,
                 url, body, reply, hookQueue, hooks, history>>

(* A disk error while copying or placing: the temp is unlinked. *)
WriteFails(r) ==
  /\ pc[r] = "placing"
  /\ temps' = temps \ {r}
  /\ Answer(r, "error", "releasing")
  /\ UNCHANGED <<given, stage, completed, claimed, parts, target,
                 url, body, isNew, hookQueue, hooks, history>>

(* os.replace whatever overwrite says, trusting the exists() check above. *)
PlaceByReplace(r) ==
  /\ pc[r] = "placing"
  /\ target' = body[r]
  /\ temps' = temps \ {r}
  /\ placedBy' = [placedBy EXCEPT ![url[r]] = @ \cup {r}]
  /\ Goto(r, "recording")
  /\ UNCHANGED <<given, stage, completed, claimed, parts,
                 url, body, isNew, reply, hookQueue, hooks, abandoned, crashes>>

(* os.replace for an overwriting grant. *)
Replace(r) ==
  /\ pc[r] = "placing" /\ terms[url[r]].overwrite
  /\ target' = body[r]
  /\ temps' = temps \ {r}
  /\ placedBy' = [placedBy EXCEPT ![url[r]] = @ \cup {r}]
  /\ Goto(r, "recording")
  /\ UNCHANGED <<given, stage, completed, claimed, parts,
                 url, body, isNew, reply, hookQueue, hooks, abandoned, crashes>>

(* FileExistsError of os.link taken for success. *)
LinkIgnoringExisting(r) ==
  /\ pc[r] = "placing" /\ ~terms[url[r]].overwrite
  /\ IF target = Nothing
     THEN target' = body[r] /\ placedBy' = [placedBy EXCEPT ![url[r]] = @ \cup {r}]
     ELSE UNCHANGED <<target, placedBy>>
  /\ isNew' = [isNew EXCEPT ![r] = TRUE]
  /\ Goto(r, "linked")
  /\ UNCHANGED <<given, stage, completed, claimed, parts, temps,
                 url, body, reply, hookQueue, hooks, abandoned, crashes>>

(* os.link for the others: it fails when the file exists by now. *)
Link(r) ==
  /\ pc[r] = "placing" /\ ~terms[url[r]].overwrite
  /\ IF target = Nothing
     THEN /\ target' = body[r]
          /\ placedBy' = [placedBy EXCEPT ![url[r]] = @ \cup {r}]
          /\ isNew' = [isNew EXCEPT ![r] = TRUE]
          /\ Goto(r, "linked")
          /\ UNCHANGED <<temps, reply>>
     ELSE /\ temps' = temps \ {r}
          /\ Answer(r, "error", "releasing")
          /\ UNCHANGED <<target, placedBy, isNew>>
  /\ UNCHANGED <<given, stage, completed, claimed, parts,
                 url, body, hookQueue, hooks, abandoned, crashes>>

(* The second name of the linked file is left behind. *)
LeaveTemp(r) ==
  /\ pc[r] = "linked"
  /\ Goto(r, "recording")
  /\ UNCHANGED <<given, disk, url, body, isNew, reply, hookQueue, hooks, history>>

(* The second name of the linked file goes. *)
UnlinkTemp(r) ==
  /\ pc[r] = "linked"
  /\ temps' = temps \ {r}
  /\ Goto(r, "recording")
  /\ UNCHANGED <<given, stage, completed, claimed, parts, target,
                 url, body, isNew, reply, hookQueue, hooks, history>>

(* fire_post_write that tells only of new files. *)
FirePostWriteCreatedOnly(r) ==
  IF audited
  THEN hookQueue' = hookQueue \cup {r} /\ UNCHANGED hooks
  ELSE hooks' = (IF isNew[r] THEN hooks \cup {r} ELSE hooks) /\ UNCHANGED hookQueue

(* fire_post_write: with an audit log the hook waits in a ContextVar for its
   record, else its thread is started at once.                                *)
FirePostWrite(r) ==
  IF audited
  THEN hookQueue' = hookQueue \cup {r} /\ UNCHANGED hooks
  ELSE hooks' = hooks \cup {r} /\ UNCHANGED hookQueue

(* completed_at put down under the request's part, not the upload's record. *)
RecordUnderPart(r) ==
  /\ pc[r] = "recording"
  /\ completed' = completed \cup {r}
  /\ FirePostWrite(r)
  /\ Answer(r, "ok", "closing")
  /\ UNCHANGED <<given, stage, claimed, parts, temps, target,
                 url, body, isNew, history>>

(* metadata.json gets completed_at, the hook is fired, the client gets 200/201. *)
RecordCompletion(r) ==
  /\ pc[r] = "recording"
  /\ completed' = completed \cup {url[r]}
  /\ FirePostWrite(r)
  /\ Answer(r, "ok", "closing")
  /\ UNCHANGED <<given, stage, claimed, parts, temps, target,
                 url, body, isNew, history>>

(* The file is written, and writing its record or starting the hook fails:
   500, and the claim stays, since completed_at is set in the metadata the
   thread holds.                                                              *)
RecordFails(r) ==
  /\ pc[r] = "recording"
  /\ completed' \in {completed, completed \cup {url[r]}}
  /\ Answer(r, "error", "closing")
  /\ UNCHANGED <<given, stage, claimed, parts, temps, target,
                 url, body, isNew, hookQueue, hooks, history>>

(* No rmdir after a refusal: a wrong Content-Type burns the URL. *)
KeepClaim(r) ==
  /\ pc[r] = "releasing"
  /\ Goto(r, "closing")
  /\ UNCHANGED <<given, disk, url, body, isNew, reply, hookQueue, hooks, history>>

(* Nothing was written: claim.rmdir(). *)
Release(r) ==
  /\ pc[r] = "releasing"
  /\ claimed' = claimed \ {url[r]}
  /\ Goto(r, "closing")
  /\ UNCHANGED <<given, stage, completed, parts, temps, target,
                 url, body, isNew, reply, hookQueue, hooks, history>>

(* The rmdir fails, and the failure is ignored. *)
ReleaseFails(r) ==
  /\ pc[r] = "releasing"
  /\ abandoned' = abandoned \cup {url[r]}
  /\ Goto(r, "closing")
  /\ UNCHANGED <<given, disk, url, body, isNew, reply, hookQueue, hooks,
                 placedBy, crashes>>

------------------------------------------------------------------------------
(* The rest of the world. *)

(* A tool, Obsidian or a sync client creates, replaces or removes the file. *)
OtherWriter ==
  /\ \E content \in (Contents \cup {Nothing}) \ {target} : target' = content
  /\ UNCHANGED <<given, stage, completed, claimed, parts, temps, request, history>>

(* The process dies and is started again: what is on disk stays. *)
Crash ==
  /\ crashes < MaxCrashes
  /\ crashes' = crashes + 1
  /\ abandoned' = abandoned \cup {url[r] : r \in {q \in Requests : pc[q] \in Holding}}
  /\ pc' = [r \in Requests |-> IF pc[r] \in Serving THEN "done" ELSE pc[r]]
  /\ reply' = [r \in Requests |-> IF pc[r] \in Serving THEN "lost" ELSE reply[r]]
  /\ hookQueue' = {}
  /\ UNCHANGED <<given, disk, url, body, isNew, hooks, placedBy>>

CommitStep(r) ==
  \/ LoadGrant(r) \/ Claim(r) \/ Check(r) \/ Copy(r) \/ Replace(r) \/ Link(r) \/ UnlinkTemp(r)
  \/ RecordCompletion(r) \/ Release(r)

CommitFault(r) ==
  FailsUnclaimed(r) \/ WriteFails(r) \/ RecordFails(r) \/ ReleaseFails(r)

Commit(r) == CommitStep(r) \/ CommitFault(r)

Next ==
  \/ \E u \in Uploads, old \in SUBSET Uploads : RequestUrl(u, old)
  \/ \E old \in SUBSET Uploads : RequestOtherUrl(old)
  \/ \E u \in Uploads : Expire(u)
  \/ \E r \in Requests, u \in Uploads : RefuseUnread(r, u) \/ AcceptGrant(r, u)
  \/ \E r \in Requests, bytes \in Contents \cup {BadBody} : StreamBody(r, bytes)
  \/ \E r \in Requests : CutOff(r) \/ Commit(r) \/ Close(r) \/ SnapshotFails(r)
  \/ OtherWriter
  \/ Crash

Spec == Init /\ [][Next]_vars

(* Worker threads and the event loop keep running; clients need not, and no
   fault is counted on.                                                      *)
Fairness == \A r \in Requests : WF_vars(CommitStep(r) \/ Close(r))

FairSpec == Spec /\ Fairness

------------------------------------------------------------------------------
(* Properties. *)

(* Every variable holds what its comment says. *)
TypeOK ==
  /\ terms \in [Uploads -> [overwrite : BOOLEAN, sha256 : Contents \cup {Nothing}]]
  /\ audited \in BOOLEAN
  /\ stage \in [Uploads -> Stages]
  /\ completed \subseteq Uploads /\ claimed \subseteq Uploads
  /\ parts \subseteq Requests /\ temps \subseteq Requests
  /\ target \in Contents \cup {Nothing}
  /\ pc \in [Requests -> {"idle", "done"} \cup Serving]
  /\ url \in [Requests -> Uploads \cup {Nothing}]
  /\ body \in [Requests -> Contents \cup {BadBody, Nothing}]
  /\ isNew \in [Requests -> BOOLEAN]
  /\ reply \in [Requests -> Replies]
  /\ hookQueue \subseteq Requests /\ hooks \subseteq Requests
  /\ placedBy \in [Uploads -> SUBSET Requests]
  /\ abandoned \subseteq Uploads
  /\ crashes \in 0..MaxCrashes

(* Why WrittenOnce holds, as an inductive invariant: the claim directory is
   held by one request at a time, which has checked what it is about to write,
   and it stays from the moment the file is written until the record is swept,
   when no grant for it is accepted any more.                                  *)
OneHolder ==
  /\ \A r \in Requests : pc[r] \in Holding => url[r] \in claimed
  /\ \A r, s \in Requests :
       pc[r] \in Holding /\ pc[s] \in Holding /\ url[r] = url[s] => r = s

ClaimCoversWrite ==
  \A u \in Uploads : placedBy[u] # {} => u \in claimed \/ stage[u] = "swept"

NotWrittenYet ==
  \A r \in Requests :
    pc[r] \in {"checking", "copying", "placing", "releasing"} => placedBy[url[r]] = {}

InFlight ==
  \A r \in Requests :
    /\ pc[r] \in Serving => url[r] \in Uploads
    /\ pc[r] \in InCommit => stage[url[r]] \in {"live", "expired"}
    /\ pc[r] \in {"staged"} \cup InCommit => body[r] # Nothing
    /\ pc[r] \in {"copying", "placing"} =>
         body[r] # BadBody /\ terms[url[r]].sha256 \in {Nothing, body[r]}

(* However many requests race on one URL, and wherever the process dies, the
   file is written through it once: the claim directory of
   commit_direct_upload is the only thing that decides.                       *)
WrittenOnce ==
  \A u \in Uploads : \A r, s \in placedBy[u] : r = s

ClaimInv == InFlight /\ OneHolder /\ ClaimCoversWrite /\ NotWrittenYet /\ WrittenOnce

(* The answer is the truth: 200 or 201 only to the request whose bytes were
   written, 4xx only to one whose bytes were not.  (A 500 says neither.)      *)
RepliesTellTheTruth ==
  \A r \in Requests :
    /\ reply[r] = "ok" => r \in placedBy[url[r]]
    /\ reply[r] \in {"refused", "used"} => \A u \in Uploads : r \notin placedBy[u]

(* "A commit refused before anything was written releases the claim": a claim
   is being worked under, or has been used, unless a crash or a failed rmdir
   left it behind.                                                            *)
RefusalKeepsTheUrl ==
  \A u \in claimed :
    \/ \E r \in Requests : pc[r] \in Holding /\ url[r] = u
    \/ placedBy[u] # {}
    \/ u \in abandoned

(* A request that was not cut short by a crash leaves neither a part in the
   staging directory nor a temp file beside the target.                       *)
NoLitter ==
  \A r \in Requests :
    pc[r] = "done" /\ reply[r] # "lost" => r \notin parts \cup temps

(* Why the last three hold: where a request is tells what it has been answered,
   whether it has written, and which files of its own exist.                  *)
ReplyMatchesStep ==
  \A r \in Requests :
    /\ pc[r] \in {"idle", "streaming", "staged"} \cup (InCommit \ {"releasing"}) =>
         reply[r] = "none"
    /\ pc[r] = "releasing" => reply[r] \in {"refused", "error"}
    /\ pc[r] \in {"linked", "recording"} => r \in placedBy[url[r]]

WriterMovesOn ==
  \A u \in Uploads : \A r \in placedBy[u] :
    /\ url[r] = u
    /\ pc[r] \in {"linked", "recording", "closing", "done"}
    /\ reply[r] \notin {"refused", "used"}

FilesMatchStep ==
  \A r \in Requests :
    \/ reply[r] = "lost"
    \/ (r \in parts => pc[r] \in Serving) /\ (r \in temps => pc[r] \in {"placing", "linked"})

AnswerInv ==
  /\ ReplyMatchesStep /\ WriterMovesOn /\ FilesMatchStep
  /\ RepliesTellTheTruth /\ RefusalKeepsTheUrl

(* The post-write hook of an upload is started for a request that wrote the file
   through its URL and for no other, so at most once for a URL; and once the
   request is over, the hook of a write has been started, unless the client was
   told of an error or a crash came first, exactly when there is no audit log.
   With one no hook starts, although docs/audit.md:30 says "when both ... are
   set, the post-write hook receives the same audit record".                  *)
HooksFollowWrites ==
  /\ \A r \in hooks : r \in placedBy[url[r]]
  /\ \A u \in Uploads : \A r \in placedBy[u] :
       pc[r] = "done" /\ reply[r] \notin {"error", "lost"} =>
         (r \in hooks <=> ~audited)

(* Why it holds: a hook is started by the step that answers "ok", after which the
   request does not move to another URL, and nothing else answers "ok".           *)
HookInv ==
  /\ \A r \in hooks :
       pc[r] \in {"closing", "done"} /\ url[r] \in Uploads /\ r \in placedBy[url[r]]
  /\ \A r \in Requests : pc[r] \in {"closing", "done"} => reply[r] # "none"
  /\ \A r \in Requests : reply[r] = "ok" => (r \in hooks <=> ~audited)
  /\ audited => hooks = {}

(* The detailed protocol keeps the promise of OneShotUpload. *)
Promise == INSTANCE OneShotUpload WITH used <- {u \in Uploads : placedBy[u] # {}}
KeepsPromise == Promise!Spec

(* A body that has been received is answered for, whatever claims other
   requests, alive or dead, have left on the disk.                            *)
StagedIsAnswered ==
  \A r \in Requests : pc[r] = "staged" ~> pc[r] = "done"
==============================================================================
