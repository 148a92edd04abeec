------------------------------ MODULE Downloads ------------------------------
(***************************************************************************)
(* Signed, single-use download URLs: vault_request_download_url issues one  *)
(* for a vault file, GET and HEAD /download/{id} redeem it.  Both run on    *)
(* the event loop without an await, so one is served at a time; the file is *)
(* changed by others at any time, between the check of a request and the    *)
(* read of its bytes too, and the process may die there.                    *)
(* A file is told apart by its digest.  A forged or altered URL is refused  *)
(* before anything is looked at, and is one of the refusals here.           *)
(***************************************************************************)
EXTENDS Integers

CONSTANTS
  Urls,        \* download ids: uuid4, never issued twice
  Versions,    \* what the file holds, told apart by its SHA-256
  Size,        \* Size[v], in bytes
  Headers,     \* what Range headers ask for: [first, last], as read from the header
  Nothing,     \* no file the policy allows; no number in a header; no range; no request
  MaxChanges, MaxFaults   \* bounds

ASSUME SizeAssumption == Size \in [Versions -> Nat]
ASSUME NothingAssumption ==
  /\ Nothing \notin Versions /\ Nothing \notin Int /\ Nothing \notin Urls
  /\ Nothing \notin Headers /\ Nothing \notin [start : Nat, end : Int]
ASSUME HeadersAssumption ==
  Headers \subseteq [first : Nat \cup {Nothing}, last : Int \cup {Nothing}]
ASSUME BoundsAssumption == MaxChanges \in Nat /\ MaxFaults \in Nat

VARIABLES
  file,      \* the file, or Nothing: gone, excluded by the policy, or hard-linked
  record,    \* the record of each URL: none, live, expired, swept
  promise,   \* the version whose size and digest it carries
  consumed,  \* URLs whose record carries consumed_at
  at,        \* the URL whose bytes are about to be read, or Nothing
  asked,     \* the Range header of the last request, or Nothing
  answer,    \* the last answer: its status, URL, and the bytes of which version
  \* History.
  checked,   \* the version the last request was checked against
  bodies,    \* how many whole bodies each URL has served
  lost,      \* URLs spent on a body that could not be read, or by a crash
  changes, faults

vars == <<file, record, promise, consumed, at, asked, answer, checked, bodies, lost, changes, faults>>

Silent == [status |-> 0, url |-> Nothing, of |-> Nothing, bytes |-> {}]

Init ==
  /\ file \in Versions
  /\ record = [u \in Urls |-> "none"] /\ promise = [u \in Urls |-> Nothing]
  /\ consumed = {}
  /\ at = Nothing /\ asked = Nothing /\ answer = Silent /\ checked = Nothing
  /\ bodies = [u \in Urls |-> 0] /\ lost = {}
  /\ changes = 0 /\ faults = 0

------------------------------------------------------------------------------
(* parse_range_header: the first and the last byte, or Nothing for a header
   that cannot be satisfied.                                                *)
Parse(h, size) ==
  LET upTo == IF h.last = Nothing \/ h.last >= size THEN size - 1 ELSE h.last IN
  IF h.first = Nothing
  THEN IF h.last = Nothing \/ h.last <= 0 THEN Nothing
       ELSE [start |-> IF size > h.last THEN size - h.last ELSE 0, end |-> size - 1]
  ELSE IF h.first >= size \/ (h.last # Nothing /\ h.last < h.first) THEN Nothing
       ELSE [start |-> h.first, end |-> upTo]

(* The bytes a header asks for, of a file of that size. *)
Asked(h, size) ==
  {i \in 0 .. size - 1 :
     IF h.first = Nothing THEN h.last # Nothing /\ i >= size - h.last
     ELSE i >= h.first /\ (h.last = Nothing \/ i <= h.last)}

------------------------------------------------------------------------------
(* The file, and the process. *)

ChangeFile(v) ==
  /\ changes < MaxChanges /\ changes' = changes + 1
  /\ v # file /\ file' = v
  /\ UNCHANGED <<record, promise, consumed, at, asked, answer, checked, bodies, lost, faults>>

Expire(u) ==
  /\ record[u] = "live"
  /\ record' = [record EXCEPT ![u] = "expired"]
  /\ UNCHANGED <<file, promise, consumed, at, asked, answer, checked, bodies, lost, changes, faults>>

(* What was to be read is not answered any more. *)
Spoil == lost' = IF at # Nothing /\ asked = Nothing THEN lost \cup {at} ELSE lost

Crash ==
  /\ faults < MaxFaults /\ faults' = faults + 1
  /\ Spoil /\ at' = Nothing /\ answer' = Silent
  /\ UNCHANGED <<file, record, promise, consumed, asked, checked, bodies, changes>>

------------------------------------------------------------------------------
(* Issuing a URL. *)

(* _cleanup_stale_downloads: the records nothing has touched for a day.  A URL
   lives an hour at most as the server is configured by default.             *)
Sweep(old) ==
  /\ at = Nothing
  /\ \A u \in old : record[u] = "expired"
  /\ consumed' = consumed \ old

(* vault_request_download_url: the size and the digest are of one read. *)
RequestUrl(u, old) ==
  /\ record[u] = "none" /\ file # Nothing
  /\ Sweep(old)
  /\ record' = [w \in Urls |-> IF w = u THEN "live" ELSE IF w \in old THEN "swept" ELSE record[w]]
  /\ promise' = [promise EXCEPT ![u] = file]
  /\ UNCHANGED <<file, at, asked, answer, checked, bodies, lost, changes, faults>>

(* It is asked for a file that cannot be read: the records are swept all the same. *)
RequestRefused(old) ==
  /\ old # {} /\ Sweep(old)
  /\ record' = [w \in Urls |-> IF w \in old THEN "swept" ELSE record[w]]
  /\ UNCHANGED <<file, promise, at, asked, answer, checked, bodies, lost, changes, faults>>

------------------------------------------------------------------------------
(* Redeeming it: direct_download and resolve_direct_download. *)

Methods == [verb : {"HEAD", "GET"}, range : Headers \cup {Nothing}]

(* Every file is taken for the one that was promised. *)
GoodWhateverSize(u) == record[u] = "live" /\ u \notin consumed /\ file # Nothing

(* Not used, not expired, and the file is there, allowed, and as long as promised. *)
Good(u) ==
  /\ record[u] = "live" /\ u \notin consumed
  /\ file # Nothing /\ Size[file] = Size[promise[u]]

(* A slice spends the URL too. *)
ConsumesUnlessHead(m) == m.verb # "HEAD"

(* Only a full GET spends the URL. *)
Consumes(m) == m.verb = "GET" /\ m.range = Nothing

Answer(status, u, of, bytes) ==
  answer' = [status |-> status, url |-> u, of |-> of, bytes |-> bytes]

(* 403, 404, 409, 410: in this order 410 for a used URL, 404 for an expired or
   swept one and for a file that is gone, 409 for another size.              *)
Refuse(u) ==
  /\ at = Nothing /\ record[u] # "none"
  /\ \/ Answer(403, u, Nothing, {})
     \/ ~Good(u) /\ Answer(IF record[u] = "swept" THEN 404
                           ELSE IF u \in consumed THEN 410
                           ELSE IF record[u] = "expired" \/ file = Nothing THEN 404 ELSE 409,
                           u, Nothing, {})
  /\ checked' = file
  /\ UNCHANGED <<file, record, promise, consumed, at, asked, bodies, lost, changes, faults>>

(* The checks pass, and a full GET is recorded before a byte is read. *)
Accept(u, m) ==
  LET size == Size[promise[u]]
      satisfiable == m.range # Nothing => Parse(m.range, size) # Nothing IN
  /\ at = Nothing /\ Good(u)
  /\ consumed' = IF Consumes(m) THEN consumed \cup {u} ELSE consumed
  /\ checked' = file /\ asked' = m.range
  /\ \/ m.verb = "HEAD" /\ at' = Nothing /\ Answer(200, u, promise[u], {})
     \/ m.verb = "GET" /\ ~satisfiable /\ at' = Nothing /\ Answer(416, u, Nothing, {})
     \/ m.verb = "GET" /\ satisfiable /\ at' = u /\ answer' = Silent
  /\ UNCHANGED <<file, record, promise, bodies, lost, changes, faults>>

(* The record of a full GET cannot be written: an error, and nothing is spent. *)
RecordFails(u) ==
  /\ at = Nothing /\ Good(u)
  /\ faults < MaxFaults /\ faults' = faults + 1
  /\ checked' = file /\ Answer(500, u, Nothing, {})
  /\ UNCHANGED <<file, record, promise, consumed, at, asked, bodies, lost, changes>>

(* read_whole. *)
ServeWhole ==
  /\ at # Nothing /\ asked = Nothing /\ file # Nothing
  /\ Answer(200, at, file, 0 .. Size[file] - 1)
  /\ bodies' = [bodies EXCEPT ![at] = @ + 1]
  /\ at' = Nothing
  /\ UNCHANGED <<file, record, promise, consumed, asked, checked, lost, changes, faults>>

(* read_range: of a file that has become shorter, what is left. *)
ServeSlice ==
  /\ at # Nothing /\ asked # Nothing /\ file # Nothing
  /\ LET r == Parse(asked, Size[promise[at]]) IN
     Answer(206, at, file, {i \in r.start .. r.end : i < Size[file]})
  /\ at' = Nothing
  /\ UNCHANGED <<file, record, promise, consumed, asked, checked, bodies, lost, changes, faults>>

(* The file is gone by now, or cannot be read: an error after the URL was spent. *)
ReadFails ==
  /\ at # Nothing
  /\ \/ file = Nothing /\ UNCHANGED faults
     \/ faults < MaxFaults /\ faults' = faults + 1
  /\ Spoil /\ Answer(500, at, Nothing, {})
  /\ at' = Nothing
  /\ UNCHANGED <<file, record, promise, consumed, asked, checked, bodies, changes>>

Next ==
  \/ \E v \in Versions \cup {Nothing} : ChangeFile(v)
  \/ \E u \in Urls : Expire(u)
  \/ Crash
  \/ \E u \in Urls, old \in SUBSET Urls : RequestUrl(u, old)
  \/ \E old \in SUBSET Urls : RequestRefused(old)
  \/ \E u \in Urls : Refuse(u) \/ RecordFails(u)
  \/ \E u \in Urls, m \in Methods : Accept(u, m)
  \/ ServeWhole \/ ServeSlice \/ ReadFails

Spec == Init /\ [][Next]_vars

------------------------------------------------------------------------------
(* Properties *)

(* "The URL serves exactly one GET" (docs/security.md:64): never two bodies, over
   any number of probes, slices, refusals, sweeps and crashes; and a URL is spent
   only by its body, by one that could not be read, or by the one being read.     *)
UrlIsSpentByOneBody ==
  \A u \in Urls :
    /\ bodies[u] <= 1
    /\ bodies[u] = 1 => u \in consumed \/ record[u] = "swept"
    /\ u \in consumed =>
         bodies[u] = 1 \/ u \in lost \/ (at = u /\ asked = Nothing)

(* What is served was promised: a body or a slice of another version is of a file
   that was replaced by one of the same size, or after the check; and a slice has
   the bytes its header asks for, and at least one, none when it is refused.  A
   slice of an empty file is excepted from having a byte: a suffix of it is
   answered 206 with none (download.py:307).                                      *)
ServedIsPromised ==
  LET p == promise[answer.url] IN
  /\ answer.status \in {200, 206} =>
       answer.of = p \/ answer.of # checked \/ Size[answer.of] = Size[p]
  /\ answer.status = 206 =>
       \/ answer.of # checked
       \/ /\ answer.bytes = Asked(asked, Size[p])
          /\ answer.bytes # {} \/ Size[p] = 0
  /\ answer.status = 416 => Asked(asked, Size[p]) = {}
==============================================================================
