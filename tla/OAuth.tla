-------------------------------- MODULE OAuth --------------------------------
(***************************************************************************)
(* The OAuth endpoints of oauth.py: dynamic client registration, the        *)
(* authorization endpoint and the token endpoint.  Registrations live in a  *)
(* dictionary that is capped and aged, mirrored in a JSON store on disk and *)
(* read back lazily after a restart; authorization codes live in memory     *)
(* only.  Every handler awaits the request body first and then runs to its  *)
(* end on the event loop, so a handler is one step.  Registrations are      *)
(* dated by a clock that is coarser than the code's: two may carry the same *)
(* date, and which of them counts as the older is then a choice.            *)
(***************************************************************************)
EXTENDS Naturals, FiniteSets

CONSTANTS
  Clients,        \* ids of dynamic clients: random, never given out twice
  EnvClient,      \* VAULT_OAUTH_CLIENT_ID, known without registering
  Codes,          \* authorization codes: random, never given out twice
  Flows,          \* a redirect_uri with a PKCE verifier and its challenge
  Nothing,
  MaxRegistered,  \* VAULT_MAX_REGISTERED_CLIENTS
  ClientTTL,      \* VAULT_REGISTERED_CLIENT_TTL_SECONDS; 0: they never expire
  CodeTTL,        \* the 300 seconds a code is good for
  MaxTime, MaxFaults, MaxRestarts   \* bounds on the history of one model

Grants  == [client : Clients \cup {EnvClient}, flow : Flows, expires : Nat]
Holders == [client : Clients \cup {EnvClient}, flow : Flows]

ASSUME ClientsAssumption == IsFiniteSet(Clients) /\ EnvClient \notin Clients
ASSUME NothingAssumption == Nothing \notin Nat \cup Grants
ASSUME LimitsAssumption ==
  /\ MaxRegistered \in Nat \ {0}
  /\ ClientTTL \in Nat /\ CodeTTL \in Nat
  /\ MaxTime \in Nat /\ MaxFaults \in Nat /\ MaxRestarts \in Nat

VARIABLES
  now,
  \* Registrations.
  clients,      \* _registered_clients, in memory
  loaded,       \* _registered_clients_loaded
  created,      \* created_at of every client ever entered, else Nothing
  store,        \* the clients in the store file
  stored,       \* the store file exists
  unread,       \* it holds registrations this process has not read
  \* Codes.
  codes,        \* _auth_codes
  grant,        \* what each issued code was issued for
  \* History, and the bounds.
  acknowledged, \* clients whose registration was answered with 201
  overwritten,  \* clients whose entry was overwritten unread
  spent,        \* how many tokens each code bought
  holder,       \* who presented it last, and with which flow
  faults, restarts

registry == <<clients, loaded, created, store, stored, unread>>
grants   == <<codes, grant, spent, holder>>
vars == <<now, registry, grants, acknowledged, overwritten, faults, restarts>>

Init ==
  /\ now = 0
  /\ clients = {} /\ loaded = FALSE
  /\ created = [c \in Clients |-> Nothing]
  /\ store = {} /\ stored = FALSE /\ unread = FALSE
  /\ codes = {} /\ grant = [d \in Codes |-> Nothing]
  /\ acknowledged = {} /\ overwritten = {}
  /\ spent = [d \in Codes |-> 0] /\ holder = [d \in Codes |-> Nothing]
  /\ faults = 0 /\ restarts = 0

------------------------------------------------------------------------------
(* Keeping the registrations. *)

Expired(c) == ClientTTL > 0 /\ now - created[c] > ClientTTL

(* What _cleanup_registered_clients leaves of the clients in from, if it let
   one too many stay: the loop stops at the limit, not below it.             *)
RetainedAtLimit(from, kept) ==
  LET alive == {c \in from : ~Expired(c)} IN
  /\ kept \subseteq alive
  /\ Cardinality(kept) = IF Cardinality(alive) <= MaxRegistered
                         THEN Cardinality(alive) ELSE MaxRegistered
  /\ \A c \in alive \ kept, k \in kept : created[c] <= created[k]

(* The same with the most recent registrations going first. *)
RetainedOldest(from, kept) ==
  LET alive == {c \in from : ~Expired(c)} IN
  /\ kept \subseteq alive
  /\ Cardinality(kept) = IF Cardinality(alive) < MaxRegistered
                         THEN Cardinality(alive) ELSE MaxRegistered - 1
  /\ \A c \in alive \ kept, k \in kept : created[k] <= created[c]

(* What _cleanup_registered_clients leaves of the clients in from: the expired
   ones go, then the oldest until there is room for one more.                 *)
Retained(from, kept) ==
  LET alive == {c \in from : ~Expired(c)} IN
  /\ kept \subseteq alive
  /\ Cardinality(kept) = IF Cardinality(alive) < MaxRegistered
                         THEN Cardinality(alive) ELSE MaxRegistered - 1
  /\ \A c \in alive \ kept, k \in kept : created[c] <= created[k]

(* _persist_registered_clients: the temp file replaces the store, whatever the
   store held; read tells whether this handler has read it.                    *)
Persist(content, read) ==
  /\ store' = content /\ stored' = TRUE /\ unread' = FALSE
  /\ overwritten' = overwritten \cup (IF unread /\ ~read THEN store \ content ELSE {})

(* _load_registered_clients: the first look-up of a process reads the store,
   and takes what it holds for the whole registry.                             *)
Readable == ~loaded /\ stored

(* A look-up that does not write down what it dropped. *)
LookUpUnpersisted(kept) ==
  LET base == IF Readable THEN store ELSE clients IN
  /\ Retained(base, kept)
  /\ clients' = kept /\ loaded' = TRUE
  /\ unread' = (unread /\ ~Readable)
  /\ UNCHANGED <<created, store, stored, overwritten>>

(* _get_registered_client: load once, clean up, and persist what the cleanup
   changed.  The clients it can then find are kept and the configured one.     *)
LookUp(kept) ==
  LET base == IF Readable THEN store ELSE clients IN
  /\ Retained(base, kept)
  /\ clients' = kept /\ loaded' = TRUE
  /\ IF kept # base
     THEN Persist(kept, Readable)
     ELSE unread' = (unread /\ ~Readable) /\ UNCHANGED <<store, stored, overwritten>>
  /\ UNCHANGED created

Known(kept) == kept \cup {EnvClient}

(* Reading the store fails: the process goes on without it, and never tries
   again.  What the handler does next is a step like any other's.              *)
LoadFails(kept) ==
  /\ Readable /\ faults < MaxFaults
  /\ faults' = faults + 1
  /\ Retained(clients, kept)
  /\ clients' = kept /\ loaded' = TRUE
  /\ IF kept # clients
     THEN Persist(kept, FALSE)
     ELSE UNCHANGED <<store, stored, unread, overwritten>>
  /\ UNCHANGED <<now, created, grants, acknowledged, restarts>>

(* Writing what the cleanup of a look-up changed fails, and the answer is 500. *)
LookUpFails(kept) ==
  LET base == IF Readable THEN store ELSE clients IN
  /\ faults < MaxFaults
  /\ faults' = faults + 1
  /\ Retained(base, kept) /\ kept # base
  /\ clients' = kept /\ loaded' = TRUE
  /\ unread' = (unread /\ ~Readable)
  /\ UNCHANGED <<now, created, store, stored, overwritten,
                 grants, acknowledged, restarts>>

------------------------------------------------------------------------------
(* oauth_register. *)

(* created_at set to the end of the client's life instead of its beginning. *)
RegisterDatedAhead(c, kept) ==
  /\ created[c] = Nothing
  /\ Retained(clients, kept)
  /\ clients' = kept \cup {c}
  /\ created' = [created EXCEPT ![c] = now + ClientTTL]
  /\ Persist(kept \cup {c}, FALSE)
  /\ acknowledged' = acknowledged \cup {c}
  /\ UNCHANGED <<now, loaded, grants, faults, restarts>>

(* Making room, entering the client, persisting.  The store is not loaded
   first.                                                                      *)
Register(c, kept) ==
  /\ created[c] = Nothing
  /\ Retained(clients, kept)
  /\ clients' = kept \cup {c}
  /\ created' = [created EXCEPT ![c] = now]
  /\ Persist(kept \cup {c}, FALSE)
  /\ acknowledged' = acknowledged \cup {c}
  /\ UNCHANGED <<now, loaded, grants, faults, restarts>>

(* The write after the cleanup fails, or the one after the client has been
   entered: it stays in memory, with a secret nobody was given.                *)
RegisterFails(c, kept) ==
  /\ created[c] = Nothing /\ faults < MaxFaults
  /\ faults' = faults + 1
  /\ Retained(clients, kept)
  /\ \/ /\ kept # clients
        /\ clients' = kept
        /\ UNCHANGED <<created, store, stored, unread, overwritten>>
     \/ /\ clients' = kept \cup {c}
        /\ created' = [created EXCEPT ![c] = now]
        /\ IF kept # clients
           THEN Persist(kept, FALSE)
           ELSE UNCHANGED <<store, stored, unread, overwritten>>
  /\ UNCHANGED <<now, loaded, grants, acknowledged, restarts>>

------------------------------------------------------------------------------
(* oauth_authorize and oauth_token. *)

(* _cleanup_codes. *)
Fresh == {d \in codes : grant[d].expires >= now}

(* The user has signed in and agreed, the client is known and the redirect_uri
   is one of its own: a code goes to the redirect_uri.                         *)
Authorize(c, flow, d, kept) ==
  /\ LookUp(kept)
  /\ c \in Known(kept)
  /\ grant[d] = Nothing
  /\ grant' = [grant EXCEPT ![d] = [client |-> c, flow |-> flow, expires |-> now + CodeTTL]]
  /\ codes' = Fresh \cup {d}
  /\ UNCHANGED <<now, spent, holder, acknowledged, faults, restarts>>

(* Every other answer of the authorization endpoint, and the client_credentials
   grant, which no dynamic client is allowed: only the look-up.                *)
LookUpOnly(kept) ==
  /\ LookUp(kept)
  /\ UNCHANGED <<now, grants, acknowledged, faults, restarts>>

(* The code is left in the dictionary after the exchange. *)
KeepCode(c, flow, d, kept) ==
  /\ d \in Fresh
  /\ LookUp(kept)
  /\ c \in Known(kept)
  /\ grant[d].client = c /\ grant[d].flow = flow
  /\ codes' = Fresh
  /\ spent' = [spent EXCEPT ![d] = @ + 1]
  /\ holder' = [holder EXCEPT ![d] = [client |-> c, flow |-> flow]]
  /\ UNCHANGED <<now, grant, acknowledged, faults, restarts>>

(* The code is spent before its holder has been checked. *)
AnyHolder(c, flow, d, kept) ==
  /\ d \in Fresh
  /\ LookUp(kept)
  /\ c \in Known(kept)
  /\ grant[d].flow = flow
  /\ codes' = Fresh \ {d}
  /\ spent' = [spent EXCEPT ![d] = @ + 1]
  /\ holder' = [holder EXCEPT ![d] = [client |-> c, flow |-> flow]]
  /\ UNCHANGED <<now, grant, acknowledged, faults, restarts>>

(* Codes are only cleaned up when one is issued. *)
LateExchange(c, flow, d, kept) ==
  /\ d \in codes
  /\ LookUp(kept)
  /\ c \in Known(kept)
  /\ grant[d].client = c /\ grant[d].flow = flow
  /\ codes' = codes \ {d}
  /\ spent' = [spent EXCEPT ![d] = @ + 1]
  /\ holder' = [holder EXCEPT ![d] = [client |-> c, flow |-> flow]]
  /\ UNCHANGED <<now, grant, acknowledged, faults, restarts>>

(* _handle_authorization_code: client c presents code d with the redirect_uri
   and the verifier of flow, and its own secret.                               *)
Exchange(c, flow, d, kept) ==
  /\ d \in Fresh
  /\ LookUp(kept)
  /\ c \in Known(kept)
  /\ grant[d].client = c /\ grant[d].flow = flow
  /\ codes' = Fresh \ {d}
  /\ spent' = [spent EXCEPT ![d] = @ + 1]
  /\ holder' = [holder EXCEPT ![d] = [client |-> c, flow |-> flow]]
  /\ UNCHANGED <<now, grant, acknowledged, faults, restarts>>

(* A refused exchange leaves the code where it is: an unknown code is refused
   before the look-up, anything else after it.                                 *)
RefuseExchange(kept) ==
  /\ codes' = Fresh
  /\ UNCHANGED <<now, grant, spent, holder, acknowledged, faults, restarts>>
  /\ \/ Fresh # {} /\ LookUp(kept)
     \/ kept = clients /\ UNCHANGED <<registry, overwritten>>

------------------------------------------------------------------------------
(* Time passes; the process dies, or is stopped, and starts again. *)

Tick ==
  /\ now < MaxTime
  /\ now' = now + 1
  /\ UNCHANGED <<registry, grants, acknowledged, overwritten, faults, restarts>>

Restart ==
  /\ restarts < MaxRestarts
  /\ restarts' = restarts + 1
  /\ clients' = {} /\ loaded' = FALSE /\ unread' = stored
  /\ codes' = {}
  /\ UNCHANGED <<now, created, store, stored, grant, spent, holder,
                 acknowledged, overwritten, faults>>

Next ==
  \/ \E kept \in SUBSET Clients :
       LoadFails(kept) \/ LookUpFails(kept) \/ LookUpOnly(kept) \/ RefuseExchange(kept)
  \/ \E c \in Clients, kept \in SUBSET Clients : Register(c, kept) \/ RegisterFails(c, kept)
  \/ \E c \in Clients \cup {EnvClient}, flow \in Flows, d \in Codes, kept \in SUBSET Clients :
       Authorize(c, flow, d, kept) \/ Exchange(c, flow, d, kept)
  \/ Tick
  \/ Restart

Spec == Init /\ [][Next]_vars

------------------------------------------------------------------------------
(* Properties. *)

(* Every variable holds what its comment says. *)
TypeOK ==
  /\ now \in 0..MaxTime
  /\ clients \subseteq Clients /\ loaded \in BOOLEAN
  /\ created \in [Clients -> 0..MaxTime \cup {Nothing}]
  /\ store \subseteq Clients /\ stored \in BOOLEAN /\ unread \in BOOLEAN
  /\ codes \subseteq Codes
  /\ grant \in [Codes -> Grants \cup {Nothing}]
  /\ acknowledged \subseteq Clients /\ overwritten \subseteq Clients
  /\ spent \in [Codes -> Nat] /\ holder \in [Codes -> Holders \cup {Nothing}]
  /\ faults \in 0..MaxFaults /\ restarts \in 0..MaxRestarts

(* Why the next three hold, as an inductive invariant: what is in the registry,
   in its store or acknowledged was entered; an acknowledged client is in the
   registry only if it is in the store as well; what a code bought is known.   *)
Entered ==
  \A c \in clients \cup store \cup acknowledged : created[c] # Nothing

AcknowledgedIsStored ==
  /\ acknowledged \cap clients \subseteq store
  /\ store # {} => stored

CodeIsUnspent ==
  /\ \A d \in codes : grant[d] # Nothing /\ spent[d] = 0
  /\ \A d \in Codes : spent[d] > 0 => grant[d] # Nothing

(* A code buys one token, however often it is presented and whatever happens to
   the client's registration in between.                                       *)
CodeBuysOneToken == \A d \in Codes : spent[d] <= 1

(* The token went to the client the user agreed to, through the redirect_uri and
   the verifier the authorization was asked with.                              *)
TokenGoesToTheGrantee ==
  \A d \in Codes :
    spent[d] > 0 => holder[d] = [client |-> grant[d].client, flow |-> grant[d].flow]

(* No token comes of a code past its 300 seconds, of one issued before a restart,
   or for a client that this very request has just found expired or pushed out. *)
NoLateToken ==
  [][\A d \in Codes :
       spent'[d] # spent[d] =>
         /\ d \in codes /\ now <= grant[d].expires
         /\ grant[d].client \in Known(clients')
         /\ grant[d].client # EnvClient => ~Expired(grant[d].client)]_vars

(* "Maximum retained dynamic clients": neither the registry nor its store ever
   outgrows the limit, whatever fails in between.                              *)
AtMostMaxRegistered ==
  Cardinality(clients) <= MaxRegistered /\ Cardinality(store) <= MaxRegistered

(* A process that has read or written the store and met no disk error has on
   disk just what it has in memory: what a look-up drops does not come back.    *)
StoreMirrorsRegistry == faults = 0 /\ ~unread => store = clients

Remembered == clients \cup (IF unread THEN store ELSE {})

(* The registrations that are as recent as c's. *)
NotOlder(c) == {y \in Clients \ {c} : created[y] # Nothing /\ created[y] >= created[c]}

PushedOut(c) == Cardinality(NotOlder(c)) >= MaxRegistered - 1

(* A client that was told its registration succeeded stays registered until it
   expires or the limit's worth of more recent ones has come; the one exception
   is a store overwritten before it has been read.                              *)
KeepsRecentClients ==
  \A c \in acknowledged :
    c \in Remembered \/ Expired(c) \/ PushedOut(c) \/ c \in overwritten

(* The same without the exception, which is what the documentation promises:
   "Dynamic client registrations can be persisted so reconnects survive normal
   service restarts".                                                           *)
ReconnectsSurviveRestart ==
  \A c \in acknowledged : c \in Remembered \/ Expired(c) \/ PushedOut(c)
==============================================================================
