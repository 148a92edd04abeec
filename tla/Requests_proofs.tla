--------------------------- MODULE Requests_proofs ----------------------------
(***************************************************************************)
(* Proofs about what stands around every request.  OAuth: types, what an    *)
(* authorization code can buy, the bound on the registry, its mirror on     *)
(* disk, and what a registered client can rely on, for any number of        *)
(* clients, codes, faults and restarts.  ToolCalls: the audit log and the   *)
(* hooks account for what the tools did, for every number of calls and      *)
(* paths, and however many appends fail, files change meanwhile and         *)
(* snapshots raise.                                                         *)
(***************************************************************************)
EXTENDS OAuth, ToolCalls, FiniteSetTheorems, TLAPS

------------------------------------------------------------------------------
(* Types. *)

LEMMA InitTypeOK == Init => TypeOK
<1> SUFFICES ASSUME Init PROVE TypeOK
  OBVIOUS
<1>1. now \in 0..MaxTime /\ faults \in 0..MaxFaults /\ restarts \in 0..MaxRestarts
  BY LimitsAssumption DEF Init
<1>2. created \in [Clients -> 0..MaxTime \cup {Nothing}]
  BY DEF Init
<1>3. /\ grant \in [Codes -> Grants \cup {Nothing}]
      /\ spent \in [Codes -> Nat] /\ holder \in [Codes -> Holders \cup {Nothing}]
  BY DEF Init
<1>4. QED BY <1>1, <1>2, <1>3 DEF Init, TypeOK

LEMMA NextTypeOK == TypeOK /\ [Next]_vars => TypeOK'
<1> SUFFICES ASSUME TypeOK, [Next]_vars PROVE TypeOK'
  OBVIOUS
<1> USE LimitsAssumption DEF TypeOK
<1>1. ASSUME NEW kept \in SUBSET Clients, LoadFails(kept) PROVE TypeOK'
  <2>1. faults' \in 0..MaxFaults BY <1>1 DEF LoadFails
  <2>2. store' \subseteq Clients /\ overwritten' \subseteq Clients
        /\ stored' \in BOOLEAN /\ unread' \in BOOLEAN
    BY <1>1 DEF LoadFails, Persist
  <2>3. QED BY <1>1, <2>1, <2>2 DEF LoadFails, grants
<1>2. ASSUME NEW kept \in SUBSET Clients, LookUpFails(kept) PROVE TypeOK'
  BY <1>2 DEF LookUpFails, grants
<1>3. ASSUME NEW kept \in SUBSET Clients, LookUpOnly(kept) PROVE TypeOK'
  BY <1>3 DEF LookUpOnly, LookUp, Persist, grants
<1>4. ASSUME NEW kept \in SUBSET Clients, RefuseExchange(kept) PROVE TypeOK'
  <2>1. codes' \subseteq Codes BY <1>4 DEF RefuseExchange, Fresh
  <2>2. CASE LookUp(kept)
    BY <1>4, <2>1, <2>2 DEF RefuseExchange, LookUp, Persist
  <2>3. CASE UNCHANGED <<registry, overwritten>>
    BY <1>4, <2>1, <2>3 DEF RefuseExchange, registry
  <2>4. QED BY <1>4, <2>2, <2>3 DEF RefuseExchange
<1>5. ASSUME NEW kept \in SUBSET Clients, NEW c \in Clients, Register(c, kept)
      PROVE  TypeOK'
  <2>1. created' \in [Clients -> 0..MaxTime \cup {Nothing}]
    BY <1>5 DEF Register
  <2>2. store' \subseteq Clients /\ overwritten' \subseteq Clients
        /\ stored' \in BOOLEAN /\ unread' \in BOOLEAN
    BY <1>5 DEF Register, Persist
  <2>3. QED BY <1>5, <2>1, <2>2 DEF Register, grants
<1>6. ASSUME NEW kept \in SUBSET Clients, NEW c \in Clients, RegisterFails(c, kept)
      PROVE  TypeOK'
  <2>1. faults' \in 0..MaxFaults BY <1>6 DEF RegisterFails
  <2>2. created' \in [Clients -> 0..MaxTime \cup {Nothing}]
    BY <1>6 DEF RegisterFails
  <2>3. store' \subseteq Clients /\ overwritten' \subseteq Clients
        /\ stored' \in BOOLEAN /\ unread' \in BOOLEAN /\ clients' \subseteq Clients
    BY <1>6 DEF RegisterFails, Persist
  <2>4. QED BY <1>6, <2>1, <2>2, <2>3 DEF RegisterFails, grants
<1>7. ASSUME NEW kept \in SUBSET Clients, NEW c \in Clients \cup {EnvClient},
             NEW flow \in Flows, NEW d \in Codes, Authorize(c, flow, d, kept)
      PROVE  TypeOK'
  <2>1. [client |-> c, flow |-> flow, expires |-> now + CodeTTL] \in Grants
    BY DEF Grants
  <2>2. grant' \in [Codes -> Grants \cup {Nothing}] BY <1>7, <2>1 DEF Authorize
  <2>3. codes' \subseteq Codes BY <1>7 DEF Authorize, Fresh
  <2>4. QED BY <1>7, <2>2, <2>3 DEF Authorize, LookUp, Persist
<1>8. ASSUME NEW kept \in SUBSET Clients, NEW c \in Clients \cup {EnvClient},
             NEW flow \in Flows, NEW d \in Codes, Exchange(c, flow, d, kept)
      PROVE  TypeOK'
  <2>1. holder' \in [Codes -> Holders \cup {Nothing}] BY <1>8 DEF Exchange, Holders
  <2>2. codes' \subseteq Codes BY <1>8 DEF Exchange, Fresh
  <2>3. spent' \in [Codes -> Nat] BY <1>8 DEF Exchange
  <2>4. LookUp(kept) /\ UNCHANGED <<now, grant, acknowledged, faults, restarts>>
    BY <1>8 DEF Exchange
  <2>5. QED BY <2>1, <2>2, <2>3, <2>4 DEF LookUp, Persist
<1>9. CASE Tick
  BY <1>9 DEF Tick, registry, grants
<1>10. CASE Restart
  <2>1. restarts' \in 0..MaxRestarts BY <1>10 DEF Restart
  <2>2. loaded' \in BOOLEAN /\ unread' \in BOOLEAN BY <1>10 DEF Restart
  <2>3. QED BY <1>10, <2>1, <2>2 DEF Restart
<1>11. CASE UNCHANGED vars
  BY <1>11 DEF vars, registry, grants
<1>12. QED
  BY <1>1, <1>2, <1>3, <1>4, <1>5, <1>6, <1>7, <1>8, <1>9, <1>10, <1>11 DEF Next

(* Every variable of the OAuth endpoints keeps its type. *)
THEOREM TypeCorrect == Spec => []TypeOK
  BY InitTypeOK, NextTypeOK, PTL DEF Spec

------------------------------------------------------------------------------
(* Codes. *)

CodeInv == CodeIsUnspent /\ CodeBuysOneToken /\ TokenGoesToTheGrantee

(* A step that leaves the grants alone, except that codes may go. *)
LEMMA CodesMayGo ==
  ASSUME TypeOK, CodeInv, codes' \subseteq codes, UNCHANGED <<grant, spent, holder>>
  PROVE  CodeInv'
BY DEF CodeInv, CodeIsUnspent, CodeBuysOneToken, TokenGoesToTheGrantee

LEMMA NextCodeInv == TypeOK /\ CodeInv /\ [Next]_vars => CodeInv'
<1> SUFFICES ASSUME TypeOK, CodeInv, [Next]_vars PROVE CodeInv'
  OBVIOUS
<1> USE DEF grants
<1>1. ASSUME NEW kept \in SUBSET Clients,
             LoadFails(kept) \/ LookUpFails(kept) \/ LookUpOnly(kept)
      PROVE  CodeInv'
  BY <1>1, CodesMayGo DEF LoadFails, LookUpFails, LookUpOnly
<1>2. ASSUME NEW kept \in SUBSET Clients, RefuseExchange(kept) PROVE CodeInv'
  BY <1>2, CodesMayGo DEF RefuseExchange, Fresh
<1>3. ASSUME NEW kept \in SUBSET Clients, NEW c \in Clients,
             Register(c, kept) \/ RegisterFails(c, kept)
      PROVE  CodeInv'
  BY <1>3, CodesMayGo DEF Register, RegisterFails
<1>4. ASSUME NEW kept \in SUBSET Clients, NEW c \in Clients \cup {EnvClient},
             NEW flow \in Flows, NEW d \in Codes, Authorize(c, flow, d, kept)
      PROVE  CodeInv'
  <2> DEFINE g == [client |-> c, flow |-> flow, expires |-> now + CodeTTL]
  <2>1. g \in Grants /\ g # Nothing
    BY NothingAssumption, LimitsAssumption DEF Grants, TypeOK
  <2> HIDE DEF g
  <2>2. grant[d] = Nothing /\ grant' = [grant EXCEPT ![d] = g]
        /\ codes' \subseteq codes \cup {d} /\ UNCHANGED <<spent, holder>>
    BY <1>4 DEF Authorize, Fresh, g
  <2>3. spent[d] = 0
    BY <2>2 DEF CodeInv, CodeIsUnspent, TypeOK
  <2>4. QED
    BY <2>1, <2>2, <2>3
       DEF TypeOK, CodeInv, CodeIsUnspent, CodeBuysOneToken, TokenGoesToTheGrantee
<1>5. ASSUME NEW kept \in SUBSET Clients, NEW c \in Clients \cup {EnvClient},
             NEW flow \in Flows, NEW d \in Codes, Exchange(c, flow, d, kept)
      PROVE  CodeInv'
  <2> DEFINE h == [client |-> c, flow |-> flow]
  <2>1. /\ d \in codes /\ codes' \subseteq codes \ {d} /\ grant' = grant
        /\ h = [client |-> grant[d].client, flow |-> grant[d].flow]
        /\ spent' = [spent EXCEPT ![d] = spent[d] + 1]
        /\ holder' = [holder EXCEPT ![d] = h]
    BY <1>5 DEF Exchange, Fresh
  <2>2. spent[d] = 0 /\ grant[d] # Nothing
    BY <2>1 DEF CodeInv, CodeIsUnspent
  <2> HIDE DEF h
  <2>3. CodeIsUnspent'
    BY <2>1, <2>2 DEF TypeOK, CodeInv, CodeIsUnspent
  <2>4. CodeBuysOneToken'
    BY <2>1, <2>2 DEF TypeOK, CodeInv, CodeBuysOneToken
  <2>5. TokenGoesToTheGrantee'
    BY <2>1 DEF TypeOK, CodeInv, TokenGoesToTheGrantee
  <2>6. QED BY <2>3, <2>4, <2>5 DEF CodeInv
<1>6. CASE Tick \/ Restart
  BY <1>6, CodesMayGo DEF Tick, Restart
<1>7. CASE UNCHANGED vars
  BY <1>7, CodesMayGo DEF vars
<1>8. QED
  BY <1>1, <1>2, <1>3, <1>4, <1>5, <1>6, <1>7 DEF Next

LEMMA CodeInvariant == Spec => [](TypeOK /\ CodeInv)
<1>1. Init => CodeInv
  BY DEF Init, CodeInv, CodeIsUnspent, CodeBuysOneToken, TokenGoesToTheGrantee
<1>2. QED BY <1>1, InitTypeOK, NextTypeOK, NextCodeInv, PTL DEF Spec

(* However often a code is presented, it buys one token. *)
THEOREM OneTokenPerCode == Spec => []CodeBuysOneToken
<1>1. CodeInv => CodeBuysOneToken BY DEF CodeInv
<1>2. QED BY CodeInvariant, <1>1, PTL

(* The token goes to the client and the flow the code was issued for. *)
THEOREM TokenForTheGrantee == Spec => []TokenGoesToTheGrantee
<1>1. CodeInv => TokenGoesToTheGrantee BY DEF CodeInv
<1>2. QED BY CodeInvariant, <1>1, PTL

(* What a look-up finds among the dynamic clients has not expired. *)
LEMMA FoundAreAlive ==
  ASSUME NEW kept \in SUBSET Clients, LookUp(kept)
  PROVE  clients' = kept /\ \A c \in kept : ~Expired(c)
BY DEF LookUp, Retained

(* No token is issued on a code that has expired or was lost in a restart, nor
   to a client whose registration is gone by the end of the exchange.          *)
THEOREM TokensAreTimely == Spec => NoLateToken
<1> DEFINE Timely ==
      \A d \in Codes :
        spent'[d] # spent[d] =>
          /\ d \in codes /\ now <= grant[d].expires
          /\ grant[d].client \in Known(clients')
          /\ grant[d].client # EnvClient => ~Expired(grant[d].client)
<1>1. TypeOK /\ CodeInv /\ [Next]_vars => [Timely]_vars
  <2> SUFFICES ASSUME TypeOK, CodeInv, [Next]_vars PROVE Timely
    OBVIOUS
  <2>1. CASE UNCHANGED spent
    BY <2>1
  <2>2. ASSUME NEW kept \in SUBSET Clients, NEW c \in Clients \cup {EnvClient},
               NEW flow \in Flows, NEW e \in Codes, Exchange(c, flow, e, kept)
        PROVE  Timely
    <3>1. /\ e \in codes /\ grant[e].expires >= now /\ grant[e].client = c
          /\ spent' = [spent EXCEPT ![e] = spent[e] + 1]
          /\ c \in Known(kept) /\ LookUp(kept)
      BY <2>2 DEF Exchange, Fresh
    <3>2. grant[e].expires \in Nat /\ now \in Nat
      BY <3>1, LimitsAssumption DEF TypeOK, CodeInv, CodeIsUnspent, Grants
    <3>3. clients' = kept /\ \A x \in kept : ~Expired(x)
      BY <3>1, FoundAreAlive
    <3>4. \A d \in Codes : spent'[d] # spent[d] => d = e
      BY <3>1 DEF TypeOK
    <3>5. c # EnvClient => c \in kept
      BY <3>1 DEF Known
    <3>6. QED BY <3>1, <3>2, <3>3, <3>4, <3>5
  <2>3. QED
    BY <2>1, <2>2 DEF Next, vars, grants, LoadFails, LookUpFails, LookUpOnly,
       RefuseExchange, Register, RegisterFails, Authorize, Tick, Restart
<1>2. QED BY CodeInvariant, <1>1, PTL DEF Spec, NoLateToken

------------------------------------------------------------------------------
(* The registry and its store. *)

(* With no disk error, disk and memory differ only while the store is unread. *)
MirrorInv == StoreMirrorsRegistry /\ (store # {} => stored)

(* A look-up that meets no disk error. *)
LEMMA LookUpMirrors ==
  ASSUME TypeOK, MirrorInv, NEW kept \in SUBSET Clients, LookUp(kept), faults' = faults
  PROVE  MirrorInv'
<1>1. CASE kept = (IF Readable THEN store ELSE clients)
  BY <1>1 DEF TypeOK, MirrorInv, StoreMirrorsRegistry, LookUp, Readable
<1>2. CASE kept # (IF Readable THEN store ELSE clients)
  BY <1>2 DEF MirrorInv, StoreMirrorsRegistry, LookUp, Persist
<1>3. QED BY <1>1, <1>2

(* A step that meets a disk error, or is past one. *)
LEMMA FaultyMirrors ==
  ASSUME TypeOK, MirrorInv, faults' = faults + 1,
         stored' = TRUE \/ UNCHANGED <<store, stored>>
  PROVE  MirrorInv'
BY DEF TypeOK, MirrorInv, StoreMirrorsRegistry

LEMMA NextMirrorInv == TypeOK /\ MirrorInv /\ [Next]_vars => MirrorInv'
<1> SUFFICES ASSUME TypeOK, MirrorInv, [Next]_vars PROVE MirrorInv'
  OBVIOUS
<1>1. ASSUME NEW kept \in SUBSET Clients, LoadFails(kept) \/ LookUpFails(kept)
      PROVE  MirrorInv'
  BY <1>1, FaultyMirrors DEF LoadFails, LookUpFails, Persist
<1>2. ASSUME NEW kept \in SUBSET Clients, LookUpOnly(kept) PROVE MirrorInv'
  BY <1>2, LookUpMirrors DEF LookUpOnly
<1>3. ASSUME NEW kept \in SUBSET Clients, RefuseExchange(kept) PROVE MirrorInv'
  <2>1. CASE LookUp(kept)
    BY <1>3, <2>1, LookUpMirrors DEF RefuseExchange
  <2>2. CASE UNCHANGED registry
    BY <1>3, <2>2 DEF RefuseExchange, registry, MirrorInv, StoreMirrorsRegistry
  <2>3. QED BY <1>3, <2>1, <2>2 DEF RefuseExchange
<1>4. ASSUME NEW kept \in SUBSET Clients, NEW c \in Clients, Register(c, kept)
      PROVE  MirrorInv'
  BY <1>4 DEF Register, Persist, MirrorInv, StoreMirrorsRegistry
<1>5. ASSUME NEW kept \in SUBSET Clients, NEW c \in Clients, RegisterFails(c, kept)
      PROVE  MirrorInv'
  BY <1>5, FaultyMirrors DEF RegisterFails, Persist
<1>6. ASSUME NEW kept \in SUBSET Clients, NEW c \in Clients \cup {EnvClient},
             NEW flow \in Flows, NEW d \in Codes,
             Authorize(c, flow, d, kept) \/ Exchange(c, flow, d, kept)
      PROVE  MirrorInv'
  BY <1>6, LookUpMirrors DEF Authorize, Exchange
<1>7. CASE Tick
  BY <1>7 DEF Tick, registry, MirrorInv, StoreMirrorsRegistry
<1>8. CASE Restart
  BY <1>8 DEF Restart, MirrorInv, StoreMirrorsRegistry
<1>9. CASE UNCHANGED vars
  BY <1>9 DEF vars, registry, MirrorInv, StoreMirrorsRegistry
<1>10. QED
  BY <1>1, <1>2, <1>3, <1>4, <1>5, <1>6, <1>7, <1>8, <1>9 DEF Next

(* With no disk error, what a process drops from its registry is gone from the
   store as well, and what it enters is there.                                 *)
THEOREM StoreIsMirror == Spec => []StoreMirrorsRegistry
<1>1. Init => MirrorInv
  BY DEF Init, MirrorInv, StoreMirrorsRegistry
<1>2. MirrorInv => StoreMirrorsRegistry BY DEF MirrorInv
<1>3. QED BY <1>1, <1>2, InitTypeOK, NextTypeOK, NextMirrorInv, PTL DEF Spec

------------------------------------------------------------------------------
(* The limit. *)

(* What the cleanup leaves has room for one more. *)
LEMMA RoomForOne ==
  ASSUME NEW from \in SUBSET Clients, NEW kept \in SUBSET Clients,
         Retained(from, kept)
  PROVE  /\ Cardinality(kept) <= MaxRegistered
         /\ \A c \in Clients : Cardinality(kept \cup {c}) <= MaxRegistered
<1> DEFINE alive == {x \in from : ~Expired(x)}
<1>1. IsFiniteSet(alive) /\ IsFiniteSet(kept)
  BY ClientsAssumption, FS_Subset
<1>2. Cardinality(alive) \in Nat /\ Cardinality(kept) \in Nat
  BY <1>1, FS_CardinalityType
<1>3. Cardinality(kept) = IF Cardinality(alive) < MaxRegistered
                          THEN Cardinality(alive) ELSE MaxRegistered - 1
  BY DEF Retained
<1> HIDE DEF alive
<1>4. Cardinality(kept) <= MaxRegistered - 1
  BY <1>2, <1>3, LimitsAssumption
<1>5. ASSUME NEW c \in Clients PROVE Cardinality(kept \cup {c}) <= MaxRegistered
  <2>1. Cardinality(kept \cup {c}) \in {Cardinality(kept), Cardinality(kept) + 1}
    BY <1>1, FS_AddElement
  <2>2. QED BY <1>2, <1>4, <2>1, LimitsAssumption
<1>6. QED BY <1>2, <1>4, <1>5, LimitsAssumption

(* Every step leaves in memory what a cleanup retained, with at most the client
   that registers, and on disk the same or what was there.                     *)
LEMMA RegistryIsCleaned ==
  ASSUME TypeOK, Next
  PROVE  \/ clients' \in {clients, {}} /\ store' = store
         \/ \E from \in {clients, store}, kept \in SUBSET Clients, c \in Clients :
              /\ Retained(from, kept)
              /\ clients' \in {kept, kept \cup {c}}
              /\ store' \in {store, kept, kept \cup {c}}
         \/ \E from \in {clients, store}, kept \in SUBSET Clients :
              /\ Retained(from, kept)
              /\ clients' = kept
              /\ store' \in {store, kept}
<1> DEFINE Cleaned(kept) ==
      \E from \in {clients, store} :
        Retained(from, kept) /\ clients' = kept /\ store' \in {store, kept}
<1>1. ASSUME NEW kept \in SUBSET Clients, LookUp(kept) PROVE Cleaned(kept)
  <2>1. Retained(IF Readable THEN store ELSE clients, kept) /\ clients' = kept
        /\ store' \in {store, kept}
    BY <1>1 DEF LookUp, Persist
  <2>2. CASE Readable BY <2>1, <2>2
  <2>3. CASE ~Readable BY <2>1, <2>3
  <2>4. QED BY <2>2, <2>3
<1>2. ASSUME NEW kept \in SUBSET Clients, LoadFails(kept) PROVE Cleaned(kept)
  BY <1>2 DEF LoadFails, Persist
<1>3. ASSUME NEW kept \in SUBSET Clients, LookUpFails(kept) PROVE Cleaned(kept)
  <2>1. Retained(IF Readable THEN store ELSE clients, kept) /\ clients' = kept
        /\ store' = store
    BY <1>3 DEF LookUpFails
  <2>2. CASE Readable BY <2>1, <2>2
  <2>3. CASE ~Readable BY <2>1, <2>3
  <2>4. QED BY <2>2, <2>3
<1>4. ASSUME NEW kept \in SUBSET Clients, NEW c \in Clients,
             Register(c, kept) \/ RegisterFails(c, kept)
      PROVE  /\ Retained(clients, kept)
             /\ clients' \in {kept, kept \cup {c}}
             /\ store' \in {store, kept, kept \cup {c}}
  BY <1>4 DEF Register, RegisterFails, Persist
<1>5. ASSUME NEW kept \in SUBSET Clients, RefuseExchange(kept)
      PROVE  LookUp(kept) \/ (clients' = clients /\ store' = store)
  BY <1>5 DEF RefuseExchange, registry
<1>6. Tick \/ Restart => clients' \in {clients, {}} /\ store' = store
  BY DEF Tick, Restart, registry
<1> HIDE DEF Cleaned
<1>7. \/ \E kept \in SUBSET Clients : Cleaned(kept)
      \/ \E kept \in SUBSET Clients, c \in Clients :
           Register(c, kept) \/ RegisterFails(c, kept)
      \/ clients' \in {clients, {}} /\ store' = store
  BY <1>1, <1>2, <1>3, <1>5, <1>6 DEF Next, LookUpOnly, Authorize, Exchange
<1>8. QED BY <1>4, <1>7 DEF Cleaned

(* "Maximum retained dynamic clients": neither the registry nor its store ever
   outgrows the limit, whatever fails.                                         *)
THEOREM RegistryIsBounded == Spec => []AtMostMaxRegistered
<1>1. Init => AtMostMaxRegistered
  BY FS_EmptySet, LimitsAssumption DEF Init, AtMostMaxRegistered
<1>2. TypeOK /\ AtMostMaxRegistered /\ [Next]_vars => AtMostMaxRegistered'
  <2> SUFFICES ASSUME TypeOK, AtMostMaxRegistered, [Next]_vars
               PROVE  AtMostMaxRegistered'
    OBVIOUS
  <2>1. CASE UNCHANGED vars
    BY <2>1 DEF vars, registry, AtMostMaxRegistered
  <2>2. CASE Next
    <3>1. Cardinality({}) <= MaxRegistered
      BY FS_EmptySet, LimitsAssumption
    <3>2. CASE clients' \in {clients, {}} /\ store' = store
      BY <3>1, <3>2 DEF AtMostMaxRegistered
    <3>3. ASSUME NEW from \in {clients, store}, NEW kept \in SUBSET Clients,
                 NEW c \in Clients, Retained(from, kept),
                 clients' \in {kept, kept \cup {c}},
                 store' \in {store, kept, kept \cup {c}}
          PROVE  AtMostMaxRegistered'
      <4>1. from \in SUBSET Clients BY DEF TypeOK
      <4>2. Cardinality(kept) <= MaxRegistered
            /\ Cardinality(kept \cup {c}) <= MaxRegistered
        BY <3>3, <4>1, RoomForOne
      <4>3. QED BY <3>3, <4>2 DEF AtMostMaxRegistered
    <3>4. ASSUME NEW from \in {clients, store}, NEW kept \in SUBSET Clients,
                 Retained(from, kept), clients' = kept, store' \in {store, kept}
          PROVE  AtMostMaxRegistered'
      <4>1. from \in SUBSET Clients BY DEF TypeOK
      <4>2. Cardinality(kept) <= MaxRegistered BY <3>4, <4>1, RoomForOne
      <4>3. QED BY <3>4, <4>2 DEF AtMostMaxRegistered
    <3>5. QED BY <2>2, <3>2, <3>3, <3>4, RegistryIsCleaned
  <2>3. QED BY <2>1, <2>2
<1>3. QED BY <1>1, <1>2, InitTypeOK, NextTypeOK, PTL DEF Spec

------------------------------------------------------------------------------
(* What a registered client can rely on. *)

EntryInv == Entered /\ AcknowledgedIsStored

LEMMA NextEntryInv == TypeOK /\ EntryInv /\ [Next]_vars => EntryInv'
<1> SUFFICES ASSUME TypeOK, EntryInv, [Next]_vars PROVE EntryInv'
  OBVIOUS
<1> USE DEF EntryInv, Entered, AcknowledgedIsStored
<1>1. ASSUME NEW kept \in SUBSET Clients, LookUp(kept), acknowledged' = acknowledged
      PROVE  EntryInv'
  <2>1. kept \subseteq (IF Readable THEN store ELSE clients)
    BY <1>1 DEF LookUp, Retained
  <2>2. /\ clients' = kept /\ created' = created
        /\ \/ UNCHANGED <<store, stored>>
              /\ kept = (IF Readable THEN store ELSE clients)
           \/ store' = kept /\ stored' = TRUE
    BY <1>1 DEF LookUp, Persist
  <2>3. CASE Readable BY <1>1, <2>1, <2>2, <2>3
  <2>4. CASE ~Readable BY <1>1, <2>1, <2>2, <2>4
  <2>5. QED BY <2>3, <2>4
<1>2. ASSUME NEW kept \in SUBSET Clients, LoadFails(kept) PROVE EntryInv'
  BY <1>2 DEF LoadFails, Persist, Retained
<1>3. ASSUME NEW kept \in SUBSET Clients, LookUpFails(kept) PROVE EntryInv'
  <2>1. kept \subseteq (IF Readable THEN store ELSE clients) /\ clients' = kept
        /\ UNCHANGED <<created, store, stored, acknowledged>>
    BY <1>3 DEF LookUpFails, Retained
  <2>2. CASE Readable BY <2>1, <2>2
  <2>3. CASE ~Readable BY <2>1, <2>3
  <2>4. QED BY <2>2, <2>3
<1>4. ASSUME NEW kept \in SUBSET Clients, NEW c \in Clients, Register(c, kept)
      PROVE  EntryInv'
  <2>1. kept \subseteq clients /\ created' = [created EXCEPT ![c] = now] /\ now # Nothing
    BY <1>4, NothingAssumption DEF Register, Retained, TypeOK
  <2>2. QED BY <1>4, <2>1 DEF Register, Persist, TypeOK
<1>5. ASSUME NEW kept \in SUBSET Clients, NEW c \in Clients, RegisterFails(c, kept)
      PROVE  EntryInv'
  <2>1. kept \subseteq clients /\ c \notin acknowledged /\ now # Nothing
    BY <1>5, NothingAssumption DEF RegisterFails, Retained, TypeOK
  <2>2. acknowledged' = acknowledged
    BY <1>5 DEF RegisterFails
  <2>3. CASE clients' = kept /\ UNCHANGED <<created, store, stored>>
    BY <2>1, <2>2, <2>3
  <2>4. CASE /\ clients' = kept \cup {c}
             /\ created' = [created EXCEPT ![c] = now]
             /\ IF kept # clients THEN store' = kept /\ stored' = TRUE
                                  ELSE UNCHANGED <<store, stored>>
    BY <2>1, <2>2, <2>4 DEF TypeOK
  <2>5. QED BY <1>5, <2>3, <2>4 DEF RegisterFails, Persist
<1>6. ASSUME NEW kept \in SUBSET Clients, RefuseExchange(kept) PROVE EntryInv'
  BY <1>1, <1>6 DEF RefuseExchange, registry
<1>7. CASE Tick \/ Restart
  BY <1>7 DEF Tick, Restart, registry
<1>8. CASE UNCHANGED vars
  BY <1>8 DEF vars, registry
<1>9. QED
  BY <1>1, <1>2, <1>3, <1>4, <1>5, <1>6, <1>7, <1>8
     DEF Next, LookUpOnly, Authorize, Exchange, grants

(* The cleanup drops a client only if it has expired or if there are the
   limit's worth of others that are as recent.                               *)
LEMMA DroppedForAReason ==
  ASSUME TypeOK, EntryInv, NEW from \in {clients, store},
         NEW kept \in SUBSET Clients, Retained(from, kept), NEW c \in from \ kept
  PROVE  Expired(c) \/ PushedOut(c)
<1> SUFFICES ASSUME ~Expired(c) PROVE PushedOut(c)
  OBVIOUS
<1> DEFINE alive == {x \in from : ~Expired(x)}
<1>1. kept \in SUBSET alive /\ c \in alive \ kept /\ from \in SUBSET Clients
  BY DEF Retained, TypeOK
<1>2. IsFiniteSet(alive) /\ IsFiniteSet(kept) /\ IsFiniteSet(NotOlder(c))
  BY <1>1, ClientsAssumption, FS_Subset DEF NotOlder
<1>3. Cardinality(kept) \in Nat /\ Cardinality(NotOlder(c)) \in Nat
  BY <1>2, FS_CardinalityType
<1>4. Cardinality(kept) # Cardinality(alive)
  BY <1>1, <1>2, FS_Subset
<1>5. Cardinality(kept) = MaxRegistered - 1
  BY <1>4 DEF Retained
<1>6. kept \in SUBSET NotOlder(c)
  <2> SUFFICES ASSUME NEW k \in kept PROVE k \in NotOlder(c)
    OBVIOUS
  <2>1. created[c] <= created[k] BY <1>1 DEF Retained
  <2>2. created[k] # Nothing /\ created[c] # Nothing
    BY <1>1 DEF EntryInv, Entered
  <2>3. created[k] \in Nat /\ created[c] \in Nat
    BY <1>1, <2>2, LimitsAssumption DEF TypeOK
  <2>4. QED BY <1>1, <2>1, <2>2, <2>3 DEF NotOlder
<1>7. Cardinality(kept) <= Cardinality(NotOlder(c))
  BY <1>2, <1>6, FS_Subset
<1>8. QED BY <1>5, <1>7 DEF PushedOut

(* Time and registrations only move on. *)
LEMMA HistoryGrows ==
  ASSUME TypeOK, [Next]_vars
  PROVE  /\ now' \in {now, now + 1}
         /\ \A y \in Clients : created[y] # Nothing => created'[y] = created[y]
         /\ overwritten \subseteq overwritten'
<1>1. ASSUME NEW kept \in SUBSET Clients, LookUp(kept)
      PROVE  created' = created /\ overwritten \subseteq overwritten'
  BY <1>1 DEF LookUp, Persist
<1>2. ASSUME NEW kept \in SUBSET Clients, LoadFails(kept) \/ LookUpFails(kept)
      PROVE  now' = now /\ created' = created /\ overwritten \subseteq overwritten'
  BY <1>2 DEF LoadFails, LookUpFails, Persist
<1>3. ASSUME NEW kept \in SUBSET Clients, NEW c \in Clients,
             Register(c, kept) \/ RegisterFails(c, kept)
      PROVE  /\ now' = now /\ created[c] = Nothing
             /\ created' = created \/ created' = [created EXCEPT ![c] = now]
             /\ overwritten \subseteq overwritten'
  BY <1>3 DEF Register, RegisterFails, Persist
<1>4. ASSUME NEW kept \in SUBSET Clients, NEW c \in Clients,
             Register(c, kept) \/ RegisterFails(c, kept)
      PROVE  \A y \in Clients : created[y] # Nothing => created'[y] = created[y]
  BY <1>3, <1>4 DEF TypeOK
<1>5. ASSUME NEW kept \in SUBSET Clients, RefuseExchange(kept)
      PROVE  now' = now /\ created' = created /\ overwritten \subseteq overwritten'
  BY <1>1, <1>5 DEF RefuseExchange, registry
<1>6. CASE Tick \/ Restart
  BY <1>6 DEF Tick, Restart, registry
<1>7. CASE UNCHANGED vars
  BY <1>7 DEF vars, registry
<1>8. QED
  BY <1>1, <1>2, <1>3, <1>4, <1>5, <1>6, <1>7 DEF Next, LookUpOnly, Authorize, Exchange

(* A reason to be dropped does not go away. *)
LEMMA ReasonsStay ==
  ASSUME TypeOK, [Next]_vars, NEW c \in Clients, created[c] # Nothing
  PROVE  /\ Expired(c) => Expired(c)'
         /\ PushedOut(c) => PushedOut(c)'
<1>1. created'[c] = created[c] /\ created[c] \in Nat /\ now \in Nat
      /\ now' \in {now, now + 1}
  BY HistoryGrows, LimitsAssumption DEF TypeOK
<1>2. Expired(c) => Expired(c)'
  BY <1>1, LimitsAssumption DEF Expired
<1>3. NotOlder(c) \in SUBSET (NotOlder(c)')
  BY <1>1, HistoryGrows DEF NotOlder
<1>4. IsFiniteSet(NotOlder(c)')
  BY ClientsAssumption, FS_Subset DEF NotOlder
<1>5. Cardinality(NotOlder(c)) <= Cardinality(NotOlder(c)')
  BY <1>3, <1>4, FS_Subset
<1>6. IsFiniteSet(NotOlder(c))
  BY <1>3, <1>4, FS_Subset
<1>7. Cardinality(NotOlder(c)) \in Nat /\ Cardinality(NotOlder(c)') \in Nat
  BY <1>4, <1>6, FS_CardinalityType
<1>8. PushedOut(c) => PushedOut(c)'
  BY <1>5, <1>7, LimitsAssumption DEF PushedOut
<1>9. QED BY <1>2, <1>8

(* No step forgets an acknowledged client without a reason. *)
LEMMA ForgottenForAReason ==
  ASSUME TypeOK, EntryInv, [Next]_vars, NEW c \in acknowledged, c \in Remembered
  PROVE  c \in Remembered' \/ Expired(c) \/ PushedOut(c) \/ c \in overwritten'
<1> DEFINE Accounted ==
      c \in Remembered' \/ Expired(c) \/ PushedOut(c) \/ c \in overwritten'
<1>1. ASSUME NEW from \in {clients, store}, NEW kept \in SUBSET Clients,
             Retained(from, kept), c \in from, kept \subseteq clients'
      PROVE  Accounted
  BY <1>1, DroppedForAReason DEF Remembered
<1>2. c \in clients => c \in store
  BY DEF EntryInv, AcknowledgedIsStored
<1>3. ASSUME NEW kept \in SUBSET Clients, Retained(clients, kept), kept \subseteq clients',
             \/ Persist(kept, FALSE)
             \/ UNCHANGED <<store, stored, unread, overwritten>>
             \/ \E d \in Clients : Persist(kept \cup {d}, FALSE) /\ d \in clients'
      PROVE  Accounted
  <2>1. CASE c \in clients BY <1>1, <1>3, <2>1
  <2>2. CASE c \notin clients
    <3>1. unread /\ c \in store BY <2>2 DEF Remembered
    <3>2. QED BY <1>3, <3>1 DEF Persist, Remembered
  <2>3. QED BY <2>1, <2>2
<1>4. ASSUME NEW kept \in SUBSET Clients, LookUp(kept) PROVE Accounted
  <2>1. CASE Readable
    <3>1. c \in store BY <1>2 DEF Remembered
    <3>2. Retained(store, kept) /\ clients' = kept BY <1>4, <2>1 DEF LookUp
    <3>3. QED BY <1>1, <3>1, <3>2
  <2>2. CASE ~Readable
    <3>1. Retained(clients, kept) /\ clients' = kept
          /\ (kept # clients => Persist(kept, FALSE))
          /\ (kept = clients => UNCHANGED <<store, overwritten>> /\ (unread => unread'))
      BY <1>4, <2>2 DEF LookUp, Persist
    <3>2. CASE c \in clients BY <1>1, <3>1, <3>2
    <3>3. CASE c \notin clients
      <4>1. unread /\ c \in store BY <3>3 DEF Remembered
      <4>2. QED BY <3>1, <4>1 DEF Persist, Remembered
    <3>4. QED BY <3>2, <3>3
  <2>3. QED BY <2>1, <2>2
<1>5. ASSUME NEW kept \in SUBSET Clients, LookUpFails(kept) PROVE Accounted
  <2>1. CASE Readable
    <3>1. c \in store BY <1>2 DEF Remembered
    <3>2. Retained(store, kept) /\ clients' = kept BY <1>5, <2>1 DEF LookUpFails
    <3>3. QED BY <1>1, <3>1, <3>2
  <2>2. CASE ~Readable
    <3>1. Retained(clients, kept) /\ clients' = kept /\ store' = store /\ unread' = unread
      BY <1>5, <2>2 DEF LookUpFails, TypeOK
    <3>2. CASE c \in clients BY <1>1, <3>1, <3>2
    <3>3. CASE c \notin clients BY <3>1, <3>3 DEF Remembered
    <3>4. QED BY <3>2, <3>3
  <2>3. QED BY <2>1, <2>2
<1>6. ASSUME NEW kept \in SUBSET Clients, LoadFails(kept) PROVE Accounted
  BY <1>3, <1>6 DEF LoadFails
<1>7. ASSUME NEW kept \in SUBSET Clients, NEW d \in Clients, Register(d, kept)
      PROVE  Accounted
  BY <1>3, <1>7 DEF Register
<1>8. ASSUME NEW kept \in SUBSET Clients, NEW d \in Clients, RegisterFails(d, kept)
      PROVE  Accounted
  BY <1>3, <1>8 DEF RegisterFails
<1>9. ASSUME NEW kept \in SUBSET Clients, RefuseExchange(kept) PROVE Accounted
  <2>1. CASE LookUp(kept) BY <1>4, <2>1
  <2>2. CASE UNCHANGED <<registry, overwritten>> BY <2>2 DEF registry, Remembered
  <2>3. QED BY <1>9, <2>1, <2>2 DEF RefuseExchange
<1>10. CASE Tick
  BY <1>10 DEF Tick, registry, Remembered
<1>11. CASE Restart
  <2>1. stored /\ c \in store
    BY <1>2 DEF Remembered, EntryInv, AcknowledgedIsStored
  <2>2. QED BY <1>11, <2>1 DEF Restart, Remembered
<1>12. CASE UNCHANGED vars
  BY <1>12 DEF vars, registry, Remembered
<1>13. ASSUME NEW kept \in SUBSET Clients, LookUpOnly(kept) PROVE Accounted
  BY <1>4, <1>13 DEF LookUpOnly
<1>14. ASSUME NEW kept \in SUBSET Clients, NEW d \in Clients \cup {EnvClient},
              NEW flow \in Flows, NEW e \in Codes,
              Authorize(d, flow, e, kept) \/ Exchange(d, flow, e, kept)
       PROVE  Accounted
  BY <1>4, <1>14 DEF Authorize, Exchange
<1>15. Accounted
  BY <1>5, <1>6, <1>7, <1>8, <1>9, <1>10, <1>11, <1>12, <1>13, <1>14 DEF Next
<1>16. QED BY <1>15 DEF Accounted

(* Only a registration adds to the acknowledged clients, and it is remembered. *)
LEMMA NewcomersAreRemembered ==
  ASSUME [Next]_vars, NEW c \in acknowledged' \ acknowledged
  PROVE  c \in Remembered'
<1>1. ASSUME NEW kept \in SUBSET Clients, NEW d \in Clients, Register(d, kept)
      PROVE  c \in Remembered'
  BY <1>1 DEF Register, Remembered
<1>2. QED
  BY <1>1 DEF Next, vars, LoadFails, LookUpFails, LookUpOnly, RefuseExchange,
     RegisterFails, Authorize, Exchange, Tick, Restart

LEMMA NextKeepsRecentClients ==
  TypeOK /\ EntryInv /\ KeepsRecentClients /\ [Next]_vars => KeepsRecentClients'
<1> SUFFICES ASSUME TypeOK, EntryInv, KeepsRecentClients, [Next]_vars,
                    NEW c \in acknowledged'
             PROVE  c \in Remembered' \/ Expired(c)' \/ PushedOut(c)' \/ c \in overwritten'
  BY DEF KeepsRecentClients
<1>1. CASE c \notin acknowledged
  BY <1>1, NewcomersAreRemembered
<1>2. CASE c \in acknowledged
  <2>1. c \in Clients /\ created[c] # Nothing
    BY <1>2 DEF TypeOK, EntryInv, Entered
  <2>2. c \in Remembered' \/ Expired(c) \/ PushedOut(c) \/ c \in overwritten'
    <3>1. CASE c \in Remembered BY <1>2, <3>1, ForgottenForAReason
    <3>2. CASE c \in overwritten BY <3>2, HistoryGrows
    <3>3. QED BY <1>2, <3>1, <3>2 DEF KeepsRecentClients
  <2>3. QED BY <2>1, <2>2, ReasonsStay
<1>3. QED BY <1>1, <1>2

(* A client whose registration was acknowledged is forgotten only when it has
   expired, when the limit's worth of others as recent has come, or when its
   entry was overwritten before this process had read it.                      *)
THEOREM RecentClientsAreKept == Spec => []KeepsRecentClients
<1>1. Init => EntryInv /\ KeepsRecentClients
  BY DEF Init, EntryInv, Entered, AcknowledgedIsStored, KeepsRecentClients
<1>2. QED
  BY <1>1, InitTypeOK, NextTypeOK, NextEntryInv, NextKeepsRecentClients, PTL DEF Spec

------------------------------------------------------------------------------
(* Tool calls. *)

Texts   == Calls \cup {Other, None}
Records == [call : Calls, path : Paths \cup {None}, status : {"success", "error"},
            before : Texts, after : Texts]

CallsTypeOK ==
  /\ file \in [Paths -> Texts]
  /\ pc \in [Calls -> {"idle", "run", "record", "over"}]
  /\ kind \in [Calls -> Kinds] /\ named \in [Calls -> SUBSET Paths]
  /\ before \in [Calls -> [Paths -> Texts]]
  /\ outcome \in [Calls -> {"ok", "error", "raise"}]
  /\ failing \in [Calls -> SUBSET Paths]
  /\ left \in [Calls -> SUBSET (Paths \cup {None})]
  /\ pending \in [Calls -> BOOLEAN]
  /\ answer \in [Calls -> {"none", "ok", "error", "exception"}]
  /\ log \subseteq Records
  /\ hooks \subseteq [call : Calls, record : Records \cup {None}]
  /\ wrote \in [Calls -> SUBSET Paths] /\ touched \in [Calls -> SUBSET Paths]
  /\ unlogged \subseteq Calls /\ spoilt \subseteq Calls
  /\ changes \in 0 .. MaxChanges /\ callFaults \in 0 .. MaxCallFaults

(* What a call reports as written. *)
Reported(c) == IF outcome[c] = "ok" THEN named[c] \ failing[c] ELSE {}

RecordedAsWritten(c, p) == \E r \in log : r.call = c /\ r.path = p /\ r.status = "success"
HookRan(c) == \E h \in hooks : h.call = c

(* A call that has not run yet has left nothing behind. *)
NothingYet ==
  \A c \in Calls : pc[c] \in {"idle", "run"} =>
    /\ wrote[c] = {} /\ ~HookRan(c) /\ \A r \in log : r.call # c
    /\ pc[c] = "run" => named[c] # {}

(* What a call sees in its files is what it found or wrote, unless others changed them. *)
OwnTexts ==
  \A c \in Calls : kind[c] \in Mutations /\ Busy(c) =>
    \A p \in named[c] \ touched[c] : file[p] = IF p \in wrote[c] THEN c ELSE before[c][p]

(* A record of success is of a file reported as written, with the texts around the call. *)
RecordsAreTrue ==
  \A c \in Calls : kind[c] \in Mutations /\ pc[c] \in {"record", "over"} =>
    \A r \in log : r.call = c /\ r.status = "success" =>
      /\ r.path \in Reported(c)
      /\ r.path \in wrote[c] => r.after = c \/ r.path \in touched[c]
      /\ r.after # r.before => r.path \in wrote[c] \cup touched[c]

(* While a call is recorded, what has no record yet is left to record, and its hook waits
   for the last of them.                                                                 *)
RestOf(c) ==
  /\ outcome[c] = "ok" => left[c] \subseteq named[c]
  /\ c \notin unlogged => \A p \in Reported(c) : p \in left[c] \/ RecordedAsWritten(c, p)
  /\ left[c] # {} => (pending[c] <=> Reported(c) \cap wrote[c] # {}) /\ ~HookRan(c)
  /\ left[c] = {} => (HookRan(c) <=> Reported(c) \cap wrote[c] # {})

RestIsLeft == \A c \in Calls : kind[c] \in Mutations /\ pc[c] = "record" => RestOf(c)

(* The same when it is over. *)
NothingIsLeft ==
  \A c \in Calls : kind[c] \in Mutations /\ pc[c] = "over" /\ c \notin spoilt =>
    /\ c \notin unlogged => \A p \in Reported(c) : RecordedAsWritten(c, p)
    /\ HookRan(c) <=> Reported(c) \cap wrote[c] # {}

(* A hook is handed the record of its own call, or none. *)
HooksHaveOwnRecord == \A h \in hooks : h.record # None => h.record.call = h.call

LogInv == CallsTypeOK /\ NothingYet /\ OwnTexts /\ RecordsAreTrue /\ RestIsLeft /\ NothingIsLeft
            /\ HooksHaveOwnRecord

------------------------------------------------------------------------------
LEMMA RecordType ==
  ASSUME CallsTypeOK, NEW c \in Calls, NEW p \in Paths \cup {None}
  PROVE  /\ RecordOf(c, p) \in Records
         /\ RecordOf(c, p).call = c /\ RecordOf(c, p).path = p /\ RecordOf(c, p).status = Status(c, p)
<1> DEFINE is == IF Looks(c, p) THEN file[p] ELSE None
           was == IF kind[c] = "read" THEN is ELSE IF p = None THEN None ELSE before[c][p]
           then == IF kind[c] = "read" THEN None ELSE is
<1>1. is \in Texts BY DEF Looks, Texts, CallsTypeOK
<1>2. was \in Texts /\ then \in Texts BY <1>1 DEF CallsTypeOK, Texts
<1>3. Status(c, p) \in {"success", "error"} BY DEF Status
<1>4. RecordOf(c, p) = [call |-> c, path |-> p, status |-> Status(c, p), before |-> was, after |-> then]
  BY DEF RecordOf
<1> HIDE DEF is, was, then
<1>5. QED BY <1>2, <1>3, <1>4 DEF Records

LEMMA InitLogInv == CallsInit => LogInv
<1> SUFFICES ASSUME CallsInit PROVE LogInv
  OBVIOUS
<1>1. CallsTypeOK BY BoundsAssumption DEF CallsInit, CallsTypeOK, Texts, Kinds
<1>2. QED
  BY <1>1 DEF CallsInit, LogInv, NothingYet, OwnTexts, RecordsAreTrue, RestIsLeft, NothingIsLeft,
              HooksHaveOwnRecord, HookRan, Busy

LEMMA NextCallsTypeOK == CallsTypeOK /\ [CallsNext]_callsVars => CallsTypeOK'
<1> SUFFICES ASSUME CallsTypeOK, [CallsNext]_callsVars PROVE CallsTypeOK'
  OBVIOUS
<1> USE BoundsAssumption DEF CallsTypeOK, call, history
<1>1. ASSUME NEW p \in Paths, NEW text \in {None, Other}, ChangeFile(p, text) PROVE CallsTypeOK'
  BY <1>1 DEF ChangeFile, Texts
<1>2. ASSUME NEW c \in Calls, NEW k \in Kinds, NEW paths \in SUBSET Paths, Begin(c, k, paths)
      PROVE  CallsTypeOK'
  <2>1. [p \in Paths |-> IF k \in Mutations /\ p \in paths THEN file[p] ELSE None] \in [Paths -> Texts]
    BY DEF Texts
  <2>2. before' \in [Calls -> [Paths -> Texts]] BY <1>2, <2>1 DEF Begin
  <2>3. QED BY <1>2, <2>2 DEF Begin
<1>3. ASSUME NEW c \in Calls, NEW how \in {"ok", "error", "raise"}, NEW writes \in SUBSET Paths,
             NEW fails \in SUBSET Paths, Run(c, how, writes, fails)
      PROVE  CallsTypeOK'
  <2>1. ToRecord(c, how) \in SUBSET (Paths \cup {None}) BY DEF ToRecord
  <2>2. file' \in [Paths -> Texts] BY <1>3 DEF Run, Texts
  <2>3. touched' \in [Calls -> SUBSET Paths] /\ wrote' \in [Calls -> SUBSET Paths] BY <1>3 DEF Run
  <2>4. pending' \in [Calls -> BOOLEAN] BY <1>3 DEF Run
  <2>5. left' \in [Calls -> SUBSET (Paths \cup {None})] BY <1>3, <2>1 DEF Run
  <2>6. QED BY <1>3, <2>2, <2>3, <2>4, <2>5 DEF Run
<1>4. ASSUME NEW c \in Calls, NEW p \in Paths \cup {None}, AppendRecord(c, p) PROVE CallsTypeOK'
  <2>1. RecordOf(c, p) \in Records BY RecordType
  <2>2. log' \subseteq Records /\ unlogged' \subseteq Calls /\ callFaults' \in 0 .. MaxCallFaults
    BY <1>4, <2>1 DEF AppendRecord, Fault
  <2>3. hooks' \subseteq [call : Calls, record : Records \cup {None}]
    BY <1>4, <2>1 DEF AppendRecord
  <2>4. pending' \in [Calls -> BOOLEAN] /\ left' \in [Calls -> SUBSET (Paths \cup {None})]
    BY <1>4 DEF AppendRecord
  <2>5. QED BY <1>4, <2>2, <2>3, <2>4 DEF AppendRecord
<1>5. ASSUME NEW c \in Calls, Finish(c) PROVE CallsTypeOK'
  BY <1>5 DEF Finish
<1>6. ASSUME NEW c \in Calls, SnapshotRaises(c) PROVE CallsTypeOK'
  BY <1>6 DEF SnapshotRaises, Fault
<1>7. CASE UNCHANGED callsVars
  BY <1>7 DEF callsVars
<1> HIDE DEF CallsTypeOK
<1>8. QED BY <1>1, <1>2, <1>3, <1>4, <1>5, <1>6, <1>7 DEF CallsNext

(* What one append adds to the records and the hooks. *)
LEMMA AppendAdds ==
  ASSUME CallsTypeOK, NEW c \in Calls, NEW p \in Paths \cup {None}, AppendRecord(c, p)
  PROVE  /\ \A r \in log' : r \in log \/ r = RecordOf(c, p)
         /\ log \subseteq log' /\ hooks \subseteq hooks'
         /\ \A h \in hooks' : h \in hooks \/ (h.call = c /\ (h.record # None => h.record.call = c))
         /\ c \in unlogged' \/ RecordOf(c, p) \in log'
         /\ \A d \in Calls \ {c} : d \in unlogged' <=> d \in unlogged
         /\ unlogged \subseteq unlogged'
<1>1. RecordOf(c, p).call = c BY RecordType
<1>2. QED BY <1>1 DEF AppendRecord

LEMMA NextNothingYet == CallsTypeOK /\ NothingYet /\ [CallsNext]_callsVars => NothingYet'
<1> SUFFICES ASSUME CallsTypeOK, NothingYet, [CallsNext]_callsVars PROVE NothingYet'
  OBVIOUS
<1> USE DEF CallsTypeOK, call, history, NothingYet, HookRan
<1>1. ASSUME NEW p \in Paths, NEW text \in {None, Other}, ChangeFile(p, text) PROVE NothingYet'
  BY <1>1 DEF ChangeFile
<1>2. ASSUME NEW c \in Calls, NEW k \in Kinds, NEW paths \in SUBSET Paths, Begin(c, k, paths)
      PROVE  NothingYet'
  BY <1>2 DEF Begin
<1>3. ASSUME NEW c \in Calls, NEW how \in {"ok", "error", "raise"}, NEW writes \in SUBSET Paths,
             NEW fails \in SUBSET Paths, Run(c, how, writes, fails)
      PROVE  NothingYet'
  BY <1>3 DEF Run
<1>4. ASSUME NEW c \in Calls, NEW p \in Paths \cup {None}, AppendRecord(c, p) PROVE NothingYet'
  <2>1. RecordOf(c, p).call = c BY RecordType
  <2>2. pc' = pc /\ wrote' = wrote /\ named' = named /\ pc[c] = "record" BY <1>4 DEF AppendRecord
  <2>3. QED BY <1>4, <2>1, <2>2, AppendAdds
<1>5. ASSUME NEW c \in Calls, Finish(c) \/ SnapshotRaises(c) PROVE NothingYet'
  BY <1>5 DEF Finish, SnapshotRaises
<1>6. CASE UNCHANGED callsVars
  BY <1>6 DEF callsVars
<1> HIDE DEF CallsTypeOK, NothingYet
<1>7. QED BY <1>1, <1>2, <1>3, <1>4, <1>5, <1>6 DEF CallsNext

LEMMA NextOwnTexts == CallsTypeOK /\ NothingYet /\ OwnTexts /\ [CallsNext]_callsVars => OwnTexts'
<1> SUFFICES ASSUME CallsTypeOK, NothingYet, OwnTexts, [CallsNext]_callsVars PROVE OwnTexts'
  OBVIOUS
<1> USE DEF CallsTypeOK, call, history, OwnTexts, Busy
<1>1. ASSUME NEW p \in Paths, NEW text \in {None, Other}, ChangeFile(p, text) PROVE OwnTexts'
  BY <1>1 DEF ChangeFile
<1>2. ASSUME NEW c \in Calls, NEW k \in Kinds, NEW paths \in SUBSET Paths, Begin(c, k, paths)
      PROVE  OwnTexts'
  <2>1. wrote[c] = {} BY <1>2 DEF Begin, NothingYet
  <2>2. QED BY <1>2, <2>1 DEF Begin
<1>3. ASSUME NEW c \in Calls, NEW how \in {"ok", "error", "raise"}, NEW writes \in SUBSET Paths,
             NEW fails \in SUBSET Paths, Run(c, how, writes, fails)
      PROVE  OwnTexts'
  <2>1. wrote[c] = {} BY <1>3 DEF Run, NothingYet
  <2>2. QED BY <1>3, <2>1 DEF Run
<1>4. ASSUME NEW c \in Calls, NEW p \in Paths \cup {None}, AppendRecord(c, p) PROVE OwnTexts'
  BY <1>4 DEF AppendRecord
<1>5. ASSUME NEW c \in Calls, Finish(c) \/ SnapshotRaises(c) PROVE OwnTexts'
  BY <1>5 DEF Finish, SnapshotRaises
<1>6. CASE UNCHANGED callsVars
  BY <1>6 DEF callsVars
<1> HIDE DEF CallsTypeOK, OwnTexts
<1>7. QED BY <1>1, <1>2, <1>3, <1>4, <1>5, <1>6 DEF CallsNext

(* A record of success of a mutation: of what it reported as written, with the text the file
   has by now after it and the one it had before the call before it.                         *)
LEMMA SuccessRecord ==
  ASSUME CallsTypeOK, OwnTexts, RestIsLeft, NEW c \in Calls, NEW p \in Paths \cup {None},
         kind[c] \in Mutations, AppendRecord(c, p), RecordOf(c, p).status = "success"
  PROVE  /\ p \in Reported(c)
         /\ p \in wrote[c] => RecordOf(c, p).after = c \/ p \in touched[c]
         /\ RecordOf(c, p).after # RecordOf(c, p).before => p \in wrote[c] \cup touched[c]
<1>1. pc[c] = "record" /\ p \in left[c] /\ kind[c] \in Mutations BY DEF AppendRecord
<1>2. Status(c, p) = "success" BY RecordType
<1>3. outcome[c] = "ok" /\ p \notin failing[c] BY <1>2 DEF Status
<1>4. p \in named[c] /\ p \in Paths BY <1>1, <1>3 DEF RestIsLeft, RestOf, CallsTypeOK
<1>5. p # None BY <1>4, CallsAssumption
<1>6. kind[c] # "read" BY DEF Mutations
<1>7. Looks(c, p) BY <1>2, <1>5, <1>6 DEF Looks
<1>8. RecordOf(c, p).after = file[p] /\ RecordOf(c, p).before = before[c][p]
  BY <1>5, <1>6, <1>7 DEF RecordOf
<1>9. p \notin touched[c] => file[p] = IF p \in wrote[c] THEN c ELSE before[c][p]
  BY <1>1, <1>4 DEF OwnTexts, Busy
<1>10. QED BY <1>3, <1>4, <1>8, <1>9 DEF Reported

LEMMA NextRecordsAreTrue ==
  CallsTypeOK /\ NothingYet /\ OwnTexts /\ RestIsLeft /\ RecordsAreTrue /\ [CallsNext]_callsVars => RecordsAreTrue'
<1> SUFFICES ASSUME CallsTypeOK, NothingYet, OwnTexts, RestIsLeft, RecordsAreTrue, [CallsNext]_callsVars
             PROVE  RecordsAreTrue'
  OBVIOUS
<1> USE DEF CallsTypeOK, call, history, RecordsAreTrue, Reported
<1>1. ASSUME NEW p \in Paths, NEW text \in {None, Other}, ChangeFile(p, text) PROVE RecordsAreTrue'
  BY <1>1 DEF ChangeFile
<1>2. ASSUME NEW c \in Calls, NEW k \in Kinds, NEW paths \in SUBSET Paths, Begin(c, k, paths)
      PROVE  RecordsAreTrue'
  BY <1>2 DEF Begin
<1>3. ASSUME NEW c \in Calls, NEW how \in {"ok", "error", "raise"}, NEW writes \in SUBSET Paths,
             NEW fails \in SUBSET Paths, Run(c, how, writes, fails)
      PROVE  RecordsAreTrue'
  <2>1. \A r \in log : r.call # c BY <1>3 DEF Run, NothingYet
  <2>2. kind' = kind /\ named' = named /\ log' = log BY <1>3 DEF Run
  <2>3. ASSUME NEW d \in Calls, d # c
        PROVE  /\ outcome'[d] = outcome[d] /\ failing'[d] = failing[d] /\ wrote'[d] = wrote[d]
               /\ pc'[d] = pc[d] /\ touched[d] \subseteq touched'[d]
    BY <1>3, <2>3 DEF Run
  <2>4. ASSUME NEW d \in Calls, kind'[d] \in Mutations, pc'[d] \in {"record", "over"},
               NEW r \in log', r.call = d, r.status = "success"
        PROVE  /\ r.path \in Reported(d)'
               /\ r.path \in wrote'[d] => r.after = d \/ r.path \in touched'[d]
               /\ r.after # r.before => r.path \in wrote'[d] \cup touched'[d]
    <3>1. d # c /\ r \in log BY <2>1, <2>2, <2>4
    <3>2. /\ outcome'[d] = outcome[d] /\ failing'[d] = failing[d] /\ wrote'[d] = wrote[d]
          /\ kind[d] \in Mutations /\ pc[d] \in {"record", "over"}
          /\ touched[d] \subseteq touched'[d]
      BY <2>2, <2>3, <2>4, <3>1
    <3>3. QED BY <2>2, <2>4, <3>1, <3>2
  <2>5. QED BY <2>4
<1>4. ASSUME NEW c \in Calls, NEW p \in Paths \cup {None}, AppendRecord(c, p) PROVE RecordsAreTrue'
  <2>1. UNCHANGED <<pc, kind, named, outcome, failing, wrote, touched>> BY <1>4 DEF AppendRecord
  <2>2. RecordOf(c, p).call = c /\ RecordOf(c, p).path = p BY RecordType
  <2>3. ASSUME NEW d \in Calls, kind[d] \in Mutations, pc[d] \in {"record", "over"},
               NEW r \in log', r.call = d, r.status = "success"
        PROVE  /\ r.path \in Reported(d)
               /\ r.path \in wrote[d] => r.after = d \/ r.path \in touched[d]
               /\ r.after # r.before => r.path \in wrote[d] \cup touched[d]
    <3>1. CASE r \in log BY <2>3, <3>1
    <3>2. CASE r = RecordOf(c, p)
      <4>1. d = c BY <2>2, <2>3, <3>2
      <4>2. QED BY <1>4, <2>2, <2>3, <3>2, <4>1, SuccessRecord
    <3>3. QED BY <1>4, <3>1, <3>2, AppendAdds
  <2>4. QED BY <2>1, <2>3
<1>5. ASSUME NEW c \in Calls, Finish(c) PROVE RecordsAreTrue'
  BY <1>5 DEF Finish
<1>6. ASSUME NEW c \in Calls, SnapshotRaises(c) PROVE RecordsAreTrue'
  BY <1>6 DEF SnapshotRaises, NothingYet
<1>7. CASE UNCHANGED callsVars
  BY <1>7 DEF callsVars
<1> HIDE DEF CallsTypeOK, RecordsAreTrue
<1>8. QED BY <1>1, <1>2, <1>3, <1>4, <1>5, <1>6, <1>7 DEF CallsNext

(* The last append of a mutation runs its hook; the others leave it waiting. *)
LEMMA LastAppendRuns ==
  ASSUME CallsTypeOK, NEW c \in Calls, NEW p \in Paths \cup {None}, AppendRecord(c, p),
         kind[c] \in Mutations, ~HookRan(c)
  PROVE  /\ left'[c] # {} => (pending'[c] <=> pending[c]) /\ ~HookRan(c)'
         /\ left'[c] = {} => (HookRan(c)' <=> pending[c])
<1>1. p \in left[c] /\ left' = [left EXCEPT ![c] = @ \ {p}] BY DEF AppendRecord
<1>2. CASE left[c] = {p}
  <2>1. left'[c] = {} BY <1>1, <1>2 DEF CallsTypeOK
  <2>2. CASE pending[c]
    <3>1. hooks' = hooks \cup {[call |-> c, record |-> IF kind[c] = "batch" THEN None
                                                       ELSE RecordOf(c, p)]}
      BY <1>2, <2>2 DEF AppendRecord
    <3>2. [call |-> c, record |-> IF kind[c] = "batch" THEN None ELSE RecordOf(c, p)] \in hooks'
      BY <3>1
    <3>3. ASSUME NEW record, [call |-> c, record |-> record] \in hooks' PROVE HookRan(c)'
      <4>1. [call |-> c, record |-> record].call = c OBVIOUS
      <4>2. QED BY <3>3, <4>1 DEF HookRan
    <3>4. HookRan(c)' BY <3>2, <3>3
    <3>5. QED BY <2>1, <2>2, <3>4
  <2>3. CASE ~pending[c]
    <3>1. hooks' = hooks BY <1>2, <2>3 DEF AppendRecord
    <3>2. QED BY <2>1, <2>3, <3>1 DEF HookRan
  <2>4. QED BY <2>2, <2>3
<1>3. CASE left[c] # {p}
  <2>1. left'[c] # {} BY <1>1, <1>3 DEF CallsTypeOK
  <2>2. hooks' = hooks /\ pending' = pending BY <1>3 DEF AppendRecord
  <2>3. QED BY <2>1, <2>2 DEF HookRan
<1>4. QED BY <1>2, <1>3

LEMMA RestStays ==
  ASSUME NEW d \in Calls, RestOf(d), outcome'[d] = outcome[d], named'[d] = named[d],
         failing'[d] = failing[d], left'[d] = left[d], pending'[d] <=> pending[d],
         wrote'[d] = wrote[d], HookRan(d)' <=> HookRan(d), log \subseteq log',
         d \in unlogged' <=> d \in unlogged
  PROVE  RestOf(d)'
<1>1. Reported(d)' = Reported(d) BY DEF Reported
<1>2. \A p : RecordedAsWritten(d, p) => RecordedAsWritten(d, p)' BY DEF RecordedAsWritten
<1>3. QED BY <1>1, <1>2 DEF RestOf

LEMMA NextRestIsLeft == CallsTypeOK /\ NothingYet /\ RestIsLeft /\ [CallsNext]_callsVars => RestIsLeft'
<1> SUFFICES ASSUME CallsTypeOK, NothingYet, RestIsLeft, [CallsNext]_callsVars PROVE RestIsLeft'
  OBVIOUS
<1> SUFFICES ASSUME NEW d \in Calls, kind'[d] \in Mutations, pc'[d] = "record" PROVE RestOf(d)'
  BY DEF RestIsLeft
<1> USE DEF call, history
<1>1. ASSUME NEW p \in Paths, NEW text \in {None, Other}, ChangeFile(p, text) PROVE RestOf(d)'
  BY <1>1, RestStays DEF ChangeFile, HookRan, RestIsLeft
<1>2. ASSUME NEW c \in Calls, NEW k \in Kinds, NEW paths \in SUBSET Paths, Begin(c, k, paths)
      PROVE  RestOf(d)'
  <2>1. c # d BY <1>2 DEF Begin, CallsTypeOK
  <2>2. QED BY <1>2, <2>1, RestStays DEF Begin, HookRan, RestIsLeft, CallsTypeOK
<1>3. ASSUME NEW c \in Calls, NEW how \in {"ok", "error", "raise"}, NEW writes \in SUBSET Paths,
             NEW fails \in SUBSET Paths, Run(c, how, writes, fails)
      PROVE  RestOf(d)'
  <2>1. CASE c # d
    BY <1>3, <2>1, RestStays DEF Run, HookRan, RestIsLeft, CallsTypeOK
  <2>2. CASE c = d
    <3>1. named[c] # {} /\ ~HookRan(c)' BY <1>3 DEF Run, NothingYet, HookRan
    <3>2. kind[c] \in Mutations BY <1>3, <2>2 DEF Run
    <3>3. (how = "ok" => ToRecord(c, how) = named[c]) /\ ToRecord(c, how) # {}
      BY <3>1, <3>2 DEF ToRecord, Audited, Mutations
    <3>4. /\ left'[c] = ToRecord(c, how) /\ outcome'[c] = how /\ failing'[c] = fails
          /\ wrote'[c] = writes /\ (pending'[c] <=> writes \ fails # {}) /\ named' = named
      BY <1>3 DEF Run, CallsTypeOK
    <3>5. writes \subseteq named[c] /\ (how # "ok" => fails = named[c])
      BY <1>3, <3>2 DEF Run, Mutations
    <3>6. Reported(c)' = IF how = "ok" THEN named[c] \ fails ELSE {} BY <3>4 DEF Reported
    <3>7. Reported(c)' \cap wrote'[c] = writes \ fails BY <3>4, <3>5, <3>6
    <3>8. \A p \in Reported(c)' : p \in left'[c] BY <3>3, <3>4, <3>6
    <3>9. QED BY <2>2, <3>1, <3>3, <3>4, <3>7, <3>8 DEF RestOf
  <2>3. QED BY <2>1, <2>2
<1>4. ASSUME NEW c \in Calls, NEW p \in Paths \cup {None}, AppendRecord(c, p) PROVE RestOf(d)'
  <2>1. UNCHANGED <<pc, kind, named, outcome, failing, wrote>> /\ pc[c] = "record" BY <1>4 DEF AppendRecord
  <2>2. /\ left' = [left EXCEPT ![c] = @ \ {p}] /\ p \in left[c]
        /\ left'[c] = left[c] \ {p} /\ \A e \in Calls \ {c} : left'[e] = left[e]
    BY <1>4 DEF AppendRecord, CallsTypeOK
  <2>3. RestOf(d) BY <2>1 DEF RestIsLeft
  <2>4. CASE c # d
    <3>1. pending'[d] <=> pending[d] BY <1>4, <2>4 DEF AppendRecord, CallsTypeOK
    <3>2. HookRan(d)' <=> HookRan(d) BY <1>4, <2>4, AppendAdds DEF HookRan
    <3>3. (d \in unlogged' <=> d \in unlogged) /\ log \subseteq log' BY <1>4, <2>4, AppendAdds
    <3>4. QED BY <2>1, <2>2, <2>3, <2>4, <3>1, <3>2, <3>3, RestStays
  <2>5. CASE c = d
    <3>0. kind[c] \in Mutations BY <2>1, <2>5
    <3>1. Reported(c)' = Reported(c) BY <2>1 DEF Reported
    <3>2. outcome'[c] = "ok" => left'[c] \subseteq named'[c] BY <2>1, <2>2, <2>3, <2>5 DEF RestOf
    <3>3. ASSUME c \notin unlogged', NEW q \in Reported(c) PROVE q \in left'[c] \/ RecordedAsWritten(c, q)'
      <4>1. c \notin unlogged /\ log \subseteq log' /\ RecordOf(c, p) \in log'
        BY <1>4, <3>3, AppendAdds
      <4>2. q \in left[c] \/ RecordedAsWritten(c, q) BY <2>3, <2>5, <4>1 DEF RestOf
      <4>3. CASE q = p
        <5>1. Status(c, p) = "success" BY <3>3, <4>3 DEF Status, Reported
        <5>2. QED BY <4>1, <4>3, <5>1, RecordType DEF RecordedAsWritten
      <4>4. CASE RecordedAsWritten(c, q) BY <4>1, <4>4 DEF RecordedAsWritten
      <4>5. QED BY <2>2, <4>2, <4>3, <4>4
    <3>4. ~HookRan(c) /\ (pending[c] <=> Reported(c) \cap wrote[c] # {})
      BY <2>2, <2>3, <2>5 DEF RestOf
    <3>5. /\ left'[c] # {} => (pending'[c] <=> pending[c]) /\ ~HookRan(c)'
          /\ left'[c] = {} => (HookRan(c)' <=> pending[c])
      BY <1>4, <3>0, <3>4, LastAppendRuns
    <3>6. QED BY <2>1, <2>5, <3>1, <3>2, <3>3, <3>4, <3>5 DEF RestOf
  <2>6. QED BY <2>4, <2>5
<1>5. ASSUME NEW c \in Calls, Finish(c) \/ SnapshotRaises(c) PROVE RestOf(d)'
  <2>1. c # d BY <1>5 DEF Finish, SnapshotRaises, CallsTypeOK
  <2>2. /\ kind' = kind /\ outcome' = outcome /\ named' = named /\ failing' = failing /\ left' = left
        /\ wrote' = wrote /\ hooks' = hooks /\ log' = log /\ unlogged' = unlogged
    BY <1>5 DEF Finish, SnapshotRaises
  <2>3. pc'[d] = pc[d] /\ (pending'[d] <=> pending[d]) BY <1>5, <2>1 DEF Finish, SnapshotRaises, CallsTypeOK
  <2>4. RestOf(d) BY <2>2, <2>3 DEF RestIsLeft
  <2>5. HookRan(d)' <=> HookRan(d) BY <2>2 DEF HookRan
  <2>6. QED BY <2>2, <2>3, <2>4, <2>5, RestStays
<1>6. CASE UNCHANGED callsVars
  BY <1>6, RestStays DEF callsVars, HookRan, RestIsLeft
<1>7. QED BY <1>1, <1>2, <1>3, <1>4, <1>5, <1>6 DEF CallsNext

LEMMA NextNothingIsLeft ==
  CallsTypeOK /\ NothingYet /\ RestIsLeft /\ NothingIsLeft /\ [CallsNext]_callsVars => NothingIsLeft'
<1> SUFFICES ASSUME CallsTypeOK, NothingYet, RestIsLeft, NothingIsLeft, [CallsNext]_callsVars PROVE NothingIsLeft'
  OBVIOUS
<1> DEFINE Gone(c) == kind[c] \in Mutations /\ pc[c] = "over" /\ c \notin spoilt
           Settled(c) == /\ c \notin unlogged => \A p \in Reported(c) : RecordedAsWritten(c, p)
                         /\ HookRan(c) <=> Reported(c) \cap wrote[c] # {}
<1>0. \A c \in Calls : Gone(c) => Settled(c) BY DEF NothingIsLeft
<1> SUFFICES ASSUME NEW d \in Calls, Gone(d)' PROVE Settled(d)'
  BY DEF NothingIsLeft
<1>1. ASSUME Settled(d), outcome'[d] = outcome[d], named'[d] = named[d], failing'[d] = failing[d],
             wrote'[d] = wrote[d], HookRan(d)' <=> HookRan(d), log \subseteq log',
             d \in unlogged' <=> d \in unlogged
      PROVE  Settled(d)'
  <2>1. Reported(d)' = Reported(d) BY <1>1 DEF Reported
  <2>2. \A p : RecordedAsWritten(d, p) => RecordedAsWritten(d, p)' BY <1>1 DEF RecordedAsWritten
  <2>3. QED BY <1>1, <2>1, <2>2
<1>2. ASSUME Gone(d), outcome' = outcome, named'[d] = named[d], failing' = failing,
             wrote'[d] = wrote[d], hooks' = hooks, log' = log, unlogged' = unlogged
      PROVE  Settled(d)'
  <2>1. HookRan(d)' <=> HookRan(d) BY <1>2 DEF HookRan
  <2>2. Settled(d) BY <1>0, <1>2
  <2>3. QED BY <1>1, <1>2, <2>1, <2>2
<1>3. ASSUME NEW p \in Paths, NEW text \in {None, Other}, ChangeFile(p, text) PROVE Settled(d)'
  BY <1>2, <1>3 DEF ChangeFile, call
<1>4. ASSUME NEW c \in Calls, NEW k \in Kinds, NEW paths \in SUBSET Paths, Begin(c, k, paths)
      PROVE  Settled(d)'
  <2>1. c # d BY <1>4 DEF Begin, CallsTypeOK
  <2>2. QED BY <1>2, <1>4, <2>1 DEF Begin, CallsTypeOK, history
<1>5. ASSUME NEW c \in Calls, NEW how \in {"ok", "error", "raise"}, NEW writes \in SUBSET Paths,
             NEW fails \in SUBSET Paths, Run(c, how, writes, fails)
      PROVE  Settled(d)'
  <2>1. c # d BY <1>5 DEF Run, CallsTypeOK
  <2>2. /\ Gone(d) /\ outcome'[d] = outcome[d] /\ named'[d] = named[d] /\ failing'[d] = failing[d]
        /\ wrote'[d] = wrote[d] /\ log' = log /\ unlogged' = unlogged
    BY <1>5, <2>1 DEF Run, CallsTypeOK
  <2>3. HookRan(d)' <=> HookRan(d) BY <1>5 DEF Run, HookRan
  <2>4. Settled(d) BY <1>0, <2>2
  <2>5. QED BY <1>1, <2>2, <2>3, <2>4
<1>6. ASSUME NEW c \in Calls, NEW p \in Paths \cup {None}, AppendRecord(c, p) PROVE Settled(d)'
  <2>1. c # d BY <1>6 DEF AppendRecord
  <2>2. /\ Gone(d) /\ outcome'[d] = outcome[d] /\ named'[d] = named[d] /\ failing'[d] = failing[d]
        /\ wrote'[d] = wrote[d]
    BY <1>6 DEF AppendRecord
  <2>3. HookRan(d)' <=> HookRan(d) BY <1>6, <2>1, AppendAdds DEF HookRan
  <2>4. log \subseteq log' /\ (d \in unlogged' <=> d \in unlogged) BY <1>6, <2>1, AppendAdds
  <2>5. Settled(d) BY <1>0, <2>2
  <2>6. QED BY <1>1, <2>2, <2>3, <2>4, <2>5
<1>7. ASSUME NEW c \in Calls, Finish(c) PROVE Settled(d)'
  <2>1. /\ outcome' = outcome /\ named' = named /\ failing' = failing /\ wrote' = wrote
        /\ hooks' = hooks /\ log' = log /\ unlogged' = unlogged /\ kind' = kind /\ spoilt' = spoilt
    BY <1>7 DEF Finish, history
  <2>2. CASE c = d
    <3>1. pc[d] = "record" /\ left[d] = {} BY <1>7, <2>2 DEF Finish
    <3>2. RestOf(d) BY <2>1, <3>1 DEF RestIsLeft
    <3>3. Settled(d) BY <3>1, <3>2 DEF RestOf
    <3>4. HookRan(d)' <=> HookRan(d) BY <2>1 DEF HookRan
    <3>5. QED BY <1>1, <2>1, <3>3, <3>4
  <2>3. CASE c # d
    <3>1. Gone(d) BY <1>7, <2>1, <2>3 DEF Finish, CallsTypeOK
    <3>2. QED BY <1>2, <2>1, <3>1
  <2>4. QED BY <2>2, <2>3
<1>8. ASSUME NEW c \in Calls, SnapshotRaises(c) PROVE Settled(d)'
  <2>1. c # d BY <1>8 DEF SnapshotRaises
  <2>2. QED BY <1>2, <1>8, <2>1 DEF SnapshotRaises, CallsTypeOK
<1>9. CASE UNCHANGED callsVars
  BY <1>2, <1>9 DEF callsVars, call, history
<1> HIDE DEF Settled, Gone
<1>10. QED BY <1>3, <1>4, <1>5, <1>6, <1>7, <1>8, <1>9 DEF CallsNext

LEMMA NextHooks == CallsTypeOK /\ HooksHaveOwnRecord /\ [CallsNext]_callsVars => HooksHaveOwnRecord'
<1> SUFFICES ASSUME CallsTypeOK, HooksHaveOwnRecord, [CallsNext]_callsVars PROVE HooksHaveOwnRecord'
  OBVIOUS
<1> USE DEF HooksHaveOwnRecord
<1>1. ASSUME NEW c \in Calls, NEW p \in Paths \cup {None}, AppendRecord(c, p) PROVE HooksHaveOwnRecord'
  BY <1>1, AppendAdds
<1>2. CASE hooks' = hooks
  BY <1>2
<1>3. QED
  BY <1>1, <1>2 DEF CallsNext, callsVars, call, history, ChangeFile, Begin, Run, Finish, SnapshotRaises

LEMMA NextLogInv == LogInv /\ [CallsNext]_callsVars => LogInv'
BY NextCallsTypeOK, NextNothingYet, NextOwnTexts, NextRecordsAreTrue, NextRestIsLeft, NextNothingIsLeft,
   NextHooks DEF LogInv

(* The state keeps to its types, whatever the calls name and others change. *)
THEOREM CallsTypeCorrect == CallsSpec => []CallsTypeOK
BY InitLogInv, NextLogInv, PTL DEF CallsSpec, LogInv

(* The audit log has a record of success of each path a call reports as written, and of no
   other, with the texts around the call; and the hook of a call that wrote has started.   *)
THEOREM WritesAccounted == CallsSpec => []LogAccountsForWrites
<1>1. LogInv => LogAccountsForWrites
  <2> SUFFICES ASSUME LogInv, NEW c \in Calls, pc[c] = "over", kind[c] \in Mutations, c \notin spoilt
      PROVE  LET mine == {r \in log : r.call = c}
                 done == IF outcome[c] = "ok" THEN named[c] \ failing[c] ELSE {} IN
             /\ c \notin unlogged => {r.path : r \in {s \in mine : s.status = "success"}} = done
             /\ \A r \in mine : r.path # None =>
                  /\ r.status = "success" => r.path \in done
                  /\ r.status = "success" /\ r.path \in wrote[c] => r.after = c \/ r.path \in touched[c]
                  /\ r.status = "success" /\ r.after # r.before => r.path \in wrote[c] \cup touched[c]
             /\ done \cap wrote[c] # {} <=> \E h \in hooks : h.call = c
             /\ \A h \in hooks : h.call = c /\ h.record # None => h.record.call = c
    BY DEF LogAccountsForWrites
  <2>1. \A r \in log : r.call = c /\ r.status = "success" =>
          /\ r.path \in Reported(c)
          /\ r.path \in wrote[c] => r.after = c \/ r.path \in touched[c]
          /\ r.after # r.before => r.path \in wrote[c] \cup touched[c]
    BY DEF LogInv, RecordsAreTrue
  <2>2. c \notin unlogged => \A p \in Reported(c) : RecordedAsWritten(c, p)
    BY DEF LogInv, NothingIsLeft
  <2>3. HookRan(c) <=> Reported(c) \cap wrote[c] # {}
    BY DEF LogInv, NothingIsLeft
  <2>4. \A h \in hooks : h.record # None => h.record.call = h.call
    BY DEF LogInv, HooksHaveOwnRecord
  <2>5. c \notin unlogged =>
          {r.path : r \in {s \in {q \in log : q.call = c} : s.status = "success"}} = Reported(c)
    BY <2>1, <2>2 DEF RecordedAsWritten
  <2>6. QED BY <2>1, <2>3, <2>4, <2>5 DEF Reported, HookRan
<1>2. QED BY <1>1, InitLogInv, NextLogInv, PTL DEF CallsSpec
==============================================================================
