----------------------- MODULE WebSocketChannelProofs -----------------------
(***************************************************************************)
(* Proofs about WebSocketChannel for every number of connections, devices, *)
(* profiles, requests and every value of the limits.                       *)
(***************************************************************************)
EXTENDS WebSocketChannel, FiniteSetTheorems, SequenceTheorems, TLAPS

(* A coroutine that handles a press knows its request. *)
PressGiven ==
  \A c \in Conns : pc[c] \in {"checking", "reading", "executing"}
                    => press[c].request \in Requests

USE DEF StoreTypeOK, CredentialTypeOK, Gone, storeVars, credentialVars, coroutineVars,
        routeVars, managerVars, deviceVars, historyVars

(* _cache_response keeps the answers a sequence of requests. *)
LEMMA RememberType ==
  ASSUME ChannelTypeOK, NEW c \in Conns, NEW r \in Requests, Remember(c, r)
  PROVE  session' \in [Conns -> Sessions]
<1> DEFINE old == session[c].responses
           kept == IF Len(old) >= MaxCachedResponses THEN Tail(old) ELSE old
<1>1. old \in Seq(Requests) /\ Len(old) \in Nat
  BY DEF ChannelTypeOK, Sessions
<1>2. MaxCachedResponses \in Nat /\ MaxCachedResponses >= 1
  BY ChannelAssumption
<1>3. kept \in Seq(Requests)
  <2>1. CASE Len(old) >= MaxCachedResponses
    <3> HIDE DEF old
    <3>1. old = <<>> => Len(old) = 0
      OBVIOUS
    <3>2. old # <<>>
      BY <1>1, <1>2, <2>1, <3>1
    <3>3. QED BY <1>1, <2>1, <3>2, HeadTailProperties
  <2>2. CASE ~(Len(old) >= MaxCachedResponses)
    BY <1>1, <2>2
  <2>3. QED BY <2>1, <2>2
<1>4. Append(kept, r) \in Seq(Requests)
  BY <1>3, AppendProperties
<1>5. session' = [session EXCEPT ![c].responses = Append(kept, r)]
  BY DEF Remember
<1> HIDE DEF kept
<1> DEFINE answered == [session[c] EXCEPT !.responses = Append(kept, r)]
<1>6. session \in [Conns -> Sessions]
  BY DEF ChannelTypeOK
<1>7. session[c] \in Sessions
  BY <1>6
<1>8. answered \in Sessions
  BY <1>4, <1>7 DEF Sessions
<1>9. session' = [session EXCEPT ![c] = answered]
  BY <1>5
<1> HIDE DEF answered
<1>10. QED BY <1>6, <1>8, <1>9

LEMMA AnsweredType ==
  ASSUME ChannelTypeOK, NEW c \in Conns, NEW r, Answered(c, r)
  PROVE  newer' \in [Conns -> Ages]
<1>1. MaxCachedResponses \in Nat \ {0}
  BY ChannelAssumption
<1>2. newer[c] \in [Requests -> 0..MaxCachedResponses]
  BY DEF ChannelTypeOK, Ages
<1>3. [q \in Requests |-> IF q = r THEN 0
                          ELSE IF newer[c][q] < MaxCachedResponses THEN newer[c][q] + 1
                          ELSE newer[c][q]] \in [Requests -> 0..MaxCachedResponses]
  BY <1>1, <1>2
<1>4. QED BY <1>3 DEF Answered, ChannelTypeOK, Ages

LEMMA HandshakeType ==
  ASSUME ChannelTypeOK, NEW c \in Conns, Handshake(c)
  PROVE  ChannelTypeOK'
<1> USE DEF ChannelTypeOK, UNCHANGEDbyHandshake, Goto, Close, Locations
<1>1. CASE HandshakeFails(c)
  BY <1>1 DEF HandshakeFails
<1>2. CASE Authenticate(c)
  <2> DEFINE known == [session[c] EXCEPT !.generation = token[session[c].client]]
  <2>1. session[c] \in Sessions
    OBVIOUS
  <2>2. known \in Sessions
    BY <2>1 DEF Sessions
  <2>3. session' = [session EXCEPT ![c] = known]
    BY <1>2 DEF Authenticate
  <2>4. session' \in [Conns -> Sessions]
    <3> HIDE DEF known
    <3>1. QED BY <2>2, <2>3
  <2>5. QED BY <1>2, <2>4 DEF Authenticate
<1>3. ASSUME NEW p \in Profiles, LoadProfile(c, p) PROVE ChannelTypeOK'
  <2> DEFINE loaded == [session[c] EXCEPT !.profile = p]
  <2>1. session[c] \in Sessions
    OBVIOUS
  <2>2. loaded \in Sessions
    BY <2>1 DEF Sessions
  <2>3. session' = [session EXCEPT ![c] = loaded]
    BY <1>3 DEF LoadProfile
  <2>4. session' \in [Conns -> Sessions]
    <3> HIDE DEF loaded
    <3>1. QED BY <2>2, <2>3
  <2>5. p \in Existing /\ revision[p] \in 1..MaxRevision
    BY <1>3 DEF LoadProfile, Existing, StoreTypeOK
  <2>6. snapshot' = [snapshot EXCEPT ![c] = revision[p]]
    BY <1>3 DEF LoadProfile
  <2>7. QED BY <1>3, <2>4, <2>5, <2>6 DEF LoadProfile
<1>4. CASE Register(c)
  BY <1>4 DEF Register
<1>5. CASE Greet(c)
  <2> DEFINE queued == session[c].pending
  <2>1. queued \in Seq(Gone..MaxRevision)
    BY DEF Sessions
  <2>2. ASSUME queued # <<>> PROVE queued[Len(queued)] \in Gone..MaxRevision
    <3> HIDE DEF queued
    <3>1. Len(queued) \in 1..Len(queued)
      BY <2>1, <2>2, EmptySeq
    <3>2. QED BY <2>1, <3>1, ElementOfSeq
  <2>3. announced' \in [Conns -> Gone..MaxRevision]
    BY <1>5, <2>2 DEF Greet
  <2>4. session' \in [Conns -> Sessions]
    <3> DEFINE greeted == [session[c] EXCEPT !.ready = TRUE, !.pending = <<>>]
    <3>1. <<>> \in Seq(Gone..MaxRevision)
      OBVIOUS
    <3>2. session[c] \in Sessions
      OBVIOUS
    <3>3. greeted \in Sessions
      BY <3>1, <3>2 DEF Sessions
    <3>4. session' = [session EXCEPT ![c] = greeted]
      BY <1>5 DEF Greet
    <3> HIDE DEF greeted
    <3>5. QED BY <3>3, <3>4
  <2>5. QED BY <1>5, <2>3, <2>4 DEF Greet
<1>6. QED BY <1>1, <1>2, <1>3, <1>4, <1>5 DEF Handshake

LEMMA LoopType ==
  ASSUME ChannelTypeOK, PressGiven, NEW c \in Conns, Loop(c)
  PROVE  ChannelTypeOK'
<1> USE DEF ChannelTypeOK, UNCHANGEDbyLoop, Goto, Close, Locations
<1>0. NoPress \in Presses
  BY StoreAssumption DEF NoPress, Presses
<1>1. CASE Disconnect(c)
  BY <1>1 DEF Disconnect
<1>2. CASE SendFails(c)
  BY <1>2 DEF SendFails
<1>3. CASE ReceiveTimeout(c)
  BY <1>0, <1>3 DEF ReceiveTimeout, Reply
<1>4. CASE ReceiveOther(c)
  BY <1>0, <1>4 DEF ReceiveOther, Reply
<1>5. ASSUME NEW r \in Requests, NEW p \in Profiles, NEW v \in 1..MaxRevision,
             ReceivePress(c, r, p, v)
      PROVE  ChannelTypeOK'
  <2> DEFINE m == [request |-> r, profile |-> p, revision |-> v,
                   late |-> ~CredentialActive(session[c].client, session[c].generation)]
  <2>1. m \in Presses
    BY StoreAssumption DEF Presses, CredentialActive
  <2>2. pc' \in [Conns -> Locations] /\ closing' \in [Conns -> BOOLEAN]
    BY <1>5 DEF ReceivePress, Reply
  <2>3. press' = [press EXCEPT ![c] = NoPress] \/ press' = [press EXCEPT ![c] = m]
    BY <1>5 DEF ReceivePress, Reply
  <2> HIDE DEF m
  <2>4. press' \in [Conns -> Presses]
    BY <1>0, <2>1, <2>3
  <2>5. QED BY <1>5, <2>2, <2>4 DEF ReceivePress
<1>6. CASE CheckCredential(c)
  <2>1. press[c].request \in Requests
    BY <1>6 DEF CheckCredential, PressGiven
  <2>2. Remember(c, press[c].request) => session' \in [Conns -> Sessions]
    BY <2>1, RememberType
  <2>3. session' \in [Conns -> Sessions]
    BY <1>6, <2>2 DEF CheckCredential, Dispatch
  <2>4. /\ pc' \in [Conns -> Locations]
        /\ press' \in [Conns -> Presses]
        /\ closing' \in [Conns -> BOOLEAN]
    <3>1. pc' \in [Conns -> Locations]
      BY <1>6 DEF CheckCredential, Dispatch, Reply
    <3>2. press' \in [Conns -> Presses]
      BY <1>0, <1>6 DEF CheckCredential, Dispatch, Reply
    <3>3. closing' \in [Conns -> BOOLEAN]
      BY <1>6 DEF CheckCredential, Dispatch, Reply
    <3>4. QED BY <3>1, <3>2, <3>3
  <2>5. newer' \in [Conns -> Ages]
    BY <1>6, AnsweredType DEF CheckCredential, Dispatch
  <2>6. QED BY <1>6, <2>3, <2>4, <2>5 DEF CheckCredential
<1>7. CASE ReadProfile(c)
  <2>1. press[c].request \in Requests
    BY <1>7 DEF ReadProfile, PressGiven
  <2>2. Remember(c, press[c].request) => session' \in [Conns -> Sessions]
    BY <2>1, RememberType
  <2>3. session' \in [Conns -> Sessions]
    BY <1>7, <2>2 DEF ReadProfile
  <2>4. /\ pc' \in [Conns -> Locations]
        /\ press' \in [Conns -> Presses]
        /\ closing' \in [Conns -> BOOLEAN]
    <3>1. pc' \in [Conns -> Locations]
      BY <1>7 DEF ReadProfile, Reply
    <3>2. press' \in [Conns -> Presses]
      BY <1>0, <1>7 DEF ReadProfile, Reply
    <3>3. closing' \in [Conns -> BOOLEAN]
      BY <1>7 DEF ReadProfile, Reply
    <3>4. QED BY <3>1, <3>2, <3>3
  <2>5. newer' \in [Conns -> Ages]
    BY <1>7, AnsweredType DEF ReadProfile
  <2>6. QED BY <1>7, <2>3, <2>4, <2>5 DEF ReadProfile
<1>8. CASE Execute(c)
  <2>1. press[c].request \in Requests
    BY <1>8 DEF Execute, PressGiven
  <2>2. session' \in [Conns -> Sessions]
    BY <1>8, <2>1, RememberType DEF Execute
  <2>3. newer' \in [Conns -> Ages]
    BY <1>8, AnsweredType DEF Execute
  <2>4. QED BY <1>0, <1>8, <2>2, <2>3 DEF Execute, Reply
<1>9. CASE DropReply(c)
  BY <1>9 DEF DropReply, AfterReply
<1>10. CASE BeginReply(c)
  BY <1>10 DEF BeginReply
<1>11. CASE FinishReply(c)
  BY <1>11 DEF FinishReply, AfterReply
<1>12. QED
  BY <1>1, <1>2, <1>3, <1>4, <1>5, <1>6, <1>7, <1>8, <1>9, <1>10, <1>11 DEF Loop

LEMMA DeviceRoutesType ==
  ASSUME ChannelTypeOK, DeviceRoutes
  PROVE  ChannelTypeOK'
<1> USE DEF ChannelTypeOK, UNCHANGEDbyDevice, Claims
<1>1. ASSUME NEW k \in Clients, ClaimToken(k) PROVE ChannelTypeOK'
  <2>1. [client |-> k, generation |-> generation[k] + 1, picked |-> FALSE, targets |-> {},
         telling |-> {}] \in Claims
    BY <1>1, CredentialAssumption DEF ClaimToken, IssueToken
  <2>2. claims' \subseteq Claims
    BY <1>1, <2>1 DEF ClaimToken
  <2>3. generation' \in [Clients -> 0..MaxGeneration] /\ revoked' \in [Clients -> BOOLEAN]
    BY <1>1, CredentialAssumption DEF ClaimToken, IssueToken
  <2>4. doomed' \subseteq Conns
    BY <1>1 DEF ClaimToken, Doom
  <2>5. QED BY <1>1, <2>2, <2>3, <2>4 DEF ClaimToken
<1>2. ASSUME NEW k \in Clients, RevokeDevice(k) PROVE ChannelTypeOK'
  <2>1. [client |-> k, generation |-> 0, picked |-> TRUE, targets |-> LiveSessions(k),
         telling |-> {}] \in Claims
    BY CredentialAssumption DEF LiveSessions
  <2>2. claims' \subseteq Claims
    BY <1>2, <2>1 DEF RevokeDevice
  <2>3. revoked' \in [Clients -> BOOLEAN]
    BY <1>2 DEF RevokeDevice, RevokeClient
  <2>4. doomed' \subseteq Conns
    BY <1>2 DEF RevokeDevice, Doom
  <2>5. UNCHANGED <<generation, UNCHANGEDbyDevice, token, pc, registered>>
    BY <1>2 DEF RevokeDevice, RevokeClient
  <2>6. UNCHANGED session
    BY <1>2 DEF RevokeDevice
  <2>7. QED BY <2>2, <2>3, <2>4, <2>5, <2>6
<1>3. ASSUME NEW t \in claims, PickTargets(t) PROVE ChannelTypeOK'
  <2>1. [t EXCEPT !.picked = TRUE, !.targets = LiveSessions(t.client)] \in Claims
    <3>1. t \in Claims
      OBVIOUS
    <3>2. LiveSessions(t.client) \in SUBSET Conns
      BY DEF LiveSessions
    <3> HIDE DEF ChannelTypeOK
    <3>3. QED BY <3>1, <3>2
  <2>2. claims' \subseteq Claims
    BY <1>3, <2>1 DEF PickTargets
  <2>3. QED BY <1>3, <2>2 DEF PickTargets
<1>4. ASSUME NEW t \in claims, NEW c \in Conns, BeginClose(t, c) PROVE ChannelTypeOK'
  <2>1. [t EXCEPT !.targets = @ \ {c}, !.telling = @ \union {c}] \in Claims
    <3>1. t \in Claims
      OBVIOUS
    <3> HIDE DEF ChannelTypeOK
    <3>2. QED BY <3>1 DEF Claims
  <2>2. claims' \subseteq Claims
    BY <1>4, <2>1 DEF BeginClose
  <2>3. session' \in [Conns -> Sessions]
    <3> DEFINE ended == [session[c] EXCEPT !.invalidated = TRUE]
    <3>1. session[c] \in Sessions
      OBVIOUS
    <3>2. ended \in Sessions
      BY <3>1 DEF Sessions
    <3>3. session' = [session EXCEPT ![c] = ended]
      BY <1>4 DEF BeginClose
    <3> HIDE DEF ended
    <3>4. QED BY <3>2, <3>3
  <2>4. QED BY <1>4, <2>2, <2>3 DEF BeginClose
<1>5. ASSUME NEW t \in claims, NEW c \in Conns, EndClose(t, c) PROVE ChannelTypeOK'
  <2>1. [t EXCEPT !.telling = @ \ {c}] \in Claims
    OBVIOUS
  <2>2. claims' \subseteq Claims
    BY <1>5, <2>1 DEF EndClose
  <2>3. QED BY <1>5, <2>2 DEF EndClose
<1>6. ASSUME NEW t \in claims, FinishClaim(t) PROVE ChannelTypeOK'
  BY <1>6 DEF FinishClaim
<1>7. QED BY <1>1, <1>2, <1>3, <1>4, <1>5, <1>6 DEF DeviceRoutes

LEMMA AnnounceType ==
  ASSUME ChannelTypeOK, NEW p \in Profiles, NEW v \in 0..MaxRevision,
         NEW why \in {"created", "updated", "deleted"}, Announce(p, v, why)
  PROVE  outbox' \subseteq Messages
BY DEF Announce, ChannelTypeOK, Messages

LEMMA ProfileRoutesType ==
  ASSUME ChannelTypeOK, ProfileRoutes
  PROVE  ChannelTypeOK'
<1> USE DEF ChannelTypeOK, UNCHANGEDbyRoute
<1>0. MaxRevision \in Nat \ {0}
  BY StoreAssumption
<1>1. ASSUME NEW p \in Profiles, NEW why \in {"created", "updated"}, CreateProfile(p, why)
      PROVE  ChannelTypeOK'
  BY <1>0, <1>1, AnnounceType DEF CreateProfile, Create, Owe
<1>2. ASSUME NEW p \in Profiles, ChangeProfile(p) PROVE ChannelTypeOK'
  BY <1>0, <1>2, AnnounceType DEF ChangeProfile, Change, Owe
<1>3. ASSUME NEW p \in Profiles, ActivateProfile(p) PROVE ChannelTypeOK'
  <2>1. revision[p] \in 0..MaxRevision
    OBVIOUS
  <2>2. outbox' \subseteq Messages
    BY <1>0, <1>3, <2>1, AnnounceType DEF ActivateProfile, Activate
  <2>3. revision' \in [Profiles -> 0..MaxRevision] /\ active' \in Profiles \union {NoProfile}
    BY <1>0, <1>3 DEF ActivateProfile, Activate
  <2>4. owed' \in [Conns -> 0..MaxRevision] /\ deleted' \subseteq Profiles
    BY <1>0, <1>3, <2>1 DEF ActivateProfile, Activate, Owe
  <2>5. QED BY <1>3, <2>2, <2>3, <2>4 DEF ActivateProfile
<1>4. ASSUME NEW p \in Profiles, ReadBeforeDelete(p) PROVE ChannelTypeOK'
  BY <1>4 DEF ReadBeforeDelete
<1>5. ASSUME NEW d \in deleting, DeleteRefused(d) PROVE ChannelTypeOK'
  BY <1>5 DEF DeleteRefused
<1>6. ASSUME NEW d \in deleting, NEW q \in Profiles, DeleteProfile(d, q)
      PROVE  ChannelTypeOK'
  <2>1. outbox' \subseteq Messages
    BY <1>6, AnnounceType DEF DeleteProfile
  <2>2. revision' \in [Profiles -> 0..MaxRevision] /\ active' \in Profiles \union {NoProfile}
    BY <1>0, <1>6 DEF DeleteProfile, Delete, DeleteInactive, DeleteActive, Existing
  <2>3. owed' \in [Conns -> 0..MaxRevision] /\ deleted' \subseteq Profiles
    BY <1>6 DEF DeleteProfile
  <2>4. QED BY <1>6, <2>1, <2>2, <2>3 DEF DeleteProfile
<1>7. CASE ReadActive
  BY <1>0, <1>7, AnnounceType DEF ReadActive
<1>8. QED BY <1>1, <1>2, <1>3, <1>4, <1>5, <1>6, <1>7 DEF ProfileRoutes

LEMMA BroadcastsType ==
  ASSUME ChannelTypeOK, Broadcasts
  PROVE  ChannelTypeOK'
<1> USE DEF ChannelTypeOK, UNCHANGEDbyCast
<1>0. MaxRevision \in Nat \ {0}
  BY StoreAssumption
<1>1. ASSUME NEW m \in outbox, BeginBroadcast(m) PROVE ChannelTypeOK'
  <2>1. m \in Messages
    OBVIOUS
  <2>2. lastBroadcast' \in [Profiles -> 0..MaxRevision]
    BY <1>0, <1>1, <2>1 DEF BeginBroadcast, Messages
  <2>3. casting' \in Casts \union {NoCast}
    <3> DEFINE goal == {c \in registered : /\ session[c].profile = m.profile
                                           /\ ~session[c].invalidated}
               cast == [message |-> m, targets |-> goal, stale |-> {}, running |-> TRUE]
    <3>1. goal \subseteq Conns
      OBVIOUS
    <3>2. casting' = casting \/ casting' = cast
      BY <1>1 DEF BeginBroadcast
    <3> HIDE DEF goal
    <3>3. cast \in Casts
      BY <2>1, <3>1 DEF Casts
    <3>4. QED BY <3>2, <3>3
  <2>4. QED BY <1>1, <2>2, <2>3 DEF BeginBroadcast
<1>2. ASSUME NEW c \in Conns, SendBroadcast(c) PROVE ChannelTypeOK'
  <2>1. casting \in Casts
    BY <1>2 DEF SendBroadcast, NoCast
  <2>2. Content(casting.message) \in Gone..MaxRevision
    BY <1>0, <2>1 DEF Content, Casts, Messages
  <2>3. casting' \in Casts
    <3>1. [casting EXCEPT !.targets = @ \ {c}] \in Casts
      BY <2>1 DEF Casts
    <3>2. [casting EXCEPT !.targets = @ \ {c}, !.stale = @ \union {c}] \in Casts
      BY <2>1 DEF Casts
    <3>3. QED BY <1>2, <3>1, <3>2 DEF SendBroadcast
  <2>4. announced' \in [Conns -> Gone..MaxRevision]
    BY <1>2, <2>2 DEF SendBroadcast
  <2>5. session' \in [Conns -> Sessions]
    <3> DEFINE told == [session[c] EXCEPT !.pending = Append(@, Content(casting.message))]
    <3>0. session[c] \in Sessions
      OBVIOUS
    <3>1. Append(session[c].pending, Content(casting.message)) \in Seq(Gone..MaxRevision)
      BY <2>2, <3>0, AppendProperties DEF Sessions
    <3>2. told \in Sessions
      BY <3>0, <3>1 DEF Sessions
    <3>3. session' = session \/ session' = [session EXCEPT ![c] = told]
      BY <1>2 DEF SendBroadcast
    <3> HIDE DEF told
    <3>4. CASE session' = session
      BY <3>4
    <3>5. CASE session' = [session EXCEPT ![c] = told]
      BY <3>2, <3>5
    <3>6. QED BY <3>3, <3>4, <3>5
  <2>6. QED BY <1>2, <2>3, <2>4, <2>5 DEF SendBroadcast
<1>3. CASE EndBroadcast
  BY <1>3 DEF EndBroadcast
<1>4. QED BY <1>1, <1>2, <1>3 DEF Broadcasts

(* A press is known by its request from its arrival to its reply: no other *)
(* action puts a coroutine where it handles a press.                       *)
LEMMA PressGivenKept ==
  ASSUME ChannelTypeOK, PressGiven, [Next]_vars
  PROVE  PressGiven'
<1> USE DEF PressGiven, ChannelTypeOK
<1>1. ASSUME NEW c \in Conns, Handshake(c) PROVE PressGiven'
  BY <1>1 DEF Handshake, HandshakeFails, Authenticate, LoadProfile, Register, Greet, Goto,
              Close, UNCHANGEDbyHandshake
<1>2. ASSUME NEW c \in Conns, Loop(c) PROVE PressGiven'
  <2>1. CASE Disconnect(c) \/ SendFails(c) \/ ReceiveTimeout(c) \/ ReceiveOther(c)
    BY <2>1 DEF Disconnect, SendFails, ReceiveTimeout, ReceiveOther, Reply, Close, Goto
  <2>2. ASSUME NEW r \in Requests, NEW p \in Profiles, NEW v \in 1..MaxRevision,
               ReceivePress(c, r, p, v)
        PROVE  PressGiven'
    BY <2>2 DEF ReceivePress, Goto, Reply
  <2>3. CASE CheckCredential(c)
    BY <2>3 DEF CheckCredential, Dispatch, Reply, Goto
  <2>4. CASE ReadProfile(c)
    BY <2>4 DEF ReadProfile, Reply, Goto
  <2>5. CASE Execute(c)
    BY <2>5 DEF Execute, Reply, Goto
  <2>6. CASE DropReply(c) \/ BeginReply(c) \/ FinishReply(c)
    BY <2>6 DEF DropReply, BeginReply, FinishReply, AfterReply, Close, Goto
  <2>7. QED BY <1>2, <2>1, <2>2, <2>3, <2>4, <2>5, <2>6 DEF Loop
<1>3. CASE DeviceRoutes
  BY <1>3 DEF DeviceRoutes, ClaimToken, PickTargets, RevokeDevice, BeginClose, EndClose,
              FinishClaim, UNCHANGEDbyDevice
<1>4. CASE ProfileRoutes
  BY <1>4 DEF ProfileRoutes, CreateProfile, ChangeProfile, ActivateProfile, ReadBeforeDelete,
              DeleteProfile, DeleteRefused, ReadActive, UNCHANGEDbyRoute
<1>5. CASE Broadcasts
  BY <1>5 DEF Broadcasts, BeginBroadcast, SendBroadcast, EndBroadcast, UNCHANGEDbyCast
<1>6. CASE UNCHANGED vars
  BY <1>6 DEF vars
<1>7. QED BY <1>1, <1>2, <1>3, <1>4, <1>5, <1>6 DEF Next

(* The initial state is well typed. *)
LEMMA InitType == Init => ChannelTypeOK /\ PressGiven
<1> SUFFICES ASSUME Init PROVE ChannelTypeOK /\ PressGiven
  OBVIOUS
<1> USE StoreAssumption, CredentialAssumption, ChannelAssumption DEF Init
<1>1. StoreTypeOK /\ CredentialTypeOK
  OBVIOUS
<1>2. session \in [Conns -> Sessions]
  <2>1. <<>> \in Seq(Requests) /\ <<>> \in Seq(Gone..MaxRevision)
    OBVIOUS
  <2>2. 0 \in 0..MaxGeneration
    BY CredentialAssumption
  <2>3. ASSUME NEW k \in Clients
        PROVE  [client |-> k, profile |-> NoProfile, generation |-> 0, ready |-> FALSE,
                invalidated |-> FALSE, responses |-> <<>>, pending |-> <<>>] \in Sessions
    BY <2>1, <2>2 DEF Sessions
  <2>4. QED BY <2>3
<1>3. press \in [Conns -> Presses]
  BY DEF NoPress, Presses
<1>4. newer \in [Conns -> Ages]
  BY ChannelAssumption DEF Ages
<1>5. /\ pc \in [Conns -> Locations] /\ snapshot \in [Conns -> 0..MaxRevision]
      /\ closing \in [Conns -> BOOLEAN] /\ announced \in [Conns -> Gone..MaxRevision]
      /\ owed \in [Conns -> 0..MaxRevision] /\ lastBroadcast \in [Profiles -> 0..MaxRevision]
  BY DEF Locations, Gone
<1>6. /\ registered \subseteq Conns /\ casting \in Casts \union {NoCast}
      /\ outbox \subseteq Messages /\ claims \subseteq Claims
      /\ deleting \subseteq [profile : Profiles, revision : 0..MaxRevision]
      /\ activeReads \in Nat /\ token \in [Clients -> 0..MaxGeneration]
      /\ deleted \subseteq Profiles /\ doomed \subseteq Conns
  OBVIOUS
<1>7. PressGiven
  BY DEF PressGiven
<1> HIDE DEF Init
<1>8. QED BY <1>1, <1>2, <1>3, <1>4, <1>5, <1>6, <1>7 DEF ChannelTypeOK

(* Every reachable state of the channel is well typed: what connections,   *)
(* routes and broadcasts leave behind is in the shape the next coroutine   *)
(* relies on (ClientSession, websocket.py:46; WebSocketManager,            *)
(* websocket.py:103), for any number of connections, devices and profiles. *)
THEOREM TypeCorrect == Spec => [](ChannelTypeOK /\ PressGiven)
<1>1. ChannelTypeOK /\ PressGiven /\ [Next]_vars => ChannelTypeOK'
  <2> SUFFICES ASSUME ChannelTypeOK, PressGiven, [Next]_vars PROVE ChannelTypeOK'
    OBVIOUS
  <2>1. CASE UNCHANGED vars
    BY <2>1 DEF vars, ChannelTypeOK
  <2>2. CASE Next
    BY <2>2, HandshakeType, LoopType, DeviceRoutesType, ProfileRoutesType, BroadcastsType
       DEF Next
  <2>3. QED BY <2>1, <2>2
<1>2. QED BY <1>1, InitType, PressGivenKept, PTL DEF Spec

-----------------------------------------------------------------------------
(* What each part of the next-state relation leaves alone.                 *)

Entering == {"handshake", "loading", "registering"}

RoutesFrame ==
  /\ UNCHANGED <<pc, press, newer>>
  /\ \A c \in Conns : /\ session'[c].client = session[c].client
                      /\ session'[c].generation = session[c].generation
                      /\ session'[c].responses = session[c].responses

HandshakeFrame(c) ==
  /\ UNCHANGED <<press, newer, credentialVars, deviceVars, doomed>>
  /\ \A d \in Conns : /\ session'[d].client = session[d].client
                      /\ session'[d].responses = session[d].responses
                      /\ session'[d].invalidated = session[d].invalidated
                      /\ d # c => pc'[d] = pc[d] /\ session'[d] = session[d]
  /\ pc'[c] \in {"loading", "registering", "greeting", "idle", "closed"}

LoopFrame(c) ==
  /\ UNCHANGED <<credentialVars, deviceVars, doomed>>
  /\ \A d \in Conns : /\ session'[d].client = session[d].client
                      /\ session'[d].generation = session[d].generation
                      /\ session'[d].invalidated = session[d].invalidated
  /\ \A d \in Conns \ {c} : /\ pc'[d] = pc[d] /\ press'[d] = press[d]
                            /\ session'[d] = session[d] /\ newer'[d] = newer[d]
  /\ registered' \subseteq registered
  /\ pc[c] \notin Entering /\ pc'[c] \notin Entering

(* Queueing an event changes nothing else of a session. *)
LEMMA QueueKeeps ==
  ASSUME NEW f \in [Conns -> Sessions], NEW c \in Conns, NEW events,
         NEW g, g = [f EXCEPT ![c].pending = events]
  PROVE  \A d \in Conns : /\ g[d].client = f[d].client
                          /\ g[d].generation = f[d].generation
                          /\ g[d].responses = f[d].responses
                          /\ g[d].invalidated = f[d].invalidated
BY DEF Sessions

LEMMA SendKeeps ==
  ASSUME ChannelTypeOK, NEW c \in Conns, SendBroadcast(c)
  PROVE  RoutesFrame
<1> DEFINE told == Append(session[c].pending, Content(casting.message))
<1>1. session \in [Conns -> Sessions]
  BY DEF ChannelTypeOK
<1>2. session' = session \/ session' = [session EXCEPT ![c].pending = told]
  BY DEF SendBroadcast
<1>3. UNCHANGED <<pc, press, newer>>
  BY DEF SendBroadcast, UNCHANGEDbyCast
<1> HIDE DEF told
<1>4. CASE session' = session
  BY <1>3, <1>4 DEF RoutesFrame
<1>5. CASE session' = [session EXCEPT ![c].pending = told]
  <2>1. \A d \in Conns : /\ session'[d].client = session[d].client
                         /\ session'[d].generation = session[d].generation
                         /\ session'[d].responses = session[d].responses
    BY <1>1, <1>5, QueueKeeps
  <2>2. QED BY <1>3, <2>1 DEF RoutesFrame
<1>6. QED BY <1>2, <1>4, <1>5

LEMMA RoutesKeep ==
  ASSUME ChannelTypeOK, DeviceRoutes \/ ProfileRoutes \/ Broadcasts \/ UNCHANGED vars
  PROVE  RoutesFrame
<1> USE DEF ChannelTypeOK, Sessions, RoutesFrame
<1>1. CASE DeviceRoutes
  <2>1. ASSUME NEW t \in claims, NEW c \in Conns, BeginClose(t, c) PROVE RoutesFrame
    BY <2>1 DEF BeginClose, UNCHANGEDbyDevice
  <2>2. QED BY <1>1, <2>1 DEF DeviceRoutes, ClaimToken, PickTargets, RevokeDevice, EndClose,
                             FinishClaim, UNCHANGEDbyDevice
<1>2. CASE ProfileRoutes
  BY <1>2 DEF ProfileRoutes, CreateProfile, ChangeProfile, ActivateProfile, ReadBeforeDelete,
              DeleteProfile, DeleteRefused, ReadActive, UNCHANGEDbyRoute
<1>3. CASE Broadcasts
  BY <1>3, SendKeeps DEF Broadcasts, BeginBroadcast, EndBroadcast, UNCHANGEDbyCast
<1>4. CASE UNCHANGED vars
  BY <1>4 DEF vars
<1>5. QED BY <1>1, <1>2, <1>3, <1>4

LEMMA HandshakeKeeps ==
  ASSUME ChannelTypeOK, NEW c \in Conns, Handshake(c)
  PROVE  HandshakeFrame(c)
<1> USE DEF Goto, Close, UNCHANGEDbyHandshake, ChannelTypeOK, Sessions, HandshakeFrame
<1>1. CASE HandshakeFails(c)
  BY <1>1 DEF HandshakeFails
<1>2. CASE Authenticate(c)
  BY <1>2 DEF Authenticate
<1>3. ASSUME NEW p \in Profiles, LoadProfile(c, p) PROVE HandshakeFrame(c)
  <2>1. \A d \in Conns : d # c => session'[d] = session[d] /\ pc'[d] = pc[d]
    BY <1>3 DEF LoadProfile
  <2>2. /\ session'[c].client = session[c].client
        /\ session'[c].responses = session[c].responses
        /\ session'[c].invalidated = session[c].invalidated
        /\ pc'[c] = "registering"
    BY <1>3 DEF LoadProfile
  <2>3. UNCHANGED <<press, newer, credentialVars, deviceVars, doomed>>
    BY <1>3 DEF LoadProfile
  <2>4. ASSUME NEW d \in Conns
        PROVE  /\ session'[d].client = session[d].client
               /\ session'[d].responses = session[d].responses
               /\ session'[d].invalidated = session[d].invalidated
    BY <2>1, <2>2
  <2>5. QED BY <2>1, <2>2, <2>3, <2>4
<1>4. CASE Register(c)
  BY <1>4 DEF Register
<1>5. CASE Greet(c)
  <2>1. /\ session' = [session EXCEPT ![c].ready = TRUE, ![c].pending = <<>>]
        /\ pc' = [pc EXCEPT ![c] = "idle"]
        /\ UNCHANGED <<press, newer, credentialVars, deviceVars, doomed>>
    BY <1>5 DEF Greet
  <2>2. \A d \in Conns : d # c => session'[d] = session[d] /\ pc'[d] = pc[d]
    BY <2>1
  <2>3. /\ session'[c].client = session[c].client
        /\ session'[c].responses = session[c].responses
        /\ session'[c].invalidated = session[c].invalidated
        /\ pc'[c] = "idle"
    BY <2>1
  <2>4. ASSUME NEW d \in Conns
        PROVE  /\ session'[d].client = session[d].client
               /\ session'[d].responses = session[d].responses
               /\ session'[d].invalidated = session[d].invalidated
    BY <2>2, <2>3
  <2>5. QED BY <2>1, <2>2, <2>3, <2>4
<1>6. QED BY <1>1, <1>2, <1>3, <1>4, <1>5 DEF Handshake

LEMMA RememberKeeps ==
  ASSUME ChannelTypeOK, NEW c \in Conns, NEW r, Remember(c, r)
  PROVE  \A d \in Conns : /\ session'[d].client = session[d].client
                          /\ session'[d].generation = session[d].generation
                          /\ session'[d].invalidated = session[d].invalidated
                          /\ d # c => session'[d] = session[d]
BY DEF Remember, ChannelTypeOK, Sessions

LEMMA AnsweredKeeps ==
  ASSUME ChannelTypeOK, NEW c \in Conns, NEW r, Answered(c, r)
  PROVE  \A d \in Conns \ {c} : newer'[d] = newer[d]
BY DEF Answered, ChannelTypeOK

LEMMA LoopKeeps ==
  ASSUME ChannelTypeOK, NEW c \in Conns, Loop(c)
  PROVE  LoopFrame(c)
<1> USE DEF UNCHANGEDbyLoop, ChannelTypeOK, Goto, Close, Reply, AfterReply, LoopFrame, Entering
<1>1. CASE Disconnect(c) \/ SendFails(c) \/ ReceiveTimeout(c) \/ ReceiveOther(c)
  BY <1>1 DEF Disconnect, SendFails, ReceiveTimeout, ReceiveOther, OwnSend
<1>2. ASSUME NEW r \in Requests, NEW p \in Profiles, NEW v \in 1..MaxRevision,
             ReceivePress(c, r, p, v)
      PROVE  LoopFrame(c)
  BY <1>2 DEF ReceivePress
<1>3. CASE CheckCredential(c)
  BY <1>3, RememberKeeps, AnsweredKeeps DEF CheckCredential, Dispatch
<1>4. CASE ReadProfile(c)
  BY <1>4, RememberKeeps, AnsweredKeeps DEF ReadProfile
<1>5. CASE Execute(c)
  BY <1>5, RememberKeeps, AnsweredKeeps DEF Execute
<1>6. CASE DropReply(c) \/ BeginReply(c) \/ FinishReply(c)
  BY <1>6 DEF DropReply, BeginReply, FinishReply
<1>7. QED BY <1>1, <1>2, <1>3, <1>4, <1>5, <1>6 DEF Loop

-----------------------------------------------------------------------------
(* The connection limit.                                                   *)

SlotsInv == IsFiniteSet(registered) /\ ConnectionLimit

LEMMA FewerSlots ==
  ASSUME SlotsInv, registered' \subseteq registered, MaxConnections \in Nat
  PROVE  SlotsInv'
<1>1. IsFiniteSet(registered') /\ Cardinality(registered') <= Cardinality(registered)
  BY FS_Subset DEF SlotsInv
<1>2. Cardinality(registered') \in Nat /\ Cardinality(registered) \in Nat
  BY <1>1, FS_CardinalityType DEF SlotsInv
<1>3. QED BY <1>1, <1>2 DEF SlotsInv, ConnectionLimit

LEMMA RegisterKeepsSlots ==
  ASSUME SlotsInv, NEW c \in Conns, Register(c), MaxConnections \in Nat
  PROVE  SlotsInv'
<1>1. CASE Cardinality(registered) >= MaxConnections
  BY <1>1, FewerSlots DEF Register, Close
<1>2. CASE ~(Cardinality(registered) >= MaxConnections)
  <2>1. registered' = registered \union {c}
    BY <1>2 DEF Register
  <2>2. IsFiniteSet(registered') /\ Cardinality(registered') <= Cardinality(registered) + 1
    BY <2>1, FS_AddElement, FS_CardinalityType DEF SlotsInv
  <2>3. Cardinality(registered') \in Nat /\ Cardinality(registered) \in Nat
    BY <2>2, FS_CardinalityType DEF SlotsInv
  <2>4. QED BY <1>2, <2>2, <2>3 DEF SlotsInv, ConnectionLimit
<1>3. QED BY <1>1, <1>2

(* WebSocketManager.register: whatever the handshakes, the departures and  *)
(* the closing requests interleave, the registry holds at most             *)
(* max_connections sessions.                                               *)
THEOREM LimitHolds == Spec => []ConnectionLimit
<1>1. Init => SlotsInv
  BY FS_EmptySet, ChannelAssumption DEF Init, SlotsInv, ConnectionLimit
<1>2. ChannelTypeOK /\ SlotsInv /\ [Next]_vars => SlotsInv'
  <2> SUFFICES ASSUME ChannelTypeOK, SlotsInv, [Next]_vars PROVE SlotsInv'
    OBVIOUS
  <2>0. MaxConnections \in Nat
    BY ChannelAssumption
  <2>1. ASSUME NEW c \in Conns, Register(c) PROVE SlotsInv'
    BY <2>0, <2>1, RegisterKeepsSlots
  <2>2. ASSUME NEW c \in Conns, Handshake(c), ~Register(c) PROVE registered' \subseteq registered
    BY <2>2 DEF Handshake, HandshakeFails, Authenticate, LoadProfile, Greet, Close
  <2>3. ASSUME NEW c \in Conns, Loop(c) PROVE registered' \subseteq registered
    BY <2>3, LoopKeeps DEF LoopFrame
  <2>4. CASE DeviceRoutes
    BY <2>4, <2>0, FewerSlots DEF DeviceRoutes, ClaimToken, PickTargets, RevokeDevice,
       BeginClose, EndClose, FinishClaim
  <2>5. CASE ProfileRoutes
    BY <2>5, <2>0, FewerSlots DEF ProfileRoutes, CreateProfile, ChangeProfile, ActivateProfile,
       ReadBeforeDelete, DeleteProfile, DeleteRefused, ReadActive, UNCHANGEDbyRoute
  <2>6. CASE Broadcasts
    BY <2>6, <2>0, FewerSlots DEF Broadcasts, BeginBroadcast, SendBroadcast, EndBroadcast
  <2>7. CASE UNCHANGED vars
    BY <2>7, <2>0, FewerSlots DEF vars
  <2>8. QED BY <2>0, <2>1, <2>2, <2>3, <2>4, <2>5, <2>6, <2>7, FewerSlots DEF Next
<1>3. QED BY <1>1, <1>2, TypeCorrect, PTL DEF Spec, SlotsInv

-----------------------------------------------------------------------------
(* Revoked credentials.                                                    *)

Handling(c) == pc[c] \in {"checking", "reading", "executing"}

(* A credential is replaced by a later one only, so no generation that a   *)
(* session, a device or a claim holds is ahead of the table.               *)
GenerationsPast ==
  /\ \A c \in Conns : session[c].generation <= generation[session[c].client]
  /\ \A k \in Clients : token[k] <= generation[k]
  /\ \A t \in claims : t.generation <= generation[t.client]

(* A press whose credential was dead on arrival finds it dead at every     *)
(* later check.                                                            *)
LateIsDead ==
  \A c \in Conns : Handling(c) /\ press[c].late
                     => ~CredentialActive(session[c].client, session[c].generation)

CredentialInv == GenerationsPast /\ LateIsDead /\ RevokedPressNeverRuns

LEMMA GenerationsOnlyGrow ==
  ASSUME ChannelTypeOK, DeviceRoutes
  PROVE  \A k \in Clients : /\ generation'[k] >= generation[k]
                            /\ generation'[k] = generation[k] /\ revoked[k] => revoked'[k]
<1> USE CredentialAssumption DEF ChannelTypeOK
<1>1. ASSUME NEW k \in Clients, ClaimToken(k) \/ RevokeDevice(k)
      PROVE  \A j \in Clients : /\ generation'[j] >= generation[j]
                                /\ generation'[j] = generation[j] /\ revoked[j] => revoked'[j]
  BY <1>1 DEF ClaimToken, IssueToken, RevokeDevice, RevokeClient
<1>2. ASSUME NEW t \in claims,
             \/ PickTargets(t) \/ FinishClaim(t)
             \/ \E c \in Conns : BeginClose(t, c) \/ EndClose(t, c)
      PROVE  UNCHANGED credentialVars
  BY <1>2 DEF PickTargets, FinishClaim, BeginClose, EndClose
<1>3. QED BY <1>1, <1>2 DEF DeviceRoutes

LEMMA DeviceRoutesKeepPast ==
  ASSUME ChannelTypeOK, GenerationsPast, DeviceRoutes
  PROVE  GenerationsPast'
<1> USE DEF GenerationsPast, ChannelTypeOK, Claims, UNCHANGEDbyDevice
<1>0. MaxGeneration \in Nat
  BY CredentialAssumption
<1>1. \A c \in Conns : session'[c].generation <= generation'[session'[c].client]
  <2> TAKE c \in Conns
  <2> DEFINE k == session[c].client
             g == session[c].generation
  <2>1. k \in Clients /\ g \in 0..MaxGeneration
    BY DEF Sessions
  <2>2. session'[c].client = k /\ session'[c].generation = g
    BY RoutesKeep DEF RoutesFrame
  <2>3. generation'[k] >= generation[k]
    BY <2>1, GenerationsOnlyGrow
  <2>4. generation'[k] \in Nat
    BY <2>1, <1>0, DeviceRoutesType
  <2>5. g <= generation[k]
    OBVIOUS
  <2> HIDE DEF k, g
  <2>6. QED BY <1>0, <2>1, <2>2, <2>3, <2>4, <2>5
<1>2. ASSUME NEW k \in Clients, ClaimToken(k) PROVE GenerationsPast'
  <2>1. \A t \in claims' : t.generation <= generation'[t.client]
    BY <1>0, <1>2 DEF ClaimToken, IssueToken
  <2>2. QED BY <1>0, <1>1, <1>2, <2>1 DEF ClaimToken, IssueToken
<1>3. ASSUME NEW k \in Clients, RevokeDevice(k) PROVE GenerationsPast'
  BY <1>0, <1>1, <1>3 DEF RevokeDevice, RevokeClient
<1>4. ASSUME NEW t \in claims, PickTargets(t) PROVE GenerationsPast'
  BY <1>0, <1>1, <1>4 DEF PickTargets
<1>5. ASSUME NEW t \in claims, NEW c \in Conns, BeginClose(t, c) \/ EndClose(t, c)
      PROVE  GenerationsPast'
  BY <1>0, <1>1, <1>5 DEF BeginClose, EndClose
<1>6. ASSUME NEW t \in claims, FinishClaim(t) PROVE GenerationsPast'
  BY <1>0, <1>1, <1>6 DEF FinishClaim
<1>7. QED BY <1>2, <1>3, <1>4, <1>5, <1>6 DEF DeviceRoutes

LEMMA HandshakeKeepsCredentialInv ==
  ASSUME ChannelTypeOK, CredentialInv, NEW c \in Conns, Handshake(c)
  PROVE  CredentialInv'
<1> USE HandshakeKeeps DEF HandshakeFrame, CredentialInv, ChannelTypeOK, Sessions
<1>1. session'[c].generation \in {session[c].generation, token[session[c].client]}
  <2>1. CASE Greet(c)
    BY <2>1 DEF Greet
  <2>2. CASE ~Greet(c)
    <3>1. CASE Authenticate(c)
      BY <3>1 DEF Authenticate
    <3>2. CASE HandshakeFails(c) \/ Register(c)
      BY <3>2 DEF HandshakeFails, Register
    <3>3. ASSUME NEW p \in Profiles, LoadProfile(c, p)
          PROVE  session'[c].generation = session[c].generation
      BY <3>3 DEF LoadProfile
    <3>4. QED BY <2>2, <3>1, <3>2, <3>3 DEF Handshake
  <2>3. QED BY <2>1, <2>2
<1>2. GenerationsPast'
  <2>1. session'[c].generation <= generation[session[c].client]
    BY <1>1 DEF GenerationsPast
  <2>2. ASSUME NEW d \in Conns
        PROVE  session'[d].generation <= generation'[session'[d].client]
    <3>1. CASE d = c
      BY <2>1, <3>1
    <3>2. CASE d # c
      BY <3>2 DEF GenerationsPast
    <3>3. QED BY <3>1, <3>2
  <2>3. QED BY <2>2 DEF GenerationsPast
<1>3. \A d \in Conns : Handling(d)' => d # c
  BY DEF Handling
<1>4. LateIsDead'
  <2> SUFFICES ASSUME NEW d \in Conns, Handling(d)', press'[d].late
               PROVE  ~CredentialActive(session[d].client, session[d].generation)'
    BY DEF LateIsDead
  <2>1. session'[d] = session[d] /\ Handling(d) /\ press[d].late
    BY <1>3 DEF Handling
  <2>2. ~CredentialActive(session[d].client, session[d].generation)
    BY <2>1 DEF LateIsDead
  <2>3. QED BY <2>1, <2>2 DEF CredentialActive
<1>5. RevokedPressNeverRuns'
  BY <1>3 DEF RevokedPressNeverRuns, Handling
<1>6. QED BY <1>2, <1>4, <1>5

LEMMA LoopKeepsCredentialInv ==
  ASSUME ChannelTypeOK, CredentialInv, NEW c \in Conns, Loop(c)
  PROVE  CredentialInv'
<1> USE LoopKeeps DEF LoopFrame, CredentialInv, ChannelTypeOK
<1>1. GenerationsPast'
  BY DEF GenerationsPast
<1> DEFINE alive == CredentialActive(session[c].client, session[c].generation)
<1>2. /\ pc'[c] \in {"reading", "executing"} => ~press'[c].late
      /\ Handling(c)' /\ press'[c].late => ~alive
  <2> USE DEF Handling, Goto, Close, Reply, AfterReply, UNCHANGEDbyLoop
  <2>1. CASE Disconnect(c) \/ SendFails(c) \/ ReceiveTimeout(c) \/ ReceiveOther(c)
    BY <2>1 DEF Disconnect, SendFails, ReceiveTimeout, ReceiveOther
  <2>2. ASSUME NEW r \in Requests, NEW p \in Profiles, NEW v \in 1..MaxRevision,
               ReceivePress(c, r, p, v)
        PROVE  <1>2!1 /\ <1>2!2
    <3>1. CASE Reply(c, TRUE)
      BY <3>1
    <3>2. CASE /\ press' = [press EXCEPT ![c] =
                    [request |-> r, profile |-> p, revision |-> v, late |-> ~alive]]
               /\ Goto(c, "checking")
      BY <3>2
    <3>3. QED BY <2>2, <3>1, <3>2 DEF ReceivePress
  <2>3. CASE CheckCredential(c)
    BY <2>3 DEF CheckCredential, Dispatch, LateIsDead
  <2>4. CASE ReadProfile(c)
    BY <2>4 DEF ReadProfile, RevokedPressNeverRuns, LateIsDead
  <2>5. CASE Execute(c) \/ DropReply(c) \/ BeginReply(c) \/ FinishReply(c)
    BY <2>5 DEF Execute, DropReply, BeginReply, FinishReply
  <2>6. QED BY <2>1, <2>2, <2>3, <2>4, <2>5 DEF Loop
<1>3. LateIsDead' /\ RevokedPressNeverRuns'
  BY <1>2 DEF LateIsDead, RevokedPressNeverRuns, Handling, CredentialActive
<1>4. QED BY <1>1, <1>3

(* _session_credential_is_active, then _handle_press: a press received     *)
(* after its session's credential was revoked or replaced is never looked  *)
(* up nor run, however claims, revocations and presses interleave.         *)
THEOREM RevokedPressesStop == Spec => []RevokedPressNeverRuns
<1>1. Init => CredentialInv
  <2> SUFFICES ASSUME Init PROVE CredentialInv
    OBVIOUS
  <2>1. \A c \in Conns : pc[c] = "handshake"
    BY DEF Init
  <2>2. LateIsDead /\ RevokedPressNeverRuns
    BY <2>1 DEF LateIsDead, Handling, RevokedPressNeverRuns
  <2>3. /\ generation \in [Clients -> 0..1] /\ token = generation /\ claims = {}
        /\ \A c \in Conns : session[c].generation = 0 /\ session[c].client \in Clients
    BY DEF Init
  <2>4. GenerationsPast
    BY <2>3 DEF GenerationsPast
  <2>5. QED BY <2>2, <2>4 DEF CredentialInv
<1>2. ChannelTypeOK /\ CredentialInv /\ [Next]_vars => CredentialInv'
  <2> SUFFICES ASSUME ChannelTypeOK, CredentialInv, [Next]_vars PROVE CredentialInv'
    OBVIOUS
  <2>1. CASE DeviceRoutes
    <3>1. LateIsDead'
      <4> SUFFICES ASSUME NEW c \in Conns, Handling(c)', press'[c].late
                   PROVE  ~CredentialActive(session[c].client, session[c].generation)'
        BY DEF LateIsDead
      <4> DEFINE k == session[c].client
                 g == session[c].generation
      <4>1. session'[c].client = k /\ session'[c].generation = g
        BY <2>1, RoutesKeep DEF RoutesFrame
      <4>2. ~CredentialActive(k, g)
        BY <2>1, RoutesKeep DEF RoutesFrame, Handling, LateIsDead, CredentialInv
      <4>3. k \in Clients /\ g \in Nat /\ g <= generation[k] /\ generation[k] \in Nat
        BY CredentialAssumption DEF ChannelTypeOK, Sessions, CredentialInv, GenerationsPast
      <4>4. generation'[k] \in Nat
        BY <2>1, <4>3, DeviceRoutesType, CredentialAssumption DEF ChannelTypeOK
      <4>5. /\ generation'[k] >= generation[k]
            /\ generation'[k] = generation[k] /\ revoked[k] => revoked'[k]
        BY <2>1, <4>3, GenerationsOnlyGrow
      <4> HIDE DEF k, g
      <4>6. QED BY <4>1, <4>2, <4>3, <4>4, <4>5 DEF CredentialActive
    <3>2. QED BY <2>1, <3>1, RoutesKeep, DeviceRoutesKeepPast
              DEF RoutesFrame, CredentialInv, RevokedPressNeverRuns
  <2>2. CASE ProfileRoutes \/ Broadcasts \/ UNCHANGED vars
    <3>1. UNCHANGED <<credentialVars, deviceVars>>
      BY <2>2 DEF ProfileRoutes, CreateProfile, ChangeProfile, ActivateProfile, ReadBeforeDelete,
         DeleteProfile, DeleteRefused, ReadActive, UNCHANGEDbyRoute, Broadcasts, BeginBroadcast,
         SendBroadcast, EndBroadcast, UNCHANGEDbyCast, vars
    <3>2. QED BY <2>2, <3>1, RoutesKeep DEF RoutesFrame, CredentialInv, GenerationsPast,
                 LateIsDead, Handling, CredentialActive, RevokedPressNeverRuns
  <2>3. QED BY <2>1, <2>2, HandshakeKeepsCredentialInv, LoopKeepsCredentialInv DEF Next
<1>3. QED BY <1>1, <1>2, TypeCorrect, PTL DEF Spec, CredentialInv

-----------------------------------------------------------------------------
(* Remembered answers.                                                     *)

CacheBound == \A c \in Conns : Len(session[c].responses) <= MaxCachedResponses

(* r's answer is in the cache, with no more answers behind it than came    *)
(* after it.                                                               *)
Kept(d, r) ==
  \E i \in DOMAIN session[d].responses :
    /\ session[d].responses[i] = r
    /\ Len(session[d].responses) - i <= newer[d][r]

AnswersAreKept ==
  \A d \in Conns, r \in Requests : newer[d][r] < MaxCachedResponses => Kept(d, r)

CacheInv == CacheBound /\ RememberedNeverRuns /\ AnswersAreKept

(* Remembering an answer moves the others one place back; only the one     *)
(* that was MAX_CACHED_RESPONSES places back already falls out.            *)
LEMMA RememberMovesBack ==
  ASSUME ChannelTypeOK, CacheBound, NEW c \in Conns, NEW r \in Requests, Remember(c, r)
  PROVE  LET old == session[c].responses
             new == session'[c].responses
         IN  /\ Len(new) <= MaxCachedResponses
             /\ Len(new) \in DOMAIN new /\ new[Len(new)] = r
             /\ \A i \in DOMAIN old :
                  Len(old) - i + 1 < MaxCachedResponses =>
                    \E j \in DOMAIN new : new[j] = old[i] /\ Len(new) - j = Len(old) - i + 1
<1> DEFINE old == session[c].responses
           kept == IF Len(old) >= MaxCachedResponses THEN Tail(old) ELSE old
           new == Append(kept, r)
<1>1. old \in Seq(Requests) /\ Len(old) \in Nat /\ Len(old) <= MaxCachedResponses
  BY DEF ChannelTypeOK, Sessions, CacheBound
<1>2. MaxCachedResponses \in Nat \ {0}
  BY ChannelAssumption
<1>3. session'[c].responses = new
  BY DEF Remember, ChannelTypeOK, Sessions
<1>4. SUFFICES /\ Len(new) <= MaxCachedResponses
               /\ Len(new) \in DOMAIN new /\ new[Len(new)] = r
               /\ \A i \in DOMAIN old :
                    Len(old) - i + 1 < MaxCachedResponses =>
                      \E j \in DOMAIN new : new[j] = old[i] /\ Len(new) - j = Len(old) - i + 1
  BY <1>3
<1> HIDE DEF old
<1>5. CASE Len(old) >= MaxCachedResponses
  <2>1. Len(old) = MaxCachedResponses /\ kept = Tail(old)
    BY <1>1, <1>2, <1>5
  <2>2. old # <<>>
    BY <1>2, <2>1, EmptySeq
  <2>3. /\ kept \in Seq(Requests) /\ Len(kept) = MaxCachedResponses - 1
        /\ \A j \in 1..(Len(old) - 1) : kept[j] = old[j + 1]
    BY <1>1, <2>1, <2>2, HeadTailProperties
  <2> HIDE DEF kept
  <2>4. /\ Len(new) = MaxCachedResponses /\ DOMAIN new = 1..MaxCachedResponses
        /\ new[MaxCachedResponses] = r
        /\ \A j \in 1..(MaxCachedResponses - 1) : new[j] = kept[j]
    BY <1>2, <2>3, AppendProperties
  <2> HIDE DEF new
  <2>5. ASSUME NEW i \in DOMAIN old, Len(old) - i + 1 < MaxCachedResponses
        PROVE  \E j \in DOMAIN new : new[j] = old[i] /\ Len(new) - j = Len(old) - i + 1
    <3>1. i \in 1..MaxCachedResponses /\ i > 1
      BY <1>1, <1>2, <2>1, <2>5
    <3>2. i - 1 \in 1..(MaxCachedResponses - 1) /\ (i - 1) + 1 = i
      BY <1>2, <3>1
    <3>3. new[i - 1] = old[i]
      BY <2>1, <2>3, <2>4, <3>2
    <3>4. i - 1 \in DOMAIN new /\ Len(new) - (i - 1) = Len(old) - i + 1
      BY <1>2, <2>1, <2>4, <3>1, <3>2
    <3>5. QED BY <3>3, <3>4
  <2>6. QED BY <1>2, <2>4, <2>5
<1>6. CASE Len(old) < MaxCachedResponses
  <2>1. kept = old
    BY <1>1, <1>2, <1>6
  <2> HIDE DEF kept
  <2>2. /\ Len(new) = Len(old) + 1 /\ DOMAIN old = 1..Len(old)
        /\ Len(new) \in DOMAIN new /\ new[Len(new)] = r
        /\ \A i \in DOMAIN old : i \in DOMAIN new /\ new[i] = old[i]
    BY <1>1, <2>1, AppendProperties
  <2> HIDE DEF new
  <2>3. ASSUME NEW i \in DOMAIN old
        PROVE  \E j \in DOMAIN new : new[j] = old[i] /\ Len(new) - j = Len(old) - i + 1
    <3>1. Len(new) - i = Len(old) - i + 1
      BY <1>1, <2>2
    <3>2. QED BY <2>2, <3>1
  <2>4. QED BY <1>1, <1>2, <1>6, <2>2, <2>3
<1>7. QED BY <1>1, <1>2, <1>5, <1>6

(* A connection whose answers, press and history are left alone.           *)
CacheFrame(d) ==
  /\ session'[d].responses = session[d].responses
  /\ newer'[d] = newer[d]
  /\ pc'[d] \in {"reading", "executing"} =>
       pc[d] \in {"reading", "executing"} /\ press'[d] = press[d]

CacheOK(d) ==
  /\ Len(session[d].responses) <= MaxCachedResponses
  /\ pc[d] \in {"reading", "executing"} => press[d].request \notin CacheSet(d)
  /\ \A r \in Requests : newer[d][r] < MaxCachedResponses => Kept(d, r)

LEMMA CacheFrameKeeps ==
  ASSUME NEW d \in Conns, CacheOK(d), CacheFrame(d)
  PROVE  CacheOK(d)'
BY DEF CacheOK, CacheFrame, CacheSet, Kept

LEMMA RememberKeepsCache ==
  ASSUME ChannelTypeOK, CacheInv, NEW c \in Conns, NEW r \in Requests,
         Remember(c, r), Answered(c, r), pc'[c] = "replying"
  PROVE  CacheOK(c)'
<1> DEFINE old == session[c].responses
           new == session'[c].responses
<1>1. /\ Len(new) <= MaxCachedResponses
      /\ Len(new) \in DOMAIN new /\ new[Len(new)] = r
      /\ \A i \in DOMAIN old :
           Len(old) - i + 1 < MaxCachedResponses =>
             \E j \in DOMAIN new : new[j] = old[i] /\ Len(new) - j = Len(old) - i + 1
  BY RememberMovesBack DEF CacheInv
<1>2. MaxCachedResponses \in Nat \ {0}
  BY ChannelAssumption
<1>3. \A q \in Requests : newer[c][q] \in 0..MaxCachedResponses
  BY DEF ChannelTypeOK, Ages
<1>4. \A q \in Requests :
        newer'[c][q] = IF q = r THEN 0
                       ELSE IF newer[c][q] < MaxCachedResponses THEN newer[c][q] + 1
                       ELSE newer[c][q]
  BY DEF Answered, ChannelTypeOK
<1>5. old \in Seq(Requests) /\ new \in Seq(Requests)
  <2>1. session' \in [Conns -> Sessions]
    BY RememberType
  <2>2. QED BY <2>1 DEF ChannelTypeOK, Sessions
<1>6. ASSUME NEW q \in Requests, newer'[c][q] < MaxCachedResponses
      PROVE  Kept(c, q)'
  <2>1. CASE q = r
    <3>1. newer'[c][q] = 0
      BY <1>4, <2>1
    <3>2. Len(new) - Len(new) <= newer'[c][q]
      BY <1>5, <3>1
    <3>3. QED BY <1>1, <2>1, <3>2 DEF Kept
  <2>2. CASE q # r
    <3>1. newer'[c][q] = newer[c][q] + 1 /\ newer[c][q] < MaxCachedResponses
      BY <1>2, <1>3, <1>4, <1>6, <2>2
    <3>2. PICK i \in DOMAIN old : old[i] = q /\ Len(old) - i <= newer[c][q]
      BY <3>1 DEF CacheInv, AnswersAreKept, Kept
    <3>3. i \in Nat /\ Len(old) \in Nat /\ newer[c][q] \in Nat
      BY <1>2, <1>3, <1>5
    <3>4. Len(old) - i + 1 < MaxCachedResponses /\ Len(old) - i + 1 <= newer'[c][q]
      BY <1>2, <1>6, <3>1, <3>2, <3>3
    <3>5. PICK j \in DOMAIN new : new[j] = old[i] /\ Len(new) - j = Len(old) - i + 1
      BY <1>1, <3>4
    <3>6. new[j] = q /\ Len(new) - j <= newer'[c][q]
      BY <3>2, <3>4, <3>5
    <3>7. QED BY <3>6 DEF Kept
  <2>3. QED BY <2>1, <2>2
<1>7. QED BY <1>1, <1>6 DEF CacheOK

LEMMA LoopKeepsCache ==
  ASSUME ChannelTypeOK, PressGiven, CacheInv, NEW c \in Conns, Loop(c)
  PROVE  CacheOK(c)'
<1>0. CacheOK(c)
  BY DEF CacheInv, CacheBound, RememberedNeverRuns, AnswersAreKept, CacheOK
<1> USE DEF Goto, Close, Reply, AfterReply
<1>1. CASE \/ Disconnect(c) \/ SendFails(c) \/ ReceiveTimeout(c) \/ ReceiveOther(c)
           \/ DropReply(c) \/ BeginReply(c) \/ FinishReply(c)
  <2>1. CacheFrame(c)
    BY <1>1 DEF Disconnect, SendFails, ReceiveTimeout, ReceiveOther, DropReply, BeginReply,
                FinishReply, CacheFrame, ChannelTypeOK
  <2>2. QED BY <1>0, <2>1, CacheFrameKeeps
<1>2. ASSUME NEW r \in Requests, NEW p \in Profiles, NEW v \in 1..MaxRevision,
             ReceivePress(c, r, p, v)
      PROVE  CacheOK(c)'
  <2>1. CacheFrame(c)
    BY <1>2 DEF ReceivePress, CacheFrame, ChannelTypeOK
  <2>2. QED BY <1>0, <2>1, CacheFrameKeeps
<1>3. ASSUME UNCHANGED <<session, newer>>, pc'[c] = "replying" PROVE CacheOK(c)'
  <2>1. CacheFrame(c)
    BY <1>3 DEF CacheFrame
  <2>2. QED BY <1>0, <2>1, CacheFrameKeeps
<1>4. CASE CheckCredential(c)
  <2>1. press[c].request \in Requests
    BY <1>4 DEF CheckCredential, PressGiven
  <2>2. CASE /\ Remember(c, press[c].request) /\ Answered(c, press[c].request)
             /\ pc'[c] = "replying"
    BY <2>1, <2>2, RememberKeepsCache
  <2>3. CASE UNCHANGED <<session, newer>> /\ pc'[c] = "replying"
    BY <1>3, <2>3
  <2>4. CASE UNCHANGED <<session, press, newer>> /\ press[c].request \notin CacheSet(c)
    BY <1>0, <2>1, <2>4 DEF CacheOK, CacheSet, Kept
  <2>5. QED BY <1>4, <2>2, <2>3, <2>4 DEF CheckCredential, Dispatch, ChannelTypeOK
<1>5. CASE ReadProfile(c)
  <2>1. press[c].request \in Requests
    BY <1>5 DEF ReadProfile, PressGiven
  <2>2. CASE /\ Remember(c, press[c].request) /\ Answered(c, press[c].request)
             /\ pc'[c] = "replying"
    BY <2>1, <2>2, RememberKeepsCache
  <2>3. CASE UNCHANGED <<session, newer>> /\ pc'[c] = "replying"
    BY <1>3, <2>3
  <2>4. CASE UNCHANGED <<session, press, newer>>
    BY <1>0, <1>5, <2>1, <2>4, CacheFrameKeeps DEF ReadProfile, CacheFrame
  <2>5. QED BY <1>5, <2>2, <2>3, <2>4 DEF ReadProfile, ChannelTypeOK
<1>6. CASE Execute(c)
  <2>1. press[c].request \in Requests /\ pc'[c] = "replying"
    BY <1>6 DEF Execute, PressGiven, ChannelTypeOK
  <2>2. QED BY <1>6, <2>1, RememberKeepsCache DEF Execute
<1>7. QED BY <1>1, <1>2, <1>4, <1>5, <1>6 DEF Loop

LEMMA CacheInvKept ==
  ASSUME ChannelTypeOK, PressGiven, CacheInv, [Next]_vars
  PROVE  CacheInv'
<1>0. \A d \in Conns : CacheOK(d)
  BY DEF CacheInv, CacheBound, RememberedNeverRuns, AnswersAreKept, CacheOK
<1>1. SUFFICES ASSUME NEW d \in Conns PROVE CacheOK(d)'
  BY DEF CacheInv, CacheBound, RememberedNeverRuns, AnswersAreKept, CacheOK
<1>2. CASE DeviceRoutes \/ ProfileRoutes \/ Broadcasts \/ UNCHANGED vars
  <2>1. CacheFrame(d)
    BY <1>2, RoutesKeep DEF RoutesFrame, CacheFrame
  <2>2. QED BY <1>0, <2>1, CacheFrameKeeps
<1>3. ASSUME NEW c \in Conns, Handshake(c) PROVE CacheOK(d)'
  <2>1. CacheFrame(d)
    BY <1>3, HandshakeKeeps DEF HandshakeFrame, CacheFrame
  <2>2. QED BY <1>0, <2>1, CacheFrameKeeps
<1>4. ASSUME NEW c \in Conns, Loop(c) PROVE CacheOK(d)'
  <2>1. CASE d = c
    BY <1>4, <2>1, LoopKeepsCache
  <2>2. CASE d # c
    <3>1. CacheFrame(d)
      BY <1>4, <2>2, LoopKeeps DEF LoopFrame, CacheFrame
    <3>2. QED BY <1>0, <3>1, CacheFrameKeeps
  <2>3. QED BY <2>1, <2>2
<1>5. QED BY <1>2, <1>3, <1>4 DEF Next

(* _handle_press and _cache_response: a request is not run while the       *)
(* session remembers its answer, and an answer is remembered until         *)
(* MAX_CACHED_RESPONSES later ones displaced it.                           *)
THEOREM OncePerWindow == Spec => [](RememberedNeverRuns /\ AnswersAreRemembered)
<1>1. Init => CacheInv
  <2> SUFFICES ASSUME Init PROVE CacheInv
    OBVIOUS
  <2>1. \A c \in Conns : session[c].responses = <<>>
    BY DEF Init
  <2>2. CacheBound
    BY <2>1, ChannelAssumption DEF CacheBound
  <2>3. AnswersAreKept
    BY ChannelAssumption DEF Init, AnswersAreKept
  <2>4. QED BY <2>2, <2>3 DEF Init, CacheInv, RememberedNeverRuns
<1>2. CacheInv => RememberedNeverRuns /\ AnswersAreRemembered
  BY DEF CacheInv, AnswersAreKept, AnswersAreRemembered, Kept, CacheSet
<1>3. QED BY <1>1, <1>2, CacheInvKept, TypeCorrect, PTL DEF Spec

(* The last MAX_CACHED_RESPONSES answers of a session are remembered: no   *)
(* reply, error or other frame forgets one, and a full cache forgets the   *)
(* oldest.                                                                 *)
THEOREM AnswersStayRemembered == Spec => []AnswersAreRemembered
<1>1. QED BY OncePerWindow, PTL

-----------------------------------------------------------------------------
(* Closing the sessions of a replaced or revoked credential.               *)

(* Only a coroutine past its registration is in the registry, doomed or    *)
(* the target of a closing request, or marked invalid by one.              *)
RegistryInv ==
  /\ \A c \in registered \union doomed : pc[c] \notin Entering
  /\ \A t \in claims : \A c \in t.targets : pc[c] \notin Entering
  /\ \A c \in Conns : session[c].invalidated => pc[c] \notin Entering

(* A request closes sessions of its own device. *)
OwnTargets ==
  \A t \in claims : \A c \in t.targets : session[c].client = t.client

(* An invalidated session leaves the registry before the request that      *)
(* marked it answers.                                                      *)
InvalidatedIsTold ==
  \A c \in registered : session[c].invalidated =>
    \E t \in claims : t.client = session[c].client /\ c \in t.telling

(* A doomed session in the registry has a request that will close it. *)
DoomedHasRequest ==
  \A c \in doomed \intersect registered :
    \E t \in claims : /\ t.client = session[c].client
                      /\ ~t.picked \/ c \in t.targets \/ c \in t.telling

ClosingInv == RegistryInv /\ OwnTargets /\ InvalidatedIsTold /\ DoomedHasRequest

LEMMA BroadcastsKeep ==
  ASSUME ChannelTypeOK, Broadcasts
  PROVE  /\ UNCHANGED <<pc, claims, doomed>>
         /\ registered' \subseteq registered
         /\ \A d \in Conns : /\ session'[d].client = session[d].client
                             /\ session'[d].invalidated = session[d].invalidated
<1>1. ASSUME NEW c \in Conns, SendBroadcast(c)
      PROVE  \A d \in Conns : session'[d].invalidated = session[d].invalidated
  <2> DEFINE told == Append(session[c].pending, Content(casting.message))
  <2>1. session \in [Conns -> Sessions]
    BY DEF ChannelTypeOK
  <2>2. session' = session \/ session' = [session EXCEPT ![c].pending = told]
    BY <1>1 DEF SendBroadcast
  <2> HIDE DEF told
  <2>3. CASE session' = [session EXCEPT ![c].pending = told]
    BY <2>1, <2>3, QueueKeeps
  <2>4. QED BY <2>2, <2>3
<1>2. \A d \in Conns : session'[d].client = session[d].client
  BY RoutesKeep DEF RoutesFrame
<1>3. QED BY <1>1, <1>2 DEF Broadcasts, BeginBroadcast, SendBroadcast, EndBroadcast,
                            UNCHANGEDbyCast

LEMMA HandshakeKeepsClosing ==
  ASSUME ChannelTypeOK, ClosingInv, NEW c \in Conns, Handshake(c)
  PROVE  ClosingInv'
<1> USE DEF ClosingInv
<1>1. /\ pc[c] \notin Entering => pc'[c] \notin Entering
      /\ \/ registered' \subseteq registered
         \/ /\ registered' = registered \union {c}
            /\ pc[c] \in Entering /\ pc'[c] \notin Entering
  BY DEF Handshake, HandshakeFails, Authenticate, LoadProfile, Register, Greet, Goto, Close,
         Entering, ChannelTypeOK
<1>2. /\ UNCHANGED <<claims, doomed>>
      /\ \A d \in Conns : /\ session'[d].client = session[d].client
                          /\ session'[d].invalidated = session[d].invalidated
                          /\ d # c => pc'[d] = pc[d]
  BY HandshakeKeeps DEF HandshakeFrame
<1>3. RegistryInv'
  <2>1. \A d \in registered' \union doomed' : pc'[d] \notin Entering
    BY <1>1, <1>2 DEF RegistryInv, ChannelTypeOK
  <2>2. \A t \in claims' : \A d \in t.targets : pc'[d] \notin Entering
    BY <1>1, <1>2 DEF RegistryInv, ChannelTypeOK, Claims
  <2>3. \A d \in Conns : session'[d].invalidated => pc'[d] \notin Entering
    BY <1>1, <1>2 DEF RegistryInv
  <2>4. QED BY <2>1, <2>2, <2>3 DEF RegistryInv
<1>4. OwnTargets'
  BY <1>2 DEF OwnTargets, ChannelTypeOK, Claims
<1>5. InvalidatedIsTold'
  <2>1. \A d \in registered' : session'[d].invalidated => d \in registered
    BY <1>1, <1>2 DEF RegistryInv, ChannelTypeOK
  <2>2. QED BY <1>2, <2>1 DEF InvalidatedIsTold, ChannelTypeOK
<1>6. DoomedHasRequest'
  <2>1. doomed' \intersect registered' \subseteq doomed \intersect registered
    BY <1>1, <1>2 DEF RegistryInv
  <2>2. QED BY <1>2, <2>1 DEF DoomedHasRequest, ChannelTypeOK
<1>7. QED BY <1>3, <1>4, <1>5, <1>6

(* A new request that has its targets still to pick, or picks them now.    *)
LEMMA NewTargetsKeepClosing ==
  ASSUME ChannelTypeOK, ClosingInv, UNCHANGED <<pc, session, registered>>,
         NEW t, t.targets \in {{}, LiveSessions(t.client)},
         t.picked => t.targets = LiveSessions(t.client),
         doomed' \in {doomed, doomed \union {c \in registered : session[c].client = t.client}},
         \/ claims' = claims \union {t}
         \/ \E u \in claims : /\ claims' = (claims \ {u}) \union {t}
                              /\ t.client = u.client /\ t.telling = u.telling
  PROVE  ClosingInv'
<1> USE DEF ClosingInv
<1>1. LiveSessions(t.client) \subseteq {c \in registered : session[c].client = t.client}
  BY DEF LiveSessions
<1>2. t \in claims'
  OBVIOUS
<1>3. \A u \in claims : \E v \in claims' : v.client = u.client /\ v.telling = u.telling
  OBVIOUS
<1>4. RegistryInv'
  BY <1>1 DEF RegistryInv
<1>5. OwnTargets'
  BY <1>1 DEF OwnTargets
<1>6. InvalidatedIsTold'
  BY <1>3 DEF InvalidatedIsTold
<1>7. DoomedHasRequest'
  <2> SUFFICES ASSUME NEW c \in doomed' \intersect registered
               PROVE  \E v \in claims' : /\ v.client = session[c].client
                                         /\ ~v.picked \/ c \in v.targets \/ c \in v.telling
    BY DEF DoomedHasRequest
  <2>1. CASE session[c].invalidated
    BY <1>3, <2>1 DEF InvalidatedIsTold
  <2>2. CASE ~session[c].invalidated /\ session[c].client = t.client
    BY <1>2, <2>2 DEF LiveSessions
  <2>3. CASE session[c].client # t.client
    <3>1. PICK v \in claims : /\ v.client = session[c].client
                              /\ ~v.picked \/ c \in v.targets \/ c \in v.telling
      BY <2>3 DEF DoomedHasRequest
    <3>2. v \in claims'
      BY <2>3, <3>1
    <3>3. QED BY <3>1, <3>2
  <2>4. QED BY <2>1, <2>2, <2>3
<1>8. QED BY <1>4, <1>5, <1>6, <1>7

LEMMA DeviceRoutesKeepClosing ==
  ASSUME ChannelTypeOK, ClosingInv, DeviceRoutes
  PROVE  ClosingInv'
<1> USE DEF UNCHANGEDbyDevice
<1>0. pc' = pc /\ \A d \in Conns : session'[d].client = session[d].client
  BY RoutesKeep DEF RoutesFrame
<1>1. ASSUME NEW k \in Clients, ClaimToken(k) PROVE ClosingInv'
  <2> DEFINE t == [client |-> k, generation |-> generation[k] + 1, picked |-> FALSE,
                   targets |-> {}, telling |-> {}]
  <2>1. /\ claims' = claims \union {t} /\ t.client = k /\ ~t.picked /\ t.targets = {}
        /\ UNCHANGED <<session, registered>>
        /\ doomed' = doomed \union {c \in registered : session[c].client = k}
    BY <1>1 DEF ClaimToken, Doom
  <2> HIDE DEF t
  <2>2. QED BY <1>0, <2>1, NewTargetsKeepClosing
<1>2. ASSUME NEW k \in Clients, RevokeDevice(k) PROVE ClosingInv'
  <2> DEFINE t == [client |-> k, generation |-> 0, picked |-> TRUE, targets |-> LiveSessions(k),
                   telling |-> {}]
  <2>1. /\ claims' = claims \union {t} /\ t.client = k /\ t.targets = LiveSessions(k)
        /\ UNCHANGED <<session, registered>>
        /\ doomed' = doomed \union {c \in registered : session[c].client = k}
    BY <1>2 DEF RevokeDevice, Doom
  <2> HIDE DEF t
  <2>2. QED BY <1>0, <2>1, NewTargetsKeepClosing
<1>3. ASSUME NEW u \in claims, PickTargets(u) PROVE ClosingInv'
  <2> DEFINE t == [u EXCEPT !.picked = TRUE, !.targets = LiveSessions(u.client)]
  <2>1. /\ claims' = (claims \ {u}) \union {t}
        /\ t.client = u.client /\ t.telling = u.telling /\ t.targets = LiveSessions(u.client)
        /\ UNCHANGED <<session, registered, doomed>>
    BY <1>3 DEF PickTargets, ChannelTypeOK, Claims
  <2> HIDE DEF t
  <2>2. QED BY <1>0, <2>1, NewTargetsKeepClosing
<1>4. ASSUME NEW t \in claims, NEW c \in Conns, BeginClose(t, c) PROVE ClosingInv'
  <2> DEFINE u == [t EXCEPT !.targets = @ \ {c}, !.telling = @ \union {c}]
  <2>1. /\ claims' = (claims \ {t}) \union {u}
        /\ u.client = t.client /\ u.picked = t.picked /\ u.targets = t.targets \ {c}
        /\ u.telling = t.telling \union {c}
        /\ UNCHANGED <<registered, doomed>> /\ c \in t.targets
    BY <1>4 DEF BeginClose, ChannelTypeOK, Claims
  <2> HIDE DEF u
  <2>2. pc[c] \notin Entering /\ session[c].client = t.client
    BY <2>1 DEF ClosingInv, RegistryInv, OwnTargets
  <2>3. \A d \in Conns \ {c} : session'[d] = session[d]
    BY <1>4 DEF BeginClose, ChannelTypeOK
  <2>4. RegistryInv'
    BY <1>0, <2>1, <2>2, <2>3 DEF ClosingInv, RegistryInv
  <2>5. OwnTargets'
    BY <1>0, <2>1 DEF ClosingInv, OwnTargets, ChannelTypeOK, Claims
  <2>6. InvalidatedIsTold'
    BY <1>0, <2>1, <2>2, <2>3 DEF ClosingInv, InvalidatedIsTold, ChannelTypeOK
  <2>7. DoomedHasRequest'
    BY <1>0, <2>1 DEF ClosingInv, DoomedHasRequest, ChannelTypeOK
  <2>8. QED BY <2>4, <2>5, <2>6, <2>7 DEF ClosingInv
<1>5. ASSUME NEW t \in claims, NEW c \in Conns, EndClose(t, c) PROVE ClosingInv'
  <2> DEFINE u == [t EXCEPT !.telling = @ \ {c}]
  <2>1. /\ claims' = (claims \ {t}) \union {u}
        /\ u.client = t.client /\ u.picked = t.picked /\ u.targets = t.targets
        /\ u.telling = t.telling \ {c}
        /\ UNCHANGED <<session, doomed>> /\ registered' = registered \ {c}
    BY <1>5 DEF EndClose, ChannelTypeOK, Claims
  <2> HIDE DEF u
  <2>2. RegistryInv' /\ OwnTargets'
    BY <1>0, <2>1 DEF ClosingInv, RegistryInv, OwnTargets
  <2>3. InvalidatedIsTold'
    BY <2>1 DEF ClosingInv, InvalidatedIsTold
  <2>4. DoomedHasRequest'
    BY <2>1 DEF ClosingInv, DoomedHasRequest
  <2>5. QED BY <2>2, <2>3, <2>4 DEF ClosingInv
<1>6. ASSUME NEW t \in claims, FinishClaim(t) PROVE ClosingInv'
  <2>1. /\ t.picked /\ t.targets = {} /\ t.telling = {} /\ claims' = claims \ {t}
        /\ UNCHANGED <<session, registered, doomed>>
    BY <1>6 DEF FinishClaim
  <2>2. QED BY <1>0, <2>1 DEF ClosingInv, RegistryInv, OwnTargets, InvalidatedIsTold,
                              DoomedHasRequest
<1>7. QED BY <1>1, <1>2, <1>3, <1>4, <1>5, <1>6 DEF DeviceRoutes

(* invalidate_client_sessions: once the requests that replaced or revoked  *)
(* a credential have answered, the sessions registered at the change are   *)
(* out of the registry, whatever they were doing meanwhile.                *)
THEOREM RevocationCloses == Spec => []RevokedSessionsClosed
<1>1. Init => ClosingInv
  BY DEF Init, ClosingInv, RegistryInv, OwnTargets, InvalidatedIsTold, DoomedHasRequest
<1>2. ChannelTypeOK /\ ClosingInv /\ [Next]_vars => ClosingInv'
  <2> SUFFICES ASSUME ChannelTypeOK, ClosingInv, [Next]_vars PROVE ClosingInv'
    OBVIOUS
  <2> USE DEF ClosingInv, RegistryInv, OwnTargets, InvalidatedIsTold, DoomedHasRequest
  <2>1. ASSUME NEW c \in Conns, Loop(c) PROVE ClosingInv'
    <3>1. /\ UNCHANGED <<claims, doomed>> /\ registered' \subseteq registered
          /\ \A d \in Conns : /\ session'[d].client = session[d].client
                              /\ session'[d].invalidated = session[d].invalidated
                              /\ pc[d] \notin Entering => pc'[d] \notin Entering
      BY <2>1, LoopKeeps DEF LoopFrame
    <3>2. QED BY <3>1 DEF ChannelTypeOK, Claims
  <2>2. CASE Broadcasts
    BY <2>2, BroadcastsKeep DEF ChannelTypeOK, Claims
  <2>3. CASE ProfileRoutes \/ UNCHANGED vars
    <3>1. UNCHANGED <<pc, session, registered, claims, doomed>>
      BY <2>3 DEF ProfileRoutes, CreateProfile, ChangeProfile, ActivateProfile, ReadBeforeDelete,
         DeleteProfile, DeleteRefused, ReadActive, UNCHANGEDbyRoute, vars
    <3>2. QED BY <3>1
  <2>4. QED BY <2>1, <2>2, <2>3, HandshakeKeepsClosing, DeviceRoutesKeepClosing DEF Next
<1>3. ClosingInv => RevokedSessionsClosed
  <2> SUFFICES ASSUME ClosingInv, NEW c \in doomed,
                      \A t \in claims : t.client # session[c].client
               PROVE  c \notin registered
    BY DEF RevokedSessionsClosed
  <2>1. QED BY DEF ClosingInv, DoomedHasRequest
<1>4. QED BY <1>1, <1>2, <1>3, TypeCorrect, PTL DEF Spec
=============================================================================
