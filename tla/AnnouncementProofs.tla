------------------------- MODULE AnnouncementProofs -------------------------
(***************************************************************************)
(* Proofs about the announcements of WebSocketChannel: in which order a    *)
(* session hears of revisions, and that it hears of the changes it is      *)
(* owed, for every number of sessions, profiles, deletions and             *)
(* announcements under way.                                                *)
(***************************************************************************)
EXTENDS WebSocketChannelProofs

USE DEF StoreTypeOK, CredentialTypeOK, Gone, storeVars, credentialVars, coroutineVars,
        routeVars, managerVars, deviceVars, historyVars

ProfileOf(c) == session[c].profile

(* A session is in the registry from its greeting on, with the profile it  *)
(* loaded.  No announcement is queued for a session that is greeted: its   *)
(* lock is held from the registration to the end of the greeting.          *)
EntryInv ==
  \A c \in Conns :
    /\ pc[c] \in Entering => /\ c \notin registered
                             /\ c \notin casting.targets
                             /\ owed[c] = 0
    /\ pc[c] \in Entering \union {"greeting"} => /\ ~session[c].ready
                                                 /\ session[c].pending = <<>>
    /\ pc[c] \in {"handshake", "loading"} => ProfileOf(c) = NoProfile
    /\ pc[c] = "registering" => ProfileOf(c) \in Profiles
    /\ c \in registered => /\ ProfileOf(c) \in Profiles
                           /\ pc[c] = "greeting" \/ session[c].ready
    /\ ~session[c].ready => announced[c] = 0

(* The broadcast under way is of the revision the guard holds, and goes to *)
(* sessions of its profile.                                                *)
CastInv ==
  /\ casting.running /\ casting.message.reason # "deleted"
       => /\ casting.message.revision > 0
          /\ lastBroadcast[casting.message.profile] = casting.message.revision
  /\ \A c \in casting.targets : casting.running /\ ProfileOf(c) = casting.message.profile

(* A session that is still reached has heard of nothing newer than the     *)
(* guard, or than the broadcast it waits for.                              *)
Reached(c) == /\ c \in registered /\ c \notin casting.stale
              /\ ~session[c].invalidated

HeardInv ==
  \A c \in Conns : announced[c] > 0 =>
    /\ c \in casting.targets /\ casting.message.reason # "deleted"
         => announced[c] <= casting.message.revision
    /\ Reached(c) /\ c \notin casting.targets
         => announced[c] <= lastBroadcast[ProfileOf(c)]

OrderInv == EntryInv /\ CastInv /\ HeardInv

(* While a profile is not deleted, neither the guard nor an announcement   *)
(* is ahead of its revision, and no deletion of it is announced.           *)
FreshInv ==
  \A p \in Profiles \ deleted :
    /\ lastBroadcast[p] <= revision[p]
    /\ \A m \in outbox : m.profile = p => m.reason # "deleted" /\ m.revision <= revision[p]
    /\ casting.running /\ casting.message.profile = p => casting.message.reason # "deleted"

(* No session has heard of a revision that does not exist. *)
KnownInv ==
  \A c \in Conns :
    ProfileOf(c) \in Profiles \ deleted => Told(c) <= revision[ProfileOf(c)]

(* A revision a session is owed is announced, or on its way; and once the  *)
(* guard has passed it, the session was told or is about to be: whatever   *)
(* moved the guard there was announced after the change, hence while the   *)
(* session was in the registry.                                            *)
DebtInv ==
  \A c \in Conns :
    owed[c] > 0 /\ Reached(c) /\ ProfileOf(c) \notin deleted =>
      /\ \/ lastBroadcast[ProfileOf(c)] >= owed[c]
         \/ \E m \in outbox : m.profile = ProfileOf(c) /\ m.revision >= owed[c]
      /\ lastBroadcast[ProfileOf(c)] >= owed[c]
           => c \in casting.targets \/ Told(c) >= owed[c]

ReachInv == FreshInv /\ KnownInv /\ DebtInv

(* What a step that has no part in announcements leaves alone. *)
QuietFrame ==
  /\ UNCHANGED <<revision, snapshot, lastBroadcast, casting, outbox, announced, owed, deleted>>
  /\ registered' \subseteq registered
  /\ \A c \in Conns : /\ ProfileOf(c)' = ProfileOf(c)
                      /\ session'[c].ready = session[c].ready
                      /\ session'[c].pending = session[c].pending
                      /\ session[c].invalidated => session'[c].invalidated
  /\ \A c \in Conns : \/ pc'[c] = pc[c]
                      \/ pc[c] \in {"handshake", "loading"} /\ pc'[c] \in {"handshake", "loading"}
                      \/ /\ pc'[c] \notin Entering \union {"greeting"}
                         /\ c \in registered' => session[c].ready

-----------------------------------------------------------------------------
LEMMA RememberIsQuiet ==
  ASSUME ChannelTypeOK, NEW c \in Conns, NEW r, Remember(c, r)
  PROVE  \A d \in Conns : /\ ProfileOf(d)' = ProfileOf(d)
                          /\ session'[d].ready = session[d].ready
                          /\ session'[d].pending = session[d].pending
                          /\ session'[d].invalidated = session[d].invalidated
<1>1. PICK kept : session' = [session EXCEPT ![c].responses = kept]
  BY DEF Remember
<1>2. session \in [Conns -> Sessions]
  BY DEF ChannelTypeOK
<1>3. \A d \in Conns : /\ session'[d].profile = session[d].profile
                       /\ session'[d].ready = session[d].ready
                       /\ session'[d].pending = session[d].pending
                       /\ session'[d].invalidated = session[d].invalidated
  BY <1>1, <1>2 DEF Sessions
<1>4. QED BY <1>3 DEF ProfileOf

LEMMA LoopIsQuiet ==
  ASSUME ChannelTypeOK, EntryInv, NEW c \in Conns, Loop(c)
  PROVE  QuietFrame
<1> USE DEF UNCHANGEDbyLoop, ChannelTypeOK, Goto, Close, Reply, AfterReply, Entering, ProfileOf
<1> DEFINE Steady == \A d \in Conns : /\ ProfileOf(d)' = ProfileOf(d)
                                      /\ session'[d].ready = session[d].ready
                                      /\ session'[d].pending = session[d].pending
                                      /\ session'[d].invalidated = session[d].invalidated
           Moves == \A d \in Conns :
                      \/ pc'[d] = pc[d]
                      \/ /\ pc'[d] \notin Entering \union {"greeting"}
                         /\ d \in registered' => session[d].ready
<1>1. Steady
  BY RememberIsQuiet
     DEF Loop, Disconnect, SendFails, ReceiveTimeout, ReceiveOther, ReceivePress,
         CheckCredential, Dispatch, ReadProfile, Execute, DropReply, BeginReply, FinishReply
<1>2. registered' \subseteq registered
  BY DEF Loop, Disconnect, SendFails, ReceiveTimeout, ReceiveOther, ReceivePress,
         CheckCredential, ReadProfile, Execute, DropReply, BeginReply, FinishReply
<1>3. UNCHANGED <<storeVars, snapshot, lastBroadcast, casting, outbox, announced, owed, deleted>>
  BY DEF Loop, Disconnect, SendFails, ReceiveTimeout, ReceiveOther, ReceivePress,
         CheckCredential, ReadProfile, Execute, DropReply, BeginReply, FinishReply
<1>4. /\ \A d \in Conns \ {c} : pc'[d] = pc[d]
      /\ pc'[c] \notin Entering \union {"greeting"}
      /\ pc[c] = "greeting" => c \notin registered'
  BY DEF Loop, Disconnect, SendFails, ReceiveTimeout, ReceiveOther, ReceivePress,
         CheckCredential, Dispatch, ReadProfile, Execute, DropReply, BeginReply, FinishReply
<1>5. Moves
  BY <1>2, <1>4 DEF EntryInv
<1> HIDE DEF Steady, Moves
<1>6. QED BY <1>1, <1>2, <1>3, <1>5 DEF QuietFrame, Steady, Moves

LEMMA DeviceRoutesAreQuiet ==
  ASSUME ChannelTypeOK, DeviceRoutes
  PROVE  QuietFrame
<1> USE DEF UNCHANGEDbyDevice, ChannelTypeOK, ProfileOf, QuietFrame
<1>1. ASSUME NEW k \in Clients, ClaimToken(k) \/ RevokeDevice(k) PROVE QuietFrame
  BY <1>1 DEF ClaimToken, RevokeDevice
<1>2. ASSUME NEW t \in claims, PickTargets(t) \/ FinishClaim(t) PROVE QuietFrame
  BY <1>2 DEF PickTargets, FinishClaim
<1>3. ASSUME NEW t \in claims, NEW c \in Conns, BeginClose(t, c) PROVE QuietFrame
  BY <1>3 DEF BeginClose, Sessions
<1>4. ASSUME NEW t \in claims, NEW c \in Conns, EndClose(t, c) PROVE QuietFrame
  BY <1>4 DEF EndClose
<1>5. QED BY <1>1, <1>2, <1>3, <1>4 DEF DeviceRoutes

LEMMA RefusalsAreQuiet ==
  ASSUME ChannelTypeOK, NEW c \in Conns, HandshakeFails(c) \/ Authenticate(c)
  PROVE  QuietFrame
<1> USE DEF UNCHANGEDbyHandshake, ChannelTypeOK, Goto, Close, Entering, ProfileOf, QuietFrame
<1>1. CASE HandshakeFails(c)
  BY <1>1 DEF HandshakeFails
<1>2. CASE Authenticate(c)
  <2>1. /\ UNCHANGED <<storeVars, snapshot, lastBroadcast, casting, outbox, announced, owed,
                       deleted, registered>>
        /\ pc[c] = "handshake" /\ pc'[c] = "loading" /\ \A d \in Conns \ {c} : pc'[d] = pc[d]
    BY <1>2 DEF Authenticate
  <2>2. session' = [session EXCEPT ![c].generation = token[session[c].client]]
    BY <1>2 DEF Authenticate
  <2>3. \A d \in Conns : /\ session'[d].profile = session[d].profile
                         /\ session'[d].ready = session[d].ready
                         /\ session'[d].pending = session[d].pending
                         /\ session'[d].invalidated = session[d].invalidated
    BY <2>2 DEF Sessions
  <2>4. QED BY <2>1, <2>3
<1>3. QED BY <1>1, <1>2

-----------------------------------------------------------------------------
(* Each part of the invariant survives a step without announcements.       *)

LEMMA CastShape ==
  ASSUME ChannelTypeOK
  PROVE  /\ casting.targets \subseteq Conns /\ casting.stale \subseteq Conns
         /\ casting.running \in BOOLEAN
         /\ casting.running => casting.message \in Messages
         /\ ~casting.running => casting.targets = {} /\ casting.stale = {}
<1>1. casting \in Casts \/ casting = NoCast
  BY DEF ChannelTypeOK
<1>2. CASE casting \in Casts
  BY <1>2 DEF Casts
<1>3. CASE casting = NoCast
  BY <1>3 DEF NoCast
<1>4. QED BY <1>1, <1>2, <1>3

LEMMA QuietKeepsOrder ==
  ASSUME ChannelTypeOK, OrderInv, QuietFrame
  PROVE  OrderInv'
<1> USE DEF QuietFrame, OrderInv, ProfileOf
<1>1. EntryInv'
  BY DEF EntryInv, Entering
<1>2. CastInv'
  BY CastShape DEF CastInv
<1>3. HeardInv'
  BY DEF HeardInv, Reached
<1>4. QED BY <1>1, <1>2, <1>3

LEMMA QuietKeepsReach ==
  ASSUME ChannelTypeOK, ReachInv, QuietFrame
  PROVE  ReachInv'
<1> USE DEF QuietFrame, ReachInv, ProfileOf
<1>1. FreshInv'
  BY DEF FreshInv
<1>2. KnownInv'
  BY DEF KnownInv, Told
<1>3. DebtInv'
  BY DEF DebtInv, Reached, Told
<1>4. QED BY <1>1, <1>2, <1>3

LEMMA LoadKeeps ==
  ASSUME ChannelTypeOK, OrderInv, ReachInv, NEW c \in Conns, NEW q \in Profiles,
         LoadProfile(c, q)
  PROVE  OrderInv' /\ ReachInv'
<1> USE DEF OrderInv, ReachInv, ProfileOf, LoadProfile, UNCHANGEDbyHandshake, Goto, Entering
<1>1. /\ ProfileOf(c)' = q /\ snapshot'[c] = revision[q] /\ pc'[c] = "registering"
      /\ pc[c] = "loading" /\ announced[c] = 0 /\ c \notin registered /\ c \notin casting.targets
      /\ \A d \in Conns \ {c} : /\ session'[d] = session[d] /\ pc'[d] = pc[d]
                               /\ snapshot'[d] = snapshot[d]
      /\ session'[c].ready = session[c].ready /\ session'[c].pending = session[c].pending
      /\ session'[c].invalidated = session[c].invalidated
      /\ UNCHANGED <<revision, registered, lastBroadcast, casting, outbox, announced, owed, deleted>>
  BY DEF ChannelTypeOK, EntryInv, Sessions
<1> HIDE DEF LoadProfile
<1>2. EntryInv'
  BY <1>1 DEF EntryInv
<1>3. CastInv'
  <2>1. \A d \in casting.targets : d \in Conns /\ d # c
    BY <1>1, CastShape
  <2>2. QED BY <1>1, <2>1 DEF CastInv
<1>4. HeardInv'
  BY <1>1 DEF HeardInv, Reached
<1>5. FreshInv'
  BY <1>1 DEF FreshInv
<1>6. KnownInv'
  <2>1. revision[q] <= revision[q]
    BY DEF ChannelTypeOK
  <2>2. QED BY <1>1, <2>1 DEF KnownInv, Told
<1>7. DebtInv'
  BY <1>1 DEF DebtInv, Reached, Told
<1>8. QED BY <1>2, <1>3, <1>4, <1>5, <1>6, <1>7

LEMMA RegisterKeeps ==
  ASSUME ChannelTypeOK, OrderInv, ReachInv, NEW c \in Conns, Register(c)
  PROVE  OrderInv' /\ ReachInv'
<1> USE DEF OrderInv, ReachInv, ProfileOf, UNCHANGEDbyHandshake, Goto, Entering
<1>1. /\ pc[c] = "registering" /\ pc'[c] \in {"greeting", "closed"}
      /\ registered' \subseteq registered \union {c}
      /\ pc'[c] = "closed" => c \notin registered'
      /\ \A d \in Conns \ {c} : pc'[d] = pc[d]
      /\ UNCHANGED <<revision, session, snapshot, lastBroadcast, casting, outbox, announced,
                     owed, deleted>>
  BY DEF Register, Close, ChannelTypeOK
<1>2. owed[c] = 0 /\ announced[c] = 0
  BY <1>1 DEF EntryInv
<1>3. EntryInv'
  BY <1>1 DEF EntryInv
<1>4. CastInv'
  BY <1>1 DEF CastInv
<1>5. HeardInv'
  BY <1>1, <1>2 DEF HeardInv, Reached
<1>6. FreshInv' /\ KnownInv'
  BY <1>1 DEF FreshInv, KnownInv, Told
<1>7. DebtInv'
  BY <1>1, <1>2 DEF DebtInv, Reached, Told
<1>8. QED BY <1>3, <1>4, <1>5, <1>6, <1>7

LEMMA GreetKeeps ==
  ASSUME ChannelTypeOK, OrderInv, ReachInv, NEW c \in Conns, Greet(c)
  PROVE  OrderInv' /\ ReachInv' /\ UNCHANGED announced
<1> USE DEF OrderInv, ReachInv, ProfileOf, UNCHANGEDbyHandshake, Goto, Entering
<1>1. pc[c] = "greeting" /\ session[c].pending = <<>>
  BY DEF Greet, EntryInv
<1>2. /\ pc'[c] = "idle" /\ session'[c].ready
      /\ \A d \in Conns \ {c} : pc'[d] = pc[d] /\ session'[d] = session[d]
      /\ \A d \in Conns : /\ ProfileOf(d)' = ProfileOf(d)
                          /\ session'[d].invalidated = session[d].invalidated
      /\ UNCHANGED <<revision, registered, snapshot, lastBroadcast, casting, outbox, announced,
                     owed, deleted>>
  <2>1. /\ pc' = [pc EXCEPT ![c] = "idle"]
        /\ session' = [session EXCEPT ![c].ready = TRUE, ![c].pending = <<>>]
        /\ UNCHANGED <<revision, registered, snapshot, lastBroadcast, casting, outbox, announced,
                       owed, deleted>>
    BY <1>1 DEF Greet
  <2>2. pc'[c] = "idle" /\ \A d \in Conns \ {c} : pc'[d] = pc[d]
    BY <2>1 DEF ChannelTypeOK
  <2>3. session \in [Conns -> Sessions]
    BY DEF ChannelTypeOK
  <2>4. session'[c].ready /\ \A d \in Conns \ {c} : session'[d] = session[d]
    BY <2>1, <2>3 DEF Sessions
  <2>5. session'[c].profile = session[c].profile /\ session'[c].invalidated = session[c].invalidated
    BY <2>1, <2>3 DEF Sessions
  <2>6. QED BY <2>1, <2>2, <2>4, <2>5
<1>3. EntryInv'
  BY <1>1, <1>2 DEF EntryInv
<1>4. CastInv'
  BY <1>2, CastShape DEF CastInv
<1>5. HeardInv'
  BY <1>2 DEF HeardInv, Reached
<1>6. FreshInv' /\ KnownInv'
  BY <1>2 DEF FreshInv, KnownInv, Told
<1>7. DebtInv'
  BY <1>2 DEF DebtInv, Reached, Told
<1>8. QED BY <1>2, <1>3, <1>4, <1>5, <1>6, <1>7

-----------------------------------------------------------------------------
(* The routes.                                                             *)

RouteFrame == UNCHANGED <<coroutineVars, managerVars, announced>>

(* A change is committed, owed to the sessions of its profile and put on   *)
(* its way: it is newer than anything announced so far.                    *)
LEMMA CommitKeeps ==
  ASSUME ChannelTypeOK, OrderInv, ReachInv, RouteFrame, NEW p \in Profiles,
         NEW v \in Nat, v = revision[p] + 1, revision' = [revision EXCEPT ![p] = v],
         NEW why \in {"created", "updated"}, Announce(p, v, why), Owe(p, v)
  PROVE  OrderInv' /\ ReachInv'
<1> USE DEF OrderInv, ReachInv, RouteFrame, ProfileOf
<1> DEFINE news == [profile |-> p, revision |-> v, reason |-> why]
<1>1. outbox' = outbox \union {news} /\ UNCHANGED deleted
  BY DEF Announce, Owe
<1>2. \A q \in Profiles : /\ revision[q] \in Nat /\ lastBroadcast[q] \in Nat
                         /\ revision'[q] = IF q = p THEN v ELSE revision[q]
  BY DEF ChannelTypeOK
<1>3. \A c \in Conns : owed'[c] = IF c \in registered /\ ProfileOf(c) = p THEN v ELSE owed[c]
  BY DEF Owe
<1>4. news.profile = p /\ news.revision = v /\ news.reason # "deleted"
  OBVIOUS
<1>5. \A m \in outbox : m.revision \in Nat
  BY DEF ChannelTypeOK, Messages
<1> HIDE DEF news
<1>6. EntryInv'
  BY <1>3 DEF EntryInv
<1>7. CastInv' /\ HeardInv'
  BY DEF CastInv, HeardInv, Reached
<1>8. FreshInv'
  BY <1>1, <1>2, <1>4, <1>5 DEF FreshInv
<1>9. KnownInv'
  <2>1. \A c \in Conns : Told(c) \in Int
    BY DEF ChannelTypeOK, Told
  <2>2. QED BY <1>1, <1>2, <2>1 DEF KnownInv, Told
<1>10. DebtInv'
  <2> SUFFICES ASSUME NEW c \in Conns, owed'[c] > 0, Reached(c), ProfileOf(c) \notin deleted
               PROVE  /\ \/ lastBroadcast[ProfileOf(c)] >= owed'[c]
                         \/ \E m \in outbox' : m.profile = ProfileOf(c) /\ m.revision >= owed'[c]
                      /\ lastBroadcast[ProfileOf(c)] >= owed'[c]
                           => c \in casting.targets \/ Told(c) >= owed'[c]
    BY <1>1 DEF DebtInv, Reached, Told
  <2>1. CASE ProfileOf(c) = p
    <3>1. owed'[c] = v
      BY <1>3, <2>1 DEF Reached
    <3>2. lastBroadcast[p] < v
      BY <1>2, <2>1 DEF FreshInv
    <3>3. v >= v
      OBVIOUS
    <3>4. QED BY <1>1, <1>2, <1>4, <2>1, <3>1, <3>2, <3>3
  <2>2. CASE ProfileOf(c) # p
    BY <1>1, <1>3, <2>2 DEF DebtInv
  <2>3. QED BY <2>1, <2>2
<1>11. QED BY <1>6, <1>7, <1>8, <1>9, <1>10

(* An announcement of a revision that exists, or none. *)
LEMMA RepeatKeeps ==
  ASSUME ChannelTypeOK, OrderInv, ReachInv, RouteFrame,
         UNCHANGED <<revision, owed, deleted>>,
         NEW news, outbox' \in {outbox, outbox \union {news}},
         outbox' # outbox => /\ news.profile \in Profiles /\ news.reason # "deleted"
                             /\ news.revision <= revision[news.profile]
  PROVE  OrderInv' /\ ReachInv'
<1> USE DEF OrderInv, ReachInv, RouteFrame, ProfileOf
<1>1. EntryInv' /\ CastInv' /\ HeardInv'
  BY DEF EntryInv, CastInv, HeardInv, Reached
<1>2. FreshInv'
  BY DEF FreshInv
<1>3. KnownInv'
  BY DEF KnownInv, Told
<1>4. DebtInv'
  BY DEF DebtInv, Reached, Told
<1>5. QED BY <1>1, <1>2, <1>3, <1>4

LEMMA DeleteKeeps ==
  ASSUME ChannelTypeOK, OrderInv, ReachInv, NEW d \in deleting, NEW q \in Profiles,
         DeleteProfile(d, q)
  PROVE  OrderInv' /\ ReachInv'
<1> USE DEF OrderInv, ReachInv, ProfileOf, UNCHANGEDbyRoute
<1> DEFINE news == [profile |-> d.profile, revision |-> d.revision, reason |-> "deleted"]
<1>1. /\ outbox' = outbox \union {news}
      /\ deleted' = deleted \union {d.profile}
      /\ RouteFrame /\ UNCHANGED owed
  BY DEF DeleteProfile, Announce, RouteFrame
<1>2. \A p \in Profiles \ deleted' : revision'[p] >= revision[p] /\ revision'[p] \in Nat
  <2>1. revision \in [Profiles -> 0..MaxRevision] /\ MaxRevision \in Nat
    BY StoreAssumption DEF ChannelTypeOK
  <2>2. CASE DeleteInactive(d.profile)
    <3>1. revision' = [revision EXCEPT ![d.profile] = 0]
      BY <2>2 DEF DeleteInactive
    <3>2. QED BY <1>1, <2>1, <3>1
  <2>3. CASE DeleteActive(d.profile, q)
    <3>1. revision' = [revision EXCEPT ![d.profile] = 0, ![q] = @ + 1]
      BY <2>3 DEF DeleteActive
    <3>2. QED BY <1>1, <2>1, <3>1
  <2>4. QED BY <2>2, <2>3 DEF DeleteProfile, Delete
<1>3. \A p \in Profiles : revision[p] \in Nat /\ lastBroadcast[p] \in Nat
  BY DEF ChannelTypeOK
<1>4. news.profile = d.profile
  OBVIOUS
<1>5. \A m \in outbox : m.revision \in Nat
  BY DEF ChannelTypeOK, Messages
<1> HIDE DEF news
<1>6. EntryInv' /\ CastInv' /\ HeardInv'
  BY <1>1 DEF EntryInv, CastInv, HeardInv, Reached, RouteFrame
<1>7. FreshInv'
  BY <1>1, <1>2, <1>3, <1>4, <1>5 DEF FreshInv, RouteFrame
<1>8. KnownInv'
  <2>1. \A c \in Conns : Told(c) \in Int
    BY DEF ChannelTypeOK, Told
  <2>2. QED BY <1>1, <1>2, <1>3, <2>1 DEF KnownInv, Told, RouteFrame
<1>9. DebtInv'
  BY <1>1 DEF DebtInv, Reached, Told, RouteFrame
<1>10. QED BY <1>6, <1>7, <1>8, <1>9

LEMMA ProfileRoutesKeep ==
  ASSUME ChannelTypeOK, OrderInv, ReachInv, ProfileRoutes
  PROVE  OrderInv' /\ ReachInv' /\ RouteFrame
<1> USE DEF UNCHANGEDbyRoute, RouteFrame
<1>0. /\ MaxRevision \in Nat /\ NoProfile \notin Profiles
      /\ \A p \in Profiles : revision[p] \in Nat
  BY StoreAssumption DEF ChannelTypeOK
<1>1. ASSUME NEW p \in Profiles, NEW why \in {"created", "updated"}, CreateProfile(p, why)
      PROVE  OrderInv' /\ ReachInv' /\ RouteFrame
  <2>1. /\ 1 = revision[p] + 1 /\ 1 \in Nat
        /\ revision' = [revision EXCEPT ![p] = 1]
        /\ Announce(p, 1, why) /\ Owe(p, 1) /\ RouteFrame
    BY <1>1 DEF CreateProfile, Create
  <2> HIDE DEF RouteFrame
  <2>2. QED BY <2>1, CommitKeeps
<1>2. ASSUME NEW p \in Profiles, ChangeProfile(p)
      PROVE  OrderInv' /\ ReachInv' /\ RouteFrame
  <2> DEFINE v == revision[p] + 1
  <2>1. /\ v \in Nat /\ revision' = [revision EXCEPT ![p] = v]
        /\ Announce(p, v, "updated") /\ Owe(p, v) /\ RouteFrame
    BY <1>0, <1>2 DEF ChangeProfile, Change
  <2>2. v = revision[p] + 1
    OBVIOUS
  <2> HIDE DEF v, RouteFrame
  <2>3. QED BY <2>1, <2>2, CommitKeeps
<1>3. ASSUME NEW p \in Profiles, ActivateProfile(p)
      PROVE  OrderInv' /\ ReachInv' /\ RouteFrame
  <2>1. CASE Activate(p) /\ Announce(p, revision[p] + 1, "updated") /\ Owe(p, revision[p] + 1)
    <3> DEFINE v == revision[p] + 1
    <3>1. /\ v \in Nat /\ revision' = [revision EXCEPT ![p] = v]
          /\ Announce(p, v, "updated") /\ Owe(p, v) /\ RouteFrame
      BY <1>0, <1>3, <2>1 DEF ActivateProfile, Activate
    <3>2. v = revision[p] + 1
      OBVIOUS
    <3> HIDE DEF v, RouteFrame
    <3>3. QED BY <3>1, <3>2, CommitKeeps
  <2>2. CASE Announce(p, revision[p], "updated") /\ UNCHANGED <<storeVars, owed, deleted>>
    <3> DEFINE news == [profile |-> p, revision |-> revision[p], reason |-> "updated"]
    <3>1. outbox' = outbox \union {news} /\ RouteFrame
      BY <1>3, <2>2 DEF Announce, ActivateProfile
    <3>2. /\ news.profile \in Profiles /\ news.reason # "deleted"
          /\ news.revision <= revision[news.profile]
      BY <1>0
    <3> HIDE DEF news
    <3>3. QED BY <2>2, <3>1, <3>2, RepeatKeeps
  <2>3. QED BY <1>3, <2>1, <2>2 DEF ActivateProfile
<1>4. ASSUME NEW p \in Profiles, ReadBeforeDelete(p)
      PROVE  OrderInv' /\ ReachInv' /\ RouteFrame
  BY <1>4, RepeatKeeps DEF ReadBeforeDelete
<1>5. ASSUME NEW d \in deleting, DeleteRefused(d)
      PROVE  OrderInv' /\ ReachInv' /\ RouteFrame
  BY <1>5, RepeatKeeps DEF DeleteRefused
<1>6. ASSUME NEW d \in deleting, NEW q \in Profiles, DeleteProfile(d, q)
      PROVE  OrderInv' /\ ReachInv' /\ RouteFrame
  BY <1>6, DeleteKeeps DEF DeleteProfile
<1>7. CASE ReadActive
  <2>1. CASE active = NoProfile
    BY <1>7, <2>1, RepeatKeeps DEF ReadActive
  <2>2. CASE active # NoProfile
    <3> DEFINE news == [profile |-> active, revision |-> revision[active], reason |-> "updated"]
    <3>1. outbox' = outbox \union {news} /\ RouteFrame /\ UNCHANGED <<storeVars, owed, deleted>>
      BY <1>7, <2>2 DEF Announce, ReadActive
    <3>2. /\ news.profile \in Profiles /\ news.reason # "deleted"
          /\ news.revision <= revision[news.profile]
      BY <1>0, <2>2 DEF ChannelTypeOK
    <3> HIDE DEF news
    <3>3. QED BY <3>1, <3>2, RepeatKeeps
  <2>3. QED BY <2>1, <2>2
<1>8. QED BY <1>1, <1>2, <1>3, <1>4, <1>5, <1>6, <1>7 DEF ProfileRoutes

-----------------------------------------------------------------------------
(* Broadcasts.                                                             *)

(* An announcement that is not newer than one made is dropped. *)
LEMMA DropKeeps ==
  ASSUME ChannelTypeOK, OrderInv, ReachInv, NEW m \in outbox, BeginBroadcast(m), Outdated(m)
  PROVE  OrderInv' /\ ReachInv' /\ UNCHANGED announced
<1> USE DEF OrderInv, ReachInv, UNCHANGEDbyCast, ProfileOf
<1>1. /\ outbox' = outbox \ {m}
      /\ m.reason # "deleted" /\ m.revision <= lastBroadcast[m.profile]
      /\ UNCHANGED <<revision, pc, session, snapshot, registered, lastBroadcast, casting,
                     announced, owed, deleted>>
  BY DEF BeginBroadcast, Outdated
<1>2. /\ m.profile \in Profiles /\ m.revision \in Int
      /\ \A p \in Profiles : lastBroadcast[p] \in Int
      /\ \A c \in Conns : owed[c] \in Int
  BY DEF ChannelTypeOK, Messages
<1>3. EntryInv' /\ CastInv' /\ HeardInv'
  BY <1>1 DEF EntryInv, CastInv, HeardInv, Reached
<1>4. FreshInv' /\ KnownInv'
  BY <1>1 DEF FreshInv, KnownInv, Told
<1>5. DebtInv'
  <2> SUFFICES ASSUME NEW c \in Conns, owed[c] > 0, Reached(c), ProfileOf(c) \notin deleted
               PROVE  /\ \/ lastBroadcast[ProfileOf(c)] >= owed[c]
                         \/ \E n \in outbox' : n.profile = ProfileOf(c) /\ n.revision >= owed[c]
                      /\ lastBroadcast[ProfileOf(c)] >= owed[c]
                           => c \in casting.targets \/ Told(c) >= owed[c]
    BY <1>1 DEF DebtInv, Reached, Told
  <2>1. CASE ProfileOf(c) = m.profile /\ m.revision >= owed[c]
    BY <1>1, <1>2, <2>1 DEF DebtInv
  <2>2. CASE ~(ProfileOf(c) = m.profile /\ m.revision >= owed[c])
    BY <1>1, <2>2 DEF DebtInv
  <2>3. QED BY <2>1, <2>2
<1>6. QED BY <1>1, <1>3, <1>4, <1>5

(* An announcement is made: to every session of its profile that is still  *)
(* reached, and the guard moves on.                                        *)
LEMMA BeginKeeps ==
  ASSUME ChannelTypeOK, OrderInv, ReachInv, NEW m \in outbox, BeginBroadcast(m), ~Outdated(m)
  PROVE  OrderInv' /\ ReachInv' /\ UNCHANGED announced
<1> USE DEF OrderInv, ReachInv, UNCHANGEDbyCast, ProfileOf
<1> DEFINE p == m.profile
           guard == IF m.reason = "deleted" THEN 0 ELSE m.revision
<1>1. /\ ~casting.running
      /\ outbox' = outbox \ {m}
      /\ lastBroadcast' = [lastBroadcast EXCEPT ![p] = guard]
      /\ casting'.message = m /\ casting'.stale = {} /\ casting'.running
      /\ casting'.targets = {c \in registered : ProfileOf(c) = p /\ ~session[c].invalidated}
      /\ UNCHANGED <<revision, pc, session, snapshot, registered, announced, owed, deleted>>
  BY DEF BeginBroadcast
<1>2. casting.targets = {} /\ casting.stale = {}
  BY <1>1, CastShape
<1>3. /\ p \in Profiles /\ m.revision \in Nat
      /\ \A q \in Profiles : /\ lastBroadcast[q] \in Nat
                             /\ lastBroadcast'[q] = IF q = p THEN guard ELSE lastBroadcast[q]
      /\ \A c \in Conns : owed[c] \in Nat /\ announced[c] \in Int
      /\ registered \subseteq Conns
  BY <1>1 DEF ChannelTypeOK, Messages
<1>4. m.reason # "deleted" => guard = m.revision /\ m.revision > lastBroadcast[p]
  BY <1>3 DEF Outdated
<1>5. m.reason = "deleted" => p \in deleted
  BY <1>3 DEF FreshInv
<1>6. \A c \in registered : ProfileOf(c) \in Profiles
  BY <1>3 DEF EntryInv
<1> HIDE DEF guard
<1>7. EntryInv'
  BY <1>1, <1>3 DEF EntryInv
<1>8. CastInv'
  BY <1>1, <1>3, <1>4 DEF CastInv
<1>9. HeardInv'
  <2> SUFFICES ASSUME NEW c \in Conns, announced[c] > 0
               PROVE  /\ c \in casting'.targets /\ m.reason # "deleted"
                           => announced[c] <= m.revision
                      /\ Reached(c)' /\ c \notin casting'.targets
                           => announced[c] <= lastBroadcast'[ProfileOf(c)]
    BY <1>1 DEF HeardInv
  <2>1. ASSUME c \in casting'.targets, m.reason # "deleted"
        PROVE  announced[c] <= m.revision
    <3>1. Reached(c) /\ ProfileOf(c) = p
      BY <1>1, <1>2, <2>1 DEF Reached
    <3>2. announced[c] <= lastBroadcast[p]
      BY <1>2, <3>1 DEF HeardInv
    <3>3. QED BY <1>3, <1>4, <2>1, <3>2
  <2>2. ASSUME Reached(c)', c \notin casting'.targets
        PROVE  announced[c] <= lastBroadcast'[ProfileOf(c)]
    <3>1. Reached(c) /\ ProfileOf(c) # p /\ ProfileOf(c) \in Profiles
      BY <1>1, <1>2, <1>6, <2>2 DEF Reached
    <3>2. QED BY <1>2, <1>3, <3>1 DEF HeardInv
  <2>3. QED BY <2>1, <2>2
<1>10. FreshInv'
  <2>1. \A q \in Profiles \ deleted : lastBroadcast'[q] <= revision[q]
    BY <1>3, <1>4, <1>5 DEF FreshInv
  <2>2. QED BY <1>1, <1>5, <2>1 DEF FreshInv
<1>11. KnownInv'
  BY <1>1 DEF KnownInv, Told
<1>12. DebtInv'
  <2> SUFFICES ASSUME NEW c \in Conns, owed[c] > 0, Reached(c), ProfileOf(c) \notin deleted
               PROVE  /\ \/ lastBroadcast'[ProfileOf(c)] >= owed[c]
                         \/ \E n \in outbox' : n.profile = ProfileOf(c) /\ n.revision >= owed[c]
                      /\ lastBroadcast'[ProfileOf(c)] >= owed[c]
                           => c \in casting'.targets \/ Told(c) >= owed[c]
    BY <1>1, <1>2 DEF DebtInv, Reached, Told
  <2>1. CASE ProfileOf(c) = p
    <3>1. c \in casting'.targets
      BY <1>1, <2>1 DEF Reached
    <3>2. lastBroadcast'[p] = m.revision /\ m.revision > lastBroadcast[p]
      BY <1>3, <1>4, <1>5, <2>1
    <3>3. \/ lastBroadcast[p] >= owed[c]
          \/ \E n \in outbox : n.profile = p /\ n.revision >= owed[c]
      BY <2>1 DEF DebtInv
    <3>4. \/ lastBroadcast'[p] >= owed[c]
          \/ \E n \in outbox' : n.profile = p /\ n.revision >= owed[c]
      BY <1>1, <1>3, <3>2, <3>3
    <3>5. QED BY <2>1, <3>1, <3>4
  <2>2. CASE ProfileOf(c) # p
    <3>1. lastBroadcast'[ProfileOf(c)] = lastBroadcast[ProfileOf(c)]
      BY <1>3, <1>6, <2>2 DEF Reached
    <3>2. QED BY <1>1, <1>2, <2>2, <3>1 DEF DebtInv
  <2>3. QED BY <2>1, <2>2
<1>13. QED BY <1>1, <1>7, <1>8, <1>9, <1>10, <1>11, <1>12

(* One target is done with: skipped, given up, or told the revision the    *)
(* guard holds.                                                            *)
LEMMA SendKeepsOrder ==
  ASSUME ChannelTypeOK, OrderInv, ReachInv, NEW c \in Conns, SendBroadcast(c)
  PROVE  /\ OrderInv' /\ ReachInv'
         /\ announced[c] > 0 /\ announced'[c] > 0 => announced'[c] >= announced[c]
         /\ \A d \in Conns \ {c} : announced'[d] = announced[d]
<1> USE DEF OrderInv, ReachInv, UNCHANGEDbyCast, ProfileOf
<1> DEFINE p == ProfileOf(c)
           m == casting.message
<1>1. /\ c \in casting.targets /\ casting.running /\ m.profile = p
      /\ pc[c] \notin Entering \union {"greeting"}
      /\ UNCHANGED <<revision, pc, snapshot, registered, lastBroadcast, outbox, owed, deleted>>
      /\ casting'.running /\ casting'.message = m
      /\ casting'.targets = casting.targets \ {c}
      /\ casting'.stale \in {casting.stale, casting.stale \union {c}}
  <2>1. casting \in Casts /\ c \in casting.targets
    BY DEF SendBroadcast, ChannelTypeOK, NoCast
  <2>2. casting.running /\ m.profile = p
    BY <2>1 DEF CastInv
  <2>3. pc[c] \notin Entering \union {"greeting"}
    BY <2>1 DEF SendBroadcast, SendLockHeld, OwnSend, EntryInv
  <2>4. QED BY <2>1, <2>2, <2>3 DEF SendBroadcast, Casts
<1>2. /\ m \in Messages /\ lastBroadcast \in [Profiles -> 0..MaxRevision]
      /\ revision \in [Profiles -> 0..MaxRevision] /\ announced \in [Conns -> Gone..MaxRevision]
      /\ snapshot \in [Conns -> 0..MaxRevision] /\ owed \in [Conns -> 0..MaxRevision]
      /\ MaxRevision \in Nat
  BY <1>1, CastShape, StoreAssumption DEF ChannelTypeOK
<1>3. /\ \A d \in Conns : /\ ProfileOf(d)' = ProfileOf(d)
                          /\ session'[d].ready = session[d].ready
                          /\ session'[d].invalidated = session[d].invalidated
      /\ \A d \in Conns \ {c} : /\ session'[d].pending = session[d].pending
                                /\ announced'[d] = announced[d]
  <2>1. /\ session \in [Conns -> Sessions] /\ announced \in [Conns -> Gone..MaxRevision]
        /\ \/ session' = session
           \/ session' = [session EXCEPT ![c].pending = Append(@, Content(casting.message))]
        /\ announced' \in {announced, [announced EXCEPT ![c] = Content(casting.message)]}
    BY DEF SendBroadcast, ChannelTypeOK
  <2>2. CASE session' = session
    BY <2>1, <2>2
  <2>3. CASE session' = [session EXCEPT ![c].pending = Append(@, Content(casting.message))]
    BY <2>1, <2>3 DEF Sessions
  <2>4. QED BY <2>1, <2>2, <2>3
<1>4. \/ announced' = announced /\ ~Reached(c)'
      \/ announced'[c] = Content(m) /\ session[c].ready
  <2>1. c \in registered => session[c].ready
    BY <1>1 DEF EntryInv
  <2>2. CASE session[c].invalidated
    BY <1>3, <2>2 DEF SendBroadcast, Reached
  <2>3. CASE ~session[c].invalidated /\ ~session[c].ready
    BY <1>1, <2>1, <2>3 DEF SendBroadcast, Reached
  <2>4. CASE ~session[c].invalidated /\ session[c].ready
    <3>1. CASE announced' = [announced EXCEPT ![c] = Content(m)]
      BY <1>2, <2>4, <3>1
    <3>2. CASE announced' # [announced EXCEPT ![c] = Content(m)]
      <4>1. /\ casting' = [casting EXCEPT !.targets = @ \ {c}, !.stale = @ \union {c}]
            /\ announced' = announced
        BY <2>4, <3>2 DEF SendBroadcast
      <4>2. casting \in Casts
        BY <1>1 DEF ChannelTypeOK, NoCast
      <4>3. c \in casting'.stale
        BY <4>1, <4>2 DEF Casts
      <4>4. QED BY <4>1, <4>3 DEF Reached
    <3>3. QED BY <3>1, <3>2
  <2>5. QED BY <2>2, <2>3, <2>4
<1>5. /\ m.reason # "deleted" => /\ Content(m) = m.revision /\ m.revision > 0
                                 /\ lastBroadcast[p] = m.revision
                                 /\ announced[c] > 0 => announced[c] <= m.revision
      /\ m.reason = "deleted" => Content(m) = -1
      /\ p \in Profiles
      /\ p \notin deleted => m.reason # "deleted" /\ lastBroadcast[p] <= revision[p]
  BY <1>1, <1>2 DEF Content, CastInv, HeardInv, FreshInv, Messages
<1>6. \A d \in Conns : Reached(d)' => Reached(d)
  BY <1>1, <1>3 DEF Reached
<1> HIDE DEF SendBroadcast, m
<1>7. EntryInv'
  <2>1. \A d \in Conns \ {c} : announced'[d] = announced[d]
    BY <1>3
  <2>2. ~session[c].ready => announced'[c] = 0
    BY <1>4 DEF EntryInv
  <2>3. QED BY <1>1, <1>3, <2>1, <2>2 DEF EntryInv
<1>8. CastInv'
  <2>1. \A d \in casting.targets : d \in Conns
    BY CastShape
  <2>2. QED BY <1>1, <1>3, <2>1 DEF CastInv, m
<1>9. HeardInv'
  <2>1. ASSUME NEW d \in Conns \ {c}, announced'[d] > 0
        PROVE  /\ d \in casting'.targets /\ m.reason # "deleted"
                     => announced'[d] <= m.revision
               /\ Reached(d)' /\ d \notin casting'.targets
                     => announced'[d] <= lastBroadcast[ProfileOf(d)]
    BY <1>1, <1>3, <1>6, <2>1 DEF HeardInv, m
  <2>2. ASSUME announced'[c] > 0, Reached(c)'
        PROVE  announced'[c] <= lastBroadcast[p]
    BY <1>2, <1>4, <1>5, <2>2
  <2>3. QED BY <1>1, <1>3, <2>1, <2>2 DEF HeardInv
<1>10. FreshInv'
  BY <1>1 DEF FreshInv, m
<1>11. KnownInv'
  <2>1. ASSUME NEW d \in Conns \ {c}, ProfileOf(d) \in Profiles \ deleted
        PROVE  Told(d)' <= revision[ProfileOf(d)]
    BY <1>1, <1>3, <2>1 DEF KnownInv, Told
  <2>2. ASSUME p \notin deleted
        PROVE  Told(c)' <= revision[p]
    BY <1>1, <1>2, <1>4, <1>5, <2>2 DEF KnownInv, Told
  <2>3. QED BY <1>1, <1>3, <2>1, <2>2 DEF KnownInv
<1>12. DebtInv'
  <2>1. ASSUME NEW d \in Conns \ {c}, owed[d] > 0, Reached(d)', ProfileOf(d) \notin deleted
        PROVE  /\ \/ lastBroadcast[ProfileOf(d)] >= owed[d]
                  \/ \E n \in outbox : n.profile = ProfileOf(d) /\ n.revision >= owed[d]
               /\ lastBroadcast[ProfileOf(d)] >= owed[d]
                     => d \in casting'.targets \/ Told(d)' >= owed[d]
    BY <1>1, <1>3, <1>6, <2>1 DEF DebtInv, Told
  <2>2. ASSUME owed[c] > 0, Reached(c)', p \notin deleted
        PROVE  /\ \/ lastBroadcast[p] >= owed[c]
                  \/ \E n \in outbox : n.profile = p /\ n.revision >= owed[c]
               /\ lastBroadcast[p] >= owed[c] => Told(c)' >= owed[c]
    <3>1. announced'[c] = lastBroadcast[p] /\ lastBroadcast[p] > 0
      BY <1>4, <1>5, <2>2
    <3>2. QED BY <1>2, <1>6, <2>2, <3>1 DEF DebtInv, Told
  <2>3. QED BY <1>1, <1>3, <2>1, <2>2 DEF DebtInv
<1>13. announced[c] > 0 /\ announced'[c] > 0 => announced'[c] >= announced[c]
  BY <1>2, <1>4, <1>5
<1>14. QED BY <1>3, <1>7, <1>8, <1>9, <1>10, <1>11, <1>12, <1>13

(* Sessions that were given up leave the registry. *)
LEMMA EndKeeps ==
  ASSUME ChannelTypeOK, OrderInv, ReachInv, EndBroadcast
  PROVE  OrderInv' /\ ReachInv' /\ UNCHANGED announced
<1> USE DEF OrderInv, ReachInv, UNCHANGEDbyCast, ProfileOf
<1>1. /\ casting.targets = {} /\ registered' = registered \ casting.stale
      /\ ~casting'.running /\ casting'.targets = {} /\ casting'.stale = {}
      /\ UNCHANGED <<revision, pc, session, snapshot, lastBroadcast, outbox, announced, owed,
                     deleted>>
  BY DEF EndBroadcast, NoCast
<1>2. \A c \in Conns : Reached(c)' <=> Reached(c)
  BY <1>1 DEF Reached
<1>3. EntryInv' /\ CastInv'
  BY <1>1 DEF EntryInv, CastInv
<1>4. HeardInv'
  BY <1>1, <1>2 DEF HeardInv
<1>5. FreshInv' /\ KnownInv'
  BY <1>1 DEF FreshInv, KnownInv, Told
<1>6. DebtInv'
  BY <1>1, <1>2 DEF DebtInv, Told
<1>7. QED BY <1>1, <1>3, <1>4, <1>5, <1>6

-----------------------------------------------------------------------------
LEMMA InitAnnounces == Init => OrderInv /\ ReachInv
<1> SUFFICES ASSUME Init PROVE OrderInv /\ ReachInv
  OBVIOUS
<1>1. \A c \in Conns : /\ session[c].profile = NoProfile /\ ~session[c].ready
                       /\ session[c].pending = <<>>
  BY DEF Init
<1>2. /\ pc = [c \in Conns |-> "handshake"] /\ registered = {} /\ outbox = {}
      /\ owed = [c \in Conns |-> 0] /\ announced = [c \in Conns |-> 0]
      /\ casting = NoCast /\ lastBroadcast = [p \in Profiles |-> 0]
      /\ \A p \in Profiles : revision[p] \in {0, 1}
  BY DEF Init
<1>3. ~casting.running /\ casting.targets = {} /\ casting.stale = {}
  BY <1>2 DEF NoCast
<1>4. OrderInv
  <2>1. EntryInv
    BY <1>1, <1>2, <1>3 DEF EntryInv, Entering, ProfileOf
  <2>2. CastInv /\ HeardInv
    BY <1>2, <1>3 DEF CastInv, HeardInv
  <2>3. QED BY <2>1, <2>2 DEF OrderInv
<1>5. ReachInv
  BY <1>1, <1>2, <1>3, StoreAssumption
     DEF ReachInv, FreshInv, KnownInv, DebtInv, ProfileOf, Reached
<1>6. QED BY <1>4, <1>5

(* Every step keeps the invariant, and takes no session back to an earlier *)
(* revision.                                                               *)
LEMMA StepAnnounces ==
  ASSUME ChannelTypeOK, OrderInv, ReachInv, [Next]_vars
  PROVE  /\ OrderInv' /\ ReachInv'
         /\ \A c \in Conns : announced[c] > 0 /\ announced'[c] > 0 => announced'[c] >= announced[c]
<1> DEFINE Ascends == \A c \in Conns :
             announced[c] > 0 /\ announced'[c] > 0 => announced'[c] >= announced[c]
<1> SUFFICES OrderInv' /\ ReachInv' /\ Ascends
  OBVIOUS
<1>1. UNCHANGED announced => Ascends
  BY DEF ChannelTypeOK
<1>2. QuietFrame => OrderInv' /\ ReachInv' /\ Ascends
  BY <1>1, QuietKeepsOrder, QuietKeepsReach DEF QuietFrame
<1> HIDE DEF Ascends
<1>3. ASSUME NEW c \in Conns, Handshake(c) PROVE OrderInv' /\ ReachInv' /\ Ascends
  <2>1. CASE HandshakeFails(c) \/ Authenticate(c)
    BY <1>2, <2>1, RefusalsAreQuiet
  <2>2. ASSUME NEW q \in Profiles, LoadProfile(c, q) PROVE OrderInv' /\ ReachInv' /\ Ascends
    BY <1>1, <2>2, LoadKeeps DEF LoadProfile, UNCHANGEDbyHandshake
  <2>3. CASE Register(c)
    BY <1>1, <2>3, RegisterKeeps DEF Register, UNCHANGEDbyHandshake
  <2>4. CASE Greet(c)
    BY <1>1, <2>4, GreetKeeps
  <2>5. QED BY <1>3, <2>1, <2>2, <2>3, <2>4 DEF Handshake
<1>4. ASSUME NEW c \in Conns, Loop(c) PROVE OrderInv' /\ ReachInv' /\ Ascends
  BY <1>2, <1>4, LoopIsQuiet DEF OrderInv
<1>5. CASE DeviceRoutes
  BY <1>2, <1>5, DeviceRoutesAreQuiet
<1>6. CASE ProfileRoutes
  BY <1>1, <1>6, ProfileRoutesKeep DEF RouteFrame
<1>7. CASE Broadcasts
  <2>1. ASSUME NEW m \in outbox, BeginBroadcast(m) PROVE OrderInv' /\ ReachInv' /\ Ascends
    BY <1>1, <2>1, DropKeeps, BeginKeeps
  <2>2. ASSUME NEW c \in Conns, SendBroadcast(c) PROVE OrderInv' /\ ReachInv' /\ Ascends
    <3>1. \A d \in Conns \ {c} : announced'[d] = announced[d] /\ announced[d] \in Int
      BY <2>2, SendKeepsOrder DEF ChannelTypeOK
    <3>2. QED BY <2>2, <3>1, SendKeepsOrder DEF Ascends
  <2>3. CASE EndBroadcast
    BY <1>1, <2>3, EndKeeps
  <2>4. QED BY <1>7, <2>1, <2>2, <2>3 DEF Broadcasts
<1>8. CASE UNCHANGED vars
  <2>1. QuietFrame
    BY <1>8 DEF vars, QuietFrame, ProfileOf
  <2>2. QED BY <1>2, <2>1
<1>9. QED BY <1>3, <1>4, <1>5, <1>6, <1>7, <1>8 DEF Next

(* Announcements reach every session in ascending revisions until a        *)
(* deletion, whatever the order in which threads deliver them              *)
(* (websocket.py:171).                                                     *)
THEOREM AnnouncementsKeepOrder == Spec => AnnouncementsAscend
<1>1. Init => OrderInv /\ ReachInv
  BY InitAnnounces
<1>2. ChannelTypeOK /\ OrderInv /\ ReachInv /\ [Next]_vars => OrderInv' /\ ReachInv'
  BY StepAnnounces
<1>3. ChannelTypeOK /\ OrderInv /\ ReachInv /\ [Next]_vars
        => [\A c \in Conns :
              announced[c] > 0 /\ announced'[c] > 0 => announced'[c] >= announced[c]]_vars
  BY StepAnnounces
<1>4. QED BY <1>1, <1>2, <1>3, TypeCorrect, PTL DEF Spec, AnnouncementsAscend

(* A change a session is owed reaches it, or a later revision does: once   *)
(* no announcement is under way a session that is still registered has     *)
(* heard of it, whatever crossed or was dropped (websocket.py:162).        *)
THEOREM ChangesAreHeard == Spec => []ChangesReachSessions
<1>1. Init => OrderInv /\ ReachInv
  BY InitAnnounces
<1>2. ChannelTypeOK /\ OrderInv /\ ReachInv /\ [Next]_vars => OrderInv' /\ ReachInv'
  BY StepAnnounces
<1>3. ChannelTypeOK /\ OrderInv /\ ReachInv => ChangesReachSessions
  <2> SUFFICES ASSUME ChannelTypeOK, OrderInv, ReachInv, Quiescent, NEW c \in registered,
                      owed[c] > 0, session[c].profile \notin deleted, ~session[c].invalidated
               PROVE  Told(c) \in owed[c]..revision[session[c].profile]
    BY DEF ChangesReachSessions
  <2>1. c \in Conns /\ ProfileOf(c) \in Profiles
    BY DEF ChannelTypeOK, OrderInv, EntryInv
  <2>2. Reached(c) /\ c \notin casting.targets
    BY CastShape DEF Quiescent, Reached
  <2>3. Told(c) >= owed[c]
    BY <2>1, <2>2 DEF ReachInv, DebtInv, Quiescent, ProfileOf
  <2>4. Told(c) <= revision[ProfileOf(c)]
    BY <2>1 DEF ReachInv, KnownInv, ProfileOf
  <2>5. Told(c) \in Int /\ owed[c] \in Int /\ revision[ProfileOf(c)] \in Int
    BY <2>1 DEF ChannelTypeOK, Told
  <2>6. QED BY <2>3, <2>4, <2>5 DEF ProfileOf
<1>4. QED BY <1>1, <1>2, <1>3, TypeCorrect, PTL DEF Spec

-----------------------------------------------------------------------------
(* What may go unannounced.                                                *)

(* A deletion that gives the selection, and a revision, to a replacement. *)
SelectedIsDeleted ==
  \E d \in deleting, q \in Profiles : active = d.profile /\ DeleteProfile(d, q)

(* The present revision of a changed profile is announced or on its way. *)
NewsInv ==
  \A p \in Existing \ deleted : revision[p] > 1 =>
    \/ lastBroadcast[p] = revision[p]
    \/ \E m \in outbox : m.profile = p /\ m.revision = revision[p]

LEMMA NewsKept ==
  ASSUME ChannelTypeOK, FreshInv, NewsInv,
         UNCHANGED <<revision, lastBroadcast, deleted>>, outbox \subseteq outbox'
  PROVE  NewsInv'
BY DEF NewsInv, Existing

LEMMA CommitBringsNews ==
  ASSUME ChannelTypeOK, FreshInv, NewsInv, UNCHANGED lastBroadcast, NEW p \in Profiles, NEW v,
         revision' = [revision EXCEPT ![p] = v], NEW why, Announce(p, v, why), Owe(p, v)
  PROVE  NewsInv'
<1> DEFINE news == [profile |-> p, revision |-> v, reason |-> why]
<1>1. outbox' = outbox \union {news} /\ UNCHANGED deleted /\ news.profile = p /\ news.revision = v
  BY DEF Announce, Owe
<1>2. \A q \in Profiles : revision'[q] = IF q = p THEN v ELSE revision[q]
  BY DEF ChannelTypeOK
<1> HIDE DEF news
<1>3. QED BY <1>1, <1>2 DEF NewsInv, Existing

LEMMA DeleteKeepsNews ==
  ASSUME ChannelTypeOK, FreshInv, NewsInv, NEW d \in deleting, NEW q \in Profiles,
         DeleteProfile(d, q), active # d.profile
  PROVE  NewsInv'
<1>1. /\ revision' = [revision EXCEPT ![d.profile] = 0]
      /\ deleted' = deleted \union {d.profile}
      /\ outbox \subseteq outbox' /\ UNCHANGED lastBroadcast
  BY DEF DeleteProfile, Delete, DeleteActive, DeleteInactive, Announce, UNCHANGEDbyRoute
<1>2. \A p \in Profiles : p # d.profile => revision'[p] = revision[p]
  BY <1>1 DEF ChannelTypeOK
<1>3. QED BY <1>1, <1>2 DEF NewsInv, Existing

LEMMA BeginKeepsNews ==
  ASSUME ChannelTypeOK, FreshInv, NewsInv, NEW m \in outbox, BeginBroadcast(m)
  PROVE  NewsInv'
<1> USE DEF UNCHANGEDbyCast
<1>1. outbox' = outbox \ {m} /\ UNCHANGED <<revision, deleted>>
  BY DEF BeginBroadcast
<1>2. /\ m.profile \in Profiles /\ m.revision \in Int
      /\ \A p \in Profiles : revision[p] \in Int /\ lastBroadcast[p] \in Int
  BY DEF ChannelTypeOK, Messages
<1>3. /\ \A p \in Profiles : p # m.profile => lastBroadcast'[p] = lastBroadcast[p]
      /\ m.reason # "deleted" =>
           IF m.revision <= lastBroadcast[m.profile]
             THEN lastBroadcast'[m.profile] = lastBroadcast[m.profile]
             ELSE lastBroadcast'[m.profile] = m.revision
  BY <1>2 DEF BeginBroadcast, Outdated, ChannelTypeOK
<1> SUFFICES ASSUME NEW p \in Existing \ deleted, revision[p] > 1
             PROVE  \/ lastBroadcast'[p] = revision[p]
                    \/ \E n \in outbox' : n.profile = p /\ n.revision = revision[p]
  BY <1>1 DEF NewsInv, Existing
<1>4. /\ p \in Profiles /\ lastBroadcast[p] <= revision[p]
      /\ m.profile = p => m.reason # "deleted" /\ m.revision <= revision[p]
  BY DEF FreshInv, Existing
<1>5. CASE m.profile = p
  <2>1. CASE m.revision = revision[p] \/ lastBroadcast[p] = revision[p]
    BY <1>2, <1>3, <1>4, <1>5, <2>1
  <2>2. CASE m.revision # revision[p] /\ lastBroadcast[p] # revision[p]
    BY <1>1, <2>2 DEF NewsInv
  <2>3. QED BY <2>1, <2>2
<1>6. CASE m.profile # p
  BY <1>1, <1>3, <1>4, <1>6 DEF NewsInv
<1>7. QED BY <1>5, <1>6

(* The revision a deletion gives to its replacement is the only change     *)
(* that may stay unannounced (api.py:533): while no selected profile is    *)
(* deleted, every profile_changed reaches the broadcast of its revision,   *)
(* or one that makes up for it.                                            *)
THEOREM OnlyReplacementsGoUnannounced ==
  Spec /\ [][~SelectedIsDeleted]_vars => []ChangesAreAnnounced
<1>1. Init => NewsInv
  BY DEF Init, NewsInv, Existing
<1>2. ChannelTypeOK /\ OrderInv /\ ReachInv /\ NewsInv /\ [Next]_vars /\ [~SelectedIsDeleted]_vars
        => NewsInv'
  <2> SUFFICES ASSUME ChannelTypeOK, OrderInv, FreshInv, NewsInv, [Next]_vars,
                      [~SelectedIsDeleted]_vars
               PROVE  NewsInv'
    BY DEF ReachInv
  <2>1. QuietFrame => NewsInv'
    BY NewsKept DEF QuietFrame
  <2>2. ASSUME NEW c \in Conns, Handshake(c) PROVE NewsInv'
    <3>1. UNCHANGED <<revision, lastBroadcast, deleted, outbox>>
      BY <2>2 DEF Handshake, HandshakeFails, Authenticate, LoadProfile, Register, Greet,
                  UNCHANGEDbyHandshake
    <3>2. QED BY <3>1, NewsKept
  <2>3. ASSUME NEW c \in Conns, Loop(c) PROVE NewsInv'
    BY <2>1, <2>3, LoopIsQuiet DEF OrderInv
  <2>4. CASE DeviceRoutes
    BY <2>1, <2>4, DeviceRoutesAreQuiet
  <2>5. CASE ProfileRoutes
    <3> USE DEF UNCHANGEDbyRoute
    <3>1. ASSUME NEW p \in Profiles, NEW why \in {"created", "updated"}, CreateProfile(p, why)
          PROVE  NewsInv'
      BY <3>1, CommitBringsNews DEF CreateProfile, Create
    <3>2. ASSUME NEW p \in Profiles, ChangeProfile(p) PROVE NewsInv'
      <4>1. /\ revision' = [revision EXCEPT ![p] = revision[p] + 1]
            /\ Announce(p, revision[p] + 1, "updated") /\ Owe(p, revision[p] + 1)
            /\ UNCHANGED lastBroadcast
        BY <3>2 DEF ChangeProfile, Change
      <4>2. QED BY <4>1, CommitBringsNews
    <3>3. ASSUME NEW p \in Profiles, ActivateProfile(p) PROVE NewsInv'
      <4>1. CASE Activate(p) /\ Announce(p, revision[p] + 1, "updated") /\ Owe(p, revision[p] + 1)
        <5>1. /\ revision' = [revision EXCEPT ![p] = revision[p] + 1]
              /\ UNCHANGED lastBroadcast
          BY <3>3, <4>1 DEF Activate, ActivateProfile
        <5>2. QED BY <4>1, <5>1, CommitBringsNews
      <4>2. CASE Announce(p, revision[p], "updated") /\ UNCHANGED <<storeVars, owed, deleted>>
        BY <3>3, <4>2, NewsKept DEF Announce, ActivateProfile
      <4>3. QED BY <3>3, <4>1, <4>2 DEF ActivateProfile
    <3>4. ASSUME NEW p \in Profiles, ReadBeforeDelete(p) PROVE NewsInv'
      BY <3>4, NewsKept DEF ReadBeforeDelete
    <3>5. ASSUME NEW d \in deleting, DeleteRefused(d) PROVE NewsInv'
      BY <3>5, NewsKept DEF DeleteRefused
    <3>6. ASSUME NEW d \in deleting, NEW q \in Profiles, DeleteProfile(d, q) PROVE NewsInv'
      <4>1. deleting' # deleting
        BY <3>6 DEF DeleteProfile
      <4>2. active # d.profile
        BY <3>6, <4>1 DEF SelectedIsDeleted, vars
      <4>3. QED BY <3>6, <4>2, DeleteKeepsNews
    <3>7. CASE ReadActive
      BY <3>7, NewsKept DEF ReadActive, Announce
    <3>8. QED BY <2>5, <3>1, <3>2, <3>3, <3>4, <3>5, <3>6, <3>7 DEF ProfileRoutes
  <2>6. CASE Broadcasts
    <3>1. ASSUME NEW m \in outbox, BeginBroadcast(m) PROVE NewsInv'
      BY <3>1, BeginKeepsNews
    <3>2. ASSUME NEW c \in Conns, SendBroadcast(c) PROVE NewsInv'
      BY <3>2, NewsKept DEF SendBroadcast, UNCHANGEDbyCast
    <3>3. CASE EndBroadcast
      BY <3>3, NewsKept DEF EndBroadcast, UNCHANGEDbyCast
    <3>4. QED BY <2>6, <3>1, <3>2, <3>3 DEF Broadcasts
  <2>7. CASE UNCHANGED vars
    BY <2>7, NewsKept DEF vars
  <2>8. QED BY <2>2, <2>3, <2>4, <2>5, <2>6, <2>7 DEF Next
<1>3. NewsInv => ChangesAreAnnounced
  BY DEF NewsInv, ChangesAreAnnounced, Quiescent
<1>4. Init => OrderInv /\ ReachInv
  BY InitAnnounces
<1>5. ChannelTypeOK /\ OrderInv /\ ReachInv /\ [Next]_vars => OrderInv' /\ ReachInv'
  BY StepAnnounces
<1>6. QED BY <1>1, <1>2, <1>3, <1>4, <1>5, TypeCorrect, PTL DEF Spec

-----------------------------------------------------------------------------
(* The store the channel works on.                                         *)

(* Serving a session and broadcasting commit nothing: they read the        *)
(* stores, in threads, and leave both as they are.                         *)
ServingStep == (\E c \in Conns : Handshake(c) \/ Loop(c)) \/ Broadcasts

LEMMA ServingCommitsNothing ==
  ASSUME ServingStep PROVE UNCHANGED storeVars /\ UNCHANGED credentialVars
<1>1. ASSUME NEW c \in Conns, Handshake(c)
      PROVE  UNCHANGED storeVars /\ UNCHANGED credentialVars
  BY <1>1 DEF Handshake, HandshakeFails, Authenticate, LoadProfile, Register, Greet,
              UNCHANGEDbyHandshake
<1>2. ASSUME NEW c \in Conns, Loop(c)
      PROVE  UNCHANGED storeVars /\ UNCHANGED credentialVars
  BY <1>2 DEF Loop, Disconnect, SendFails, ReceiveTimeout, ReceiveOther, ReceivePress,
              CheckCredential, ReadProfile, Execute, DropReply, BeginReply, FinishReply,
              UNCHANGEDbyLoop
<1>3. CASE Broadcasts
  BY <1>3 DEF Broadcasts, BeginBroadcast, SendBroadcast, EndBroadcast, UNCHANGEDbyCast
<1>4. QED BY <1>1, <1>2, <1>3 DEF ServingStep

(* Every commit of the channel's routes is a step of RevisionStore, which  *)
(* ProfileStoreProofs shows the repository to implement.                   *)
THEOREM ChannelUsesStore == Spec => StoreSpec
<1>1. Init => ConsistentStore
  <2> SUFFICES ASSUME Init PROVE ConsistentStore
    OBVIOUS
  <2>1. /\ revision = [p \in Profiles |-> IF p = BuiltinProfile THEN 1 ELSE 0]
        /\ active = BuiltinProfile /\ BuiltinProfile \in Profiles
        /\ MaxRevision \in Nat \ {0}
    BY ChannelAssumption, StoreAssumption DEF Init
  <2>2. BuiltinProfile \in Existing
    BY <2>1 DEF Existing
  <2>3. QED BY <2>1, <2>2 DEF ConsistentStore
<1>2. [Next]_vars => [StoreNext]_storeVars
  <2> SUFFICES ASSUME [Next]_vars PROVE [StoreNext]_storeVars
    OBVIOUS
  <2>1. CASE ServingStep
    BY <2>1, ServingCommitsNothing
  <2>2. CASE DeviceRoutes
    BY <2>2 DEF DeviceRoutes, ClaimToken, RevokeDevice, PickTargets, FinishClaim, BeginClose,
                EndClose, UNCHANGEDbyDevice
  <2>3. CASE ProfileRoutes
    <3>1. ASSUME NEW d \in deleting, NEW q \in Profiles, DeleteProfile(d, q) PROVE StoreNext
      BY <3>1 DEF DeleteProfile, Delete, DeleteInactive, DeleteActive, StoreNext, Existing
    <3>2. QED
      BY <2>3, <3>1
         DEF ProfileRoutes, CreateProfile, ChangeProfile, ActivateProfile, ReadBeforeDelete,
             DeleteRefused, ReadActive, StoreNext
  <2>4. CASE UNCHANGED vars
    BY <2>4 DEF vars
  <2>5. QED BY <2>1, <2>2, <2>3, <2>4 DEF Next, ServingStep
<1>3. QED BY <1>1, <1>2, PTL DEF Spec, StoreSpec

(* The routes that pair and revoke devices change credentials only by the  *)
(* operations of CredentialStore, and sessions and broadcasts never do.    *)
THEOREM ChannelUsesCredentials == Spec => CredentialSpec
<1>1. ChannelTypeOK => CredentialTypeOK
  BY DEF ChannelTypeOK
<1>2. [Next]_vars => [CredentialNext]_credentialVars
  <2> SUFFICES ASSUME [Next]_vars PROVE [CredentialNext]_credentialVars
    OBVIOUS
  <2>1. CASE ServingStep
    BY <2>1, ServingCommitsNothing
  <2>2. CASE DeviceRoutes
    BY <2>2 DEF DeviceRoutes, ClaimToken, RevokeDevice, PickTargets, FinishClaim, BeginClose,
                EndClose, UNCHANGEDbyDevice, CredentialNext
  <2>3. CASE ProfileRoutes
    BY <2>3 DEF ProfileRoutes, CreateProfile, ChangeProfile, ActivateProfile, ReadBeforeDelete,
                DeleteProfile, DeleteRefused, ReadActive, UNCHANGEDbyRoute
  <2>4. CASE UNCHANGED vars
    BY <2>4 DEF vars
  <2>5. QED BY <2>1, <2>2, <2>3, <2>4 DEF Next, ServingStep
<1>3. QED BY <1>1, <1>2, TypeCorrect, PTL DEF Spec, CredentialSpec

=============================================================================
