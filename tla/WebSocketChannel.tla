-------------------------- MODULE WebSocketChannel --------------------------
(***************************************************************************)
(* The live channel of the server: src/server/app/websocket.py, with the   *)
(* routes of api.py that commit profile changes, replace credentials and   *)
(* then notify the connected sessions.                                     *)
(*                                                                         *)
(* Every connection is served by one coroutine (_serve_websocket), whose   *)
(* program counter is pc[c].  Coroutines share one event loop, so a step   *)
(* runs up to the next point where the coroutine really suspends: a        *)
(* run_in_threadpool call, a receive, a send, or a wait for a lock.        *)
(* Repository and credential calls run in worker threads, hence read or    *)
(* commit in a step of their own.                                          *)
(*                                                                         *)
(* Abstractions.  A profile is its revision; frames that are not a hello   *)
(* or a press have one effect, a reply.  Each connection is served once: a *)
(* reconnecting device takes another member of Conns.  A broadcast's send  *)
(* ends within send_timeout, so taking the send lock, sending and          *)
(* releasing it is one step; a session's own sends have no timeout and     *)
(* hold the lock across steps.  An error reply is remembered as it is      *)
(* queued: only its own coroutine reads the cache.  The server requires    *)
(* authentication, its setting for every remote bind.                      *)
(***************************************************************************)
EXTENDS RevisionStore, CredentialStore, Integers, Sequences, FiniteSets

CONSTANTS Conns, Requests, NoRequest,
          BuiltinProfile,      \* the profile a fresh server installs
          MaxConnections,      \* MAX_CONNECTIONS
          MaxCachedResponses,  \* MAX_CACHED_RESPONSES
          MaxOutbox,           \* bound on the announcements on their way
          MaxClaims,           \* bound on the claim and revoke requests in progress
          MaxDeletes           \* bound on the delete requests in progress

ASSUME ChannelAssumption == /\ BuiltinProfile \in Profiles
                            /\ MaxConnections \in Nat \ {0}
                            /\ MaxCachedResponses \in Nat \ {0}
                            /\ {MaxOutbox, MaxClaims, MaxDeletes} \subseteq Nat
                            /\ NoRequest \notin Requests

VARIABLES
  pc, session, snapshot, press, closing,     \* one coroutine per connection
  registered, lastBroadcast, casting,        \* WebSocketManager
  outbox, deleting, activeReads,             \* profile routes in progress
  token, claims,                             \* device routes in progress
  announced, owed, deleted, doomed, newer    \* history, read by no action

coroutineVars == <<pc, session, snapshot, press, closing>>
routeVars == <<outbox, deleting, activeReads>>
managerVars == <<registered, lastBroadcast, casting>>
deviceVars == <<token, claims>>
historyVars == <<announced, owed, deleted, doomed, newer>>
vars == <<storeVars, credentialVars, coroutineVars, managerVars, routeVars,
          deviceVars, historyVars>>

Gone == -1       \* what a session knows after a "deleted" event

Locations == {"handshake", "loading", "registering", "greeting", "idle", "checking",
              "reading", "executing", "replying", "sending", "closed"}

(* ClientSession; the first three fields are locals of the coroutine until *)
(* it is registered.                                                       *)
Sessions == [client : Clients, profile : Profiles \union {NoProfile},
             generation : 0..MaxGeneration, ready : BOOLEAN, invalidated : BOOLEAN,
             responses : Seq(Requests), pending : Seq(Gone..MaxRevision)]

Presses == [request : Requests \union {NoRequest}, profile : Profiles \union {NoProfile},
            revision : 0..MaxRevision, late : BOOLEAN]

NoPress == [request |-> NoRequest, profile |-> NoProfile, revision |-> 0, late |-> FALSE]

Messages == [profile : Profiles, revision : 0..MaxRevision,
             reason : {"created", "updated", "deleted"}]

NoCast == [targets |-> {}, stale |-> {}, running |-> FALSE]

Casts == [message : Messages, targets : SUBSET Conns, stale : SUBSET Conns,
          running : {TRUE}]

Claims == [client : Clients, generation : 0..MaxGeneration, picked : BOOLEAN,
           targets : SUBSET Conns, telling : SUBSET Conns]

(* How many answers to other presses a session gave since the last one to  *)
(* each press, as far as its cache reaches.                                *)
Ages == [Requests -> 0..MaxCachedResponses]

ChannelTypeOK ==
  /\ StoreTypeOK
  /\ CredentialTypeOK
  /\ pc \in [Conns -> Locations]
  /\ session \in [Conns -> Sessions]
  /\ snapshot \in [Conns -> 0..MaxRevision]
  /\ press \in [Conns -> Presses]
  /\ closing \in [Conns -> BOOLEAN]
  /\ registered \subseteq Conns
  /\ lastBroadcast \in [Profiles -> 0..MaxRevision]
  /\ casting \in Casts \union {NoCast}
  /\ outbox \subseteq Messages
  /\ deleting \subseteq [profile : Profiles, revision : 0..MaxRevision]
  /\ activeReads \in Nat
  /\ token \in [Clients -> 0..MaxGeneration]
  /\ claims \subseteq Claims
  /\ announced \in [Conns -> Gone..MaxRevision]
  /\ owed \in [Conns -> 0..MaxRevision]
  /\ deleted \subseteq Profiles
  /\ doomed \subseteq Conns
  /\ newer \in [Conns -> Ages]

(***************************************************************************)
(* A started server: the builtin profile is installed and selected, some   *)
(* devices are paired, no connection has said hello.                       *)
(***************************************************************************)
Init ==
  /\ revision = [p \in Profiles |-> IF p = BuiltinProfile THEN 1 ELSE 0]
  /\ active = BuiltinProfile
  /\ token \in [Clients -> 0..1]
  /\ generation = token
  /\ revoked = [k \in Clients |-> FALSE]
  /\ pc = [c \in Conns |-> "handshake"]
  /\ session \in [Conns -> {[client |-> k, profile |-> NoProfile, generation |-> 0,
                              ready |-> FALSE, invalidated |-> FALSE,
                              responses |-> <<>>, pending |-> <<>>] : k \in Clients}]
  /\ snapshot = [c \in Conns |-> 0]
  /\ press = [c \in Conns |-> NoPress]
  /\ closing = [c \in Conns |-> FALSE]
  /\ registered = {}
  /\ lastBroadcast = [p \in Profiles |-> 0]
  /\ casting = NoCast
  /\ outbox = {} /\ deleting = {} /\ activeReads = 0
  /\ claims = {}
  /\ announced = [c \in Conns |-> 0]
  /\ owed = [c \in Conns |-> 0]
  /\ deleted = {}
  /\ doomed = {}
  /\ newer = [c \in Conns |-> [r \in Requests |-> MaxCachedResponses]]

Goto(c, location) == pc' = [pc EXCEPT ![c] = location]

(* Every way out of _serve_websocket passes its finally clause. *)
Close(c) == Goto(c, "closed") /\ registered' = registered \ {c}

(* The send_lock of a session is taken by its coroutine, from the first    *)
(* byte of a send to the last, or by a request that closes the session.    *)
OwnSend(c) == pc[c] \in {"greeting", "sending"}

SendLockHeld(c) == OwnSend(c) \/ \E t \in claims : c \in t.telling

CacheSet(c) == {session[c].responses[i] : i \in DOMAIN session[c].responses}

-----------------------------------------------------------------------------
(* Handshake.                                                              *)

UNCHANGEDbyHandshake == <<storeVars, credentialVars, press, closing, lastBroadcast,
                          casting, routeVars, deviceVars, owed, deleted, doomed,
                          newer>>

(* Every handshake the server turns away before registration: rate limit,  *)
(* timeout, malformed hello, missing or inactive token (AUTH_REQUIRED,     *)
(* AUTH_INVALID), unknown profile, lookup failure, lost peer.              *)
HandshakeFails(c) ==
  /\ pc[c] \in {"handshake", "loading"}
  /\ Close(c)
  /\ UNCHANGED <<UNCHANGEDbyHandshake, session, snapshot, announced>>

(* The hello carries the token the device holds, checked in a thread. *)
Authenticate(c) ==
  LET k == session[c].client IN
  /\ pc[c] = "handshake"
  /\ CredentialActive(k, token[k])
  /\ session' = [session EXCEPT ![c].generation = token[k]]
  /\ Goto(c, "loading")
  /\ UNCHANGED <<UNCHANGEDbyHandshake, snapshot, registered, announced>>

(* _load_requested_profile: the requested profile, or the selected one. *)
LoadProfile(c, p) ==
  /\ pc[c] = "loading"
  /\ p \in Existing
  /\ session' = [session EXCEPT ![c].profile = p]
  /\ snapshot' = [snapshot EXCEPT ![c] = revision[p]]
  /\ Goto(c, "registering")
  /\ UNCHANGED <<UNCHANGEDbyHandshake, registered, announced>>

(* Mutation: the limit is off by one. *)
RegisterOneMore(c) ==
  /\ pc[c] = "registering"
  /\ IF Cardinality(registered) > MaxConnections
       THEN Close(c)
       ELSE Goto(c, "greeting") /\ registered' = registered \union {c}
  /\ UNCHANGED <<UNCHANGEDbyHandshake, session, snapshot, announced>>

(* register, and the send lock with it: nothing suspends in between. *)
Register(c) ==
  /\ pc[c] = "registering"
  /\ IF Cardinality(registered) >= MaxConnections
       THEN Close(c)
       ELSE Goto(c, "greeting") /\ registered' = registered \union {c}
  /\ UNCHANGED <<UNCHANGEDbyHandshake, session, snapshot, announced>>

(* welcome, profile_snapshot and the queued events are on the wire. *)
Greet(c) ==
  LET queued == session[c].pending IN
  /\ pc[c] = "greeting"
  /\ session' = [session EXCEPT ![c].ready = TRUE, ![c].pending = <<>>]
  /\ announced' = IF queued = <<>> THEN announced
                  ELSE [announced EXCEPT ![c] = queued[Len(queued)]]
  /\ Goto(c, "idle")
  /\ UNCHANGED <<UNCHANGEDbyHandshake, snapshot, registered>>

-----------------------------------------------------------------------------
(* The receive loop.                                                       *)

UNCHANGEDbyLoop == <<storeVars, credentialVars, snapshot, lastBroadcast, casting,
                     routeVars, deviceVars, announced, owed, deleted, doomed>>

(* Queue one reply; the connection is closed after it when `last` holds.   *)
(* The message it answers is done with.                                    *)
Reply(c, last) ==
  /\ Goto(c, "replying")
  /\ closing' = [closing EXCEPT ![c] = last]
  /\ press' = [press EXCEPT ![c] = NoPress]

(* Mutation: a full cache forgets its newest answer. *)
RememberOverNewest(c, r) ==
  LET old  == session[c].responses
      kept == IF Len(old) >= MaxCachedResponses THEN SubSeq(old, 1, Len(old) - 1) ELSE old
  IN  session' = [session EXCEPT ![c].responses = Append(kept, r)]

(* _cache_response forgets the oldest answer of a full cache. *)
Remember(c, r) ==
  LET kept == IF Len(session[c].responses) >= MaxCachedResponses
                THEN Tail(session[c].responses) ELSE session[c].responses
  IN  session' = [session EXCEPT ![c].responses = Append(kept, r)]

(* History: r has its answer for good, the answers before it are one older. *)
Answered(c, r) ==
  newer' = [newer EXCEPT ![c] = [q \in Requests |-> IF q = r THEN 0
                                 ELSE IF @[q] < MaxCachedResponses THEN @[q] + 1 ELSE @[q]]]

(* receive_text raises WebSocketDisconnect. *)
Disconnect(c) ==
  /\ pc[c] = "idle"
  /\ Close(c)
  /\ UNCHANGED <<UNCHANGEDbyLoop, session, press, closing, newer>>

(* A send raises: the peer is gone. *)
SendFails(c) ==
  /\ OwnSend(c)
  /\ Close(c)
  /\ UNCHANGED <<UNCHANGEDbyLoop, session, press, closing, newer>>

(* idle_timeout: an IDLE_TIMEOUT error, then close. *)
ReceiveTimeout(c) ==
  /\ pc[c] = "idle"
  /\ Reply(c, TRUE)
  /\ UNCHANGED <<UNCHANGEDbyLoop, session, registered, newer>>

(* ping, an invalid message, or one unexpected here: answered at once. *)
ReceiveOther(c) ==
  /\ pc[c] = "idle"
  /\ Reply(c, FALSE)
  /\ UNCHANGED <<UNCHANGEDbyLoop, session, registered, newer>>

(* The mark of an invalidated session is seen at once; the credential is   *)
(* looked up in a thread.                                                  *)
ReceivePress(c, r, p, v) ==
  LET s == session[c] IN
  /\ pc[c] = "idle"
  /\ \/ s.invalidated /\ Reply(c, TRUE)
     \/ /\ ~s.invalidated
        /\ press' = [press EXCEPT ![c] =
             [request |-> r, profile |-> p, revision |-> v,
              late |-> ~CredentialActive(s.client, s.generation)]]
        /\ Goto(c, "checking")
        /\ UNCHANGED closing
  /\ UNCHANGED <<UNCHANGEDbyLoop, session, registered, newer>>

(* Mutation: the cache is not consulted. *)
DispatchAlways(c) ==
  /\ press[c].profile = session[c].profile
  /\ Goto(c, "reading")
  /\ UNCHANGED <<session, press, closing, newer>>

(* The start of _handle_press: a known request is answered from the cache, *)
(* a press for another profile is refused and remembered.                  *)
Dispatch(c) ==
  LET m == press[c] IN
  \/ /\ m.request \in CacheSet(c)
     /\ Reply(c, FALSE)
     /\ UNCHANGED <<session, newer>>
  \/ /\ m.request \notin CacheSet(c)
     /\ m.profile # session[c].profile
     /\ Reply(c, FALSE)
     /\ Remember(c, m.request) /\ Answered(c, m.request)
  \/ /\ m.request \notin CacheSet(c)
     /\ m.profile = session[c].profile
     /\ Goto(c, "reading")
     /\ UNCHANGED <<session, press, closing, newer>>

(* Mutation: only the in-memory mark of the session is looked at. *)
CheckMarkOnly(c) ==
  /\ pc[c] = "checking"
  /\ Dispatch(c)
  /\ UNCHANGED <<UNCHANGEDbyLoop, registered>>

(* _session_credential_is_active, then _handle_press.  A lookup failure    *)
(* (PairingError) counts as inactive: AUTH_REVOKED, then close.            *)
CheckCredential(c) ==
  /\ pc[c] = "checking"
  /\ \/ CredentialActive(session[c].client, session[c].generation) /\ Dispatch(c)
     \/ Reply(c, TRUE) /\ UNCHANGED <<session, newer>>
  /\ UNCHANGED <<UNCHANGEDbyLoop, registered>>

(* get_profile and the checks on what it returned.  A conflict is not      *)
(* remembered, so the device may retry it; an unknown profile, page or     *)
(* button and a lookup failure are.                                        *)
ReadProfile(c) ==
  LET m == press[c] IN
  /\ pc[c] = "reading"
  /\ \/ /\ m.profile \in Existing
        /\ revision[m.profile] = m.revision
        /\ Goto(c, "executing")
        /\ UNCHANGED <<session, press, closing, newer>>
     \/ /\ m.profile \in Existing
        /\ revision[m.profile] # m.revision
        /\ Reply(c, FALSE)
        /\ UNCHANGED <<session, newer>>
     \/ Reply(c, FALSE) /\ Remember(c, m.request) /\ Answered(c, m.request)
  /\ UNCHANGED <<UNCHANGEDbyLoop, registered>>

(* The action runs in a thread; its ack, completed or rejected, is         *)
(* remembered before it is sent.                                           *)
Execute(c) ==
  LET r == press[c].request IN
  /\ pc[c] = "executing"
  /\ Remember(c, r) /\ Answered(c, r)
  /\ Reply(c, FALSE)
  /\ UNCHANGED <<UNCHANGEDbyLoop, registered>>

AfterReply(c) == IF closing[c] THEN Close(c) ELSE Goto(c, "idle") /\ UNCHANGED registered

(* _send_session_text drops the reply of an invalidated session. *)
DropReply(c) ==
  /\ pc[c] = "replying"
  /\ ~SendLockHeld(c)
  /\ session[c].invalidated
  /\ AfterReply(c)
  /\ UNCHANGED <<UNCHANGEDbyLoop, session, press, closing, newer>>

BeginReply(c) ==
  /\ pc[c] = "replying"
  /\ ~SendLockHeld(c)
  /\ ~session[c].invalidated
  /\ Goto(c, "sending")
  /\ UNCHANGED <<UNCHANGEDbyLoop, session, press, closing, registered, newer>>

FinishReply(c) ==
  /\ pc[c] = "sending"
  /\ AfterReply(c)
  /\ UNCHANGED <<UNCHANGEDbyLoop, session, press, closing, newer>>

-----------------------------------------------------------------------------
(* Device routes: claim_pairing and revoke_device.  A record of `claims`   *)
(* is one request past its credential write: it picks its targets, closes  *)
(* them one by one (`telling` are those whose lock it holds), then         *)
(* answers.  generation is 0 for a revocation.                             *)

UNCHANGEDbyDevice == <<storeVars, snapshot, press, closing, lastBroadcast, casting,
                       routeVars, announced, owed, deleted, newer>>

(* Mutation: a session still being greeted is overlooked. *)
ReadySessions(k) == {c \in registered : session[c].client = k /\ session[c].ready}

LiveSessions(k) == {c \in registered : session[c].client = k /\ ~session[c].invalidated}

Doom(k) == doomed' = doomed \union {c \in registered : session[c].client = k}

(* issue_token commits in a thread, the event loop runs other work before  *)
(* the request goes on.                                                    *)
ClaimToken(k) ==
  /\ Cardinality(claims) < MaxClaims
  /\ IssueToken(k)
  /\ claims' = claims \union {[client |-> k, generation |-> generation[k] + 1,
                               picked |-> FALSE, targets |-> {}, telling |-> {}]}
  /\ Doom(k)
  /\ UNCHANGED <<UNCHANGEDbyDevice, pc, session, registered, token>>

(* invalidate_client_sessions fixes the sessions it will close. *)
PickTargets(t) ==
  /\ t \in claims /\ ~t.picked
  /\ claims' = (claims \ {t}) \union
                 {[t EXCEPT !.picked = TRUE, !.targets = LiveSessions(t.client)]}
  /\ UNCHANGED <<UNCHANGEDbyDevice, credentialVars, pc, session, registered, token,
                 doomed>>

(* revoke_client is called on the event loop itself, so the targets are    *)
(* those of the moment of the commit.                                      *)
RevokeDevice(k) ==
  /\ Cardinality(claims) < MaxClaims
  /\ RevokeClient(k)
  /\ claims' = claims \union {[client |-> k, generation |-> 0, picked |-> TRUE,
                               targets |-> LiveSessions(k), telling |-> {}]}
  /\ Doom(k)
  /\ UNCHANGED <<UNCHANGEDbyDevice, pc, session, registered, token>>

(* close_session takes the send lock, marks the session, sends             *)
(* AUTH_REVOKED and closes the socket, both under a timeout ...            *)
BeginClose(t, c) ==
  /\ t \in claims /\ c \in t.targets
  /\ ~SendLockHeld(c)
  /\ session' = [session EXCEPT ![c].invalidated = TRUE]
  /\ claims' = (claims \ {t}) \union
                 {[t EXCEPT !.targets = @ \ {c}, !.telling = @ \union {c}]}
  /\ UNCHANGED <<UNCHANGEDbyDevice, credentialVars, pc, registered, token, doomed>>

(* ... then releases the lock and unregisters the session. *)
EndClose(t, c) ==
  /\ t \in claims /\ c \in t.telling
  /\ registered' = registered \ {c}
  /\ claims' = (claims \ {t}) \union {[t EXCEPT !.telling = @ \ {c}]}
  /\ UNCHANGED <<UNCHANGEDbyDevice, credentialVars, pc, session, token, doomed>>

(* The request answers; the answer to a claim carries the token, and may   *)
(* be lost on its way.                                                     *)
FinishClaim(t) ==
  /\ t \in claims /\ t.picked /\ t.targets = {} /\ t.telling = {}
  /\ claims' = claims \ {t}
  /\ \/ t.generation > 0 /\ token' = [token EXCEPT ![t.client] = t.generation]
     \/ UNCHANGED token
  /\ UNCHANGED <<UNCHANGEDbyDevice, credentialVars, pc, session, registered, doomed>>

-----------------------------------------------------------------------------
(* Profile routes: a repository call commits in a thread, then the request *)
(* announces the result.  outbox holds the announcements on their way to   *)
(* broadcast_profile_changed; threads may deliver them in any order.       *)

UNCHANGEDbyRoute == <<credentialVars, coroutineVars, managerVars, deviceVars,
                      announced, doomed, newer>>

Announce(p, v, why) ==
  /\ Cardinality(outbox) < MaxOutbox
  /\ outbox' = outbox \union {[profile |-> p, revision |-> v, reason |-> why]}

(* The registered sessions of the profile are to hear of this revision. *)
Owe(p, v) ==
  /\ owed' = [c \in Conns |-> IF c \in registered /\ session[c].profile = p THEN v
                             ELSE owed[c]]
  /\ UNCHANGED deleted

(* POST /profiles and /profiles/{id}/duplicate; POST /profiles/import of   *)
(* an absent profile announces its first revision as "updated".            *)
CreateProfile(p, why) ==
  /\ why \in {"created", "updated"}
  /\ Create(p)
  /\ Announce(p, 1, why)
  /\ Owe(p, 1)
  /\ UNCHANGED <<UNCHANGEDbyRoute, deleting, activeReads>>

(* PUT, PATCH, the page routes, and the import of an existing profile. *)
ChangeProfile(p) ==
  /\ Change(p)
  /\ Announce(p, revision[p] + 1, "updated")
  /\ Owe(p, revision[p] + 1)
  /\ UNCHANGED <<UNCHANGEDbyRoute, deleting, activeReads>>

(* POST /profiles/{id}/activate; the selected profile is returned as it    *)
(* is, and announced all the same.                                         *)
ActivateProfile(p) ==
  /\ \/ /\ Activate(p)
        /\ Announce(p, revision[p] + 1, "updated")
        /\ Owe(p, revision[p] + 1)
     \/ /\ active = p
        /\ Announce(p, revision[p], "updated")
        /\ UNCHANGED <<storeVars, owed, deleted>>
  /\ UNCHANGED <<UNCHANGEDbyRoute, deleting, activeReads>>

(* The delete requests between their first read and their last announcement. *)
DeletesInProgress ==
  Cardinality(deleting) + Cardinality({m \in outbox : m.reason = "deleted"})
    + (IF casting.running /\ casting.message.reason = "deleted" THEN 1 ELSE 0) + activeReads

(* DELETE /profiles/{id} reads the profile first, for the revision it will *)
(* announce.                                                               *)
ReadBeforeDelete(p) ==
  /\ p \in Existing
  /\ DeletesInProgress < MaxDeletes
  /\ deleting' = deleting \union {[profile |-> p, revision |-> revision[p]]}
  /\ UNCHANGED <<UNCHANGEDbyRoute, storeVars, outbox, activeReads, owed, deleted>>

(* The route announces the deletion; the revision it gave to a replacement *)
(* is announced by ReadActive, or by nobody.                               *)
DeleteProfile(d, replacement) ==
  /\ d \in deleting
  /\ Delete(d.profile, replacement)
  /\ deleting' = deleting \ {d}
  /\ Announce(d.profile, d.revision, "deleted")
  /\ deleted' = deleted \union {d.profile}
  /\ UNCHANGED <<UNCHANGEDbyRoute, activeReads, owed>>

(* Not found, a revision conflict, or protected. *)
DeleteRefused(d) ==
  /\ d \in deleting
  /\ deleting' = deleting \ {d}
  /\ UNCHANGED <<UNCHANGEDbyRoute, storeVars, outbox, activeReads, owed, deleted>>

(* Mutation: the announcement is not tied to a finished deletion. *)
ReadActiveUnasked ==
  /\ activeReads' = activeReads - 1
  /\ Announce(active, revision[active], "updated")
  /\ UNCHANGED <<UNCHANGEDbyRoute, storeVars, deleting, owed, deleted>>

(* After the "deleted" broadcast the route announces whichever profile is  *)
(* selected by then.                                                       *)
ReadActive ==
  /\ activeReads > 0
  /\ activeReads' = activeReads - 1
  /\ IF active = NoProfile THEN UNCHANGED outbox
     ELSE Announce(active, revision[active], "updated")
  /\ UNCHANGED <<UNCHANGEDbyRoute, storeVars, deleting, owed, deleted>>

-----------------------------------------------------------------------------
(* broadcast_profile_changed, under _broadcast_lock from the guard to the  *)
(* last send.                                                              *)

UNCHANGEDbyCast == <<storeVars, credentialVars, pc, snapshot, press, closing, deleting,
                     deviceVars, owed, deleted, doomed, newer>>

(* Mutation: no guard at all. *)
NeverOutdated(m) == FALSE

(* The announcement is not newer than one already made. *)
Outdated(m) == m.reason # "deleted" /\ m.revision <= lastBroadcast[m.profile]

BeginBroadcast(m) ==
  /\ m \in outbox
  /\ ~casting.running
  /\ outbox' = outbox \ {m}
  /\ IF Outdated(m)
       THEN UNCHANGED <<lastBroadcast, casting>>
       ELSE /\ lastBroadcast' = [lastBroadcast EXCEPT ![m.profile] =
                                   IF m.reason = "deleted" THEN 0 ELSE m.revision]
            /\ casting' = [message |-> m, stale |-> {}, running |-> TRUE, targets |->
                 {c \in registered : /\ session[c].profile = m.profile
                                     /\ ~session[c].invalidated}]
  /\ UNCHANGED <<UNCHANGEDbyCast, session, registered, activeReads, announced>>

Content(m) == IF m.reason = "deleted" THEN Gone ELSE m.revision

(* _send_broadcast to one target: skipped when invalidated, queued before  *)
(* the greeting, else sent; a failed or slow send makes it stale.          *)
SendBroadcast(c) ==
  LET s == session[c] IN
  /\ c \in casting.targets
  /\ ~SendLockHeld(c)
  /\ \/ /\ s.invalidated
        /\ casting' = [casting EXCEPT !.targets = @ \ {c}]
        /\ UNCHANGED <<session, announced>>
     \/ /\ ~s.invalidated /\ ~s.ready
        /\ casting' = [casting EXCEPT !.targets = @ \ {c}]
        /\ session' = [session EXCEPT ![c].pending = Append(@, Content(casting.message))]
        /\ UNCHANGED announced
     \/ /\ ~s.invalidated /\ s.ready /\ pc[c] # "closed"
        /\ casting' = [casting EXCEPT !.targets = @ \ {c}]
        /\ announced' = [announced EXCEPT ![c] = Content(casting.message)]
        /\ UNCHANGED session
     \/ /\ ~s.invalidated /\ s.ready
        /\ casting' = [casting EXCEPT !.targets = @ \ {c}, !.stale = @ \union {c}]
        /\ UNCHANGED <<session, announced>>
  /\ UNCHANGED <<UNCHANGEDbyCast, registered, lastBroadcast, outbox, activeReads>>

(* Mutation: a failed send leaves the lock taken. *)
EndUnlessStale ==
  /\ casting.running /\ casting.targets = {} /\ casting.stale = {}
  /\ activeReads' = IF casting.message.reason = "deleted" THEN activeReads + 1
                    ELSE activeReads
  /\ casting' = NoCast
  /\ UNCHANGED <<UNCHANGEDbyCast, session, registered, lastBroadcast, outbox, announced>>

(* The lock is released, stale connections leave the registry, and a       *)
(* delete request goes on to ReadActive.                                   *)
EndBroadcast ==
  /\ casting.running /\ casting.targets = {}
  /\ registered' = registered \ casting.stale
  /\ activeReads' = IF casting.message.reason = "deleted" THEN activeReads + 1
                    ELSE activeReads
  /\ casting' = NoCast
  /\ UNCHANGED <<UNCHANGEDbyCast, session, lastBroadcast, outbox, announced>>

-----------------------------------------------------------------------------
(* One coroutine, one device, one profile: the parts of the next-state     *)
(* relation.                                                               *)

Handshake(c) ==
  \/ HandshakeFails(c)
  \/ Authenticate(c)
  \/ \E p \in Profiles : LoadProfile(c, p)
  \/ Register(c)
  \/ Greet(c)

Loop(c) ==
  \/ Disconnect(c)
  \/ SendFails(c)
  \/ ReceiveTimeout(c)
  \/ ReceiveOther(c)
  \/ \E r \in Requests, p \in Profiles, v \in 1..MaxRevision : ReceivePress(c, r, p, v)
  \/ CheckCredential(c)
  \/ ReadProfile(c)
  \/ Execute(c)
  \/ DropReply(c)
  \/ BeginReply(c)
  \/ FinishReply(c)

DeviceRoutes ==
  \/ \E k \in Clients : ClaimToken(k) \/ RevokeDevice(k)
  \/ \E t \in claims : \/ PickTargets(t)
                      \/ FinishClaim(t)
                      \/ \E c \in Conns : BeginClose(t, c) \/ EndClose(t, c)

ProfileRoutes ==
  \/ \E p \in Profiles : \/ \E why \in {"created", "updated"} : CreateProfile(p, why)
                         \/ ChangeProfile(p)
                         \/ ActivateProfile(p)
                         \/ ReadBeforeDelete(p)
  \/ \E d \in deleting : DeleteRefused(d) \/ \E q \in Profiles : DeleteProfile(d, q)
  \/ ReadActive

Broadcasts ==
  \/ \E m \in outbox : BeginBroadcast(m)
  \/ \E c \in Conns : SendBroadcast(c)
  \/ EndBroadcast

Next ==
  \/ \E c \in Conns : Handshake(c) \/ Loop(c)
  \/ DeviceRoutes
  \/ ProfileRoutes
  \/ Broadcasts

Spec == Init /\ [][Next]_vars

-----------------------------------------------------------------------------
(* Fairness.  The event loop runs what is ready; a broadcast's and a       *)
(* closing request's sends end within send_timeout; asyncio.Lock wakes its *)
(* waiters in order, so a send that waits for a lock released again and    *)
(* again gets it (strong fairness).  Nothing makes a session's own send    *)
(* end: it has no timeout, and its peer need not read.  Worker threads and *)
(* devices need not make progress either.                                  *)

FairSpec ==
  /\ Spec
  /\ \A c \in Conns : /\ SF_vars(SendBroadcast(c))
                      /\ SF_vars(\E t \in claims : BeginClose(t, c))
                      /\ WF_vars(\E t \in claims : EndClose(t, c))
  /\ WF_vars(\E t \in claims : PickTargets(t))
  /\ WF_vars(EndBroadcast)

-----------------------------------------------------------------------------
(* Properties.                                                             *)

(* A press received after its session's credential was revoked or replaced *)
(* never gets as far as the profile lookup or the action: the check before *)
(* _handle_press is made after the press is read, and a dead generation    *)
(* never comes back (websocket.py:642).                                    *)
RevokedPressNeverRuns ==
  \A c \in Conns : pc[c] \in {"reading", "executing"} => ~press[c].late

(* The action of a request the session still remembers is not run again,   *)
(* whatever the device resends (websocket.py:329).                         *)
RememberedNeverRuns ==
  \A c \in Conns : pc[c] \in {"reading", "executing"} => press[c].request \notin CacheSet(c)

(* An answer stays remembered until MAX_CACHED_RESPONSES other answers     *)
(* came after it: whatever is evicted, answered anew, refused or resent,   *)
(* the last so many requests that were run or refused for good are the     *)
(* ones the cache knows (websocket.py:463).  With RememberedNeverRuns: at  *)
(* most once within that window.                                           *)
AnswersAreRemembered ==
  \A c \in Conns, r \in Requests : newer[c][r] < MaxCachedResponses => r \in CacheSet(c)

(* Slots: never more registered sessions than max_connections, since       *)
(* nothing suspends between the count and the insertion                    *)
(* (websocket.py:117).                                                     *)
ConnectionLimit == Cardinality(registered) <= MaxConnections

(* When the requests that replaced or revoked a device's credential have   *)
(* answered, every session registered at the moment of the change is out   *)
(* of the registry, busy, greeting or idle as it was (websocket.py:124).   *)
RevokedSessionsClosed ==
  \A c \in doomed : (\A t \in claims : t.client # session[c].client) => c \notin registered

(* Announcements reach a session in ascending revisions until a deletion,  *)
(* although the commits they report are delivered by threads in any order  *)
(* (websocket.py:171).                                                     *)
AnnouncementsAscend ==
  [][\A c \in Conns : announced[c] > 0 /\ announced'[c] > 0 => announced'[c] >= announced[c]]_vars

(* The last revision a session heard of. *)
Told(c) == IF announced[c] = 0 THEN snapshot[c] ELSE announced[c]

Quiescent == outbox = {} /\ deleting = {} /\ ~casting.running /\ activeReads = 0

(* A change that a session was owed when it was committed reaches it: once *)
(* all announcements are made, a registered session has heard of that      *)
(* revision or of a later one that exists, dropped and crossed             *)
(* announcements and slow peers notwithstanding.  Profiles that were       *)
(* deleted at any time are RecreationIsAnnounced's (api.py:404,            *)
(* websocket.py:162).                                                      *)
ChangesReachSessions ==
  Quiescent =>
    \A c \in registered :
      LET p == session[c].profile
      IN  owed[c] > 0 /\ p \notin deleted /\ ~session[c].invalidated
            => Told(c) \in owed[c]..revision[p]

(* README.md:334 of the server: the changes made over HTTP generate        *)
(* profile_changed.  Once all announcements are made, the last one of a    *)
(* profile that was changed since the start is of its present revision.    *)
ChangesAreAnnounced ==
  Quiescent => \A p \in Existing \ deleted :
                 revision[p] > 1 => lastBroadcast[p] = revision[p]

(* A revoked or re-paired device's registered sessions leave the registry, *)
(* whatever waits for the same locks.  Closing a session waits for its     *)
(* send lock without a timeout, so one whose own send never ends is        *)
(* excepted; it delays no other session's end (websocket.py:133).          *)
RevokedSessionsLeave ==
  \A c \in Conns : []<>~OwnSend(c) => []<>(c \notin doomed \intersect registered)

(* Every broadcast ends, and the routes that wait for it answer, unless    *)
(* the own send of one of its targets never ends: no other connection and  *)
(* no closing request holds it up (websocket.py:195).                      *)
OnlyHungTargetsBlock ==
  (\A c \in Conns : []<>~(c \in casting.targets /\ OwnSend(c))) => []<>~casting.running

(* README.md:343 of the server: slow connections are removed without       *)
(* blocking the others.  A broadcast then ends, and the next one begins.   *)
BroadcastsEnd == casting.running ~> ~casting.running

(* websocket.py:173: a deletion clears the revision guard so that a later  *)
(* recreation at revision one is not mistaken for an older update.  While  *)
(* the profile exists, its "created" announcement is dropped only for a    *)
(* revision its present incarnation has reached.                           *)
RecreationIsAnnounced ==
  [][\A m \in outbox :
       (m.reason = "created" /\ m.profile \in Existing /\ m \notin outbox' /\ casting' = casting)
         => lastBroadcast[m.profile] <= revision[m.profile]]_vars
=============================================================================
