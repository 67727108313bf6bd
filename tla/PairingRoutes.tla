---------------------------- MODULE PairingRoutes ----------------------------
(***************************************************************************)
(* The three pairing routes of src/server/app/api.py, composed with the    *)
(* session manager, the limiters and the credential store.  Bootstrap and  *)
(* creation are synchronous handlers, each in a thread of its own; a claim *)
(* is a coroutine, whose limiter calls are atomic with respect to other    *)
(* claims, and which leaves the event loop for each of its two writes.     *)
(*                                                                         *)
(* A call is one request under way; its record is reset when it is         *)
(* answered.  Closing the WebSocket sessions of the device, the last thing *)
(* a claim does, is WebSocketChannel's; parsing and answers are left out,  *)
(* and so are the refusals that come before any state is touched.          *)
(***************************************************************************)
EXTENDS PairingSession, RateLimiter, CredentialStore

CONSTANT Calls             \* requests under way at the same time

ASSUME RoutesAssumption == Clients # {} /\ Origins # {}

VARIABLES calls,           \* where each request is
          tokens           \* history: the tokens issued for temporary sessions

vars == <<managerVars, limiterVars, credentialVars, calls, tokens>>

Steps == {"idle", "decide", "work", "install", "claim", "issue", "finish"}
Kinds == {"none", "create", "bootstrap", "claim", "code"}

CallRecords == [kind : Kinds, step : Steps, origin : Origins, device : Clients,
                session : SessionIds \cup {NoSession}, right : BOOLEAN, lag : 0..MaxLag]

Idle == [kind |-> "none", step |-> "idle", origin |-> CHOOSE o \in Origins : TRUE,
         device |-> CHOOSE d \in Clients : TRUE, session |-> NoSession,
         right |-> FALSE, lag |-> 0]

Started(kind, step, o) ==
  [Idle EXCEPT !.kind = kind, !.step = step, !.origin = o]

(* Only a session that was presented can be asked for. *)
Presented == {s \in 1..drawn : \A c \in Calls : calls[c].step = "install" => calls[c].session # s}

Init ==
  /\ ManagerInit
  /\ LimitersInit
  /\ generation = [d \in Clients |-> 0]
  /\ revoked = [d \in Clients |-> FALSE]
  /\ calls = [c \in Calls |-> Idle]
  /\ tokens = {}

At(c, kind, step) == calls[c].kind = kind /\ calls[c].step = step

Go(c, step) == calls' = [calls EXCEPT ![c].step = step]
Answer(c)   == calls' = [calls EXCEPT ![c] = Idle]

Limiter(kind) == IF kind = "create" THEN "admin"
                 ELSE IF kind = "bootstrap" THEN "bootstraps" ELSE "claims"

(* The limiters that are not modelled admit and refuse at will. *)
Passes(l, o, lag)  == l \in Limiters => Admits(l, o, lag)
Refuses(l, o, lag) == l \in Limiters => ~Admits(l, o, lag)
Counted(l, o, lag) == IF l \in Limiters THEN Allow(l, o, lag) ELSE UNCHANGED limiterVars
Forgotten(l, o)    == IF l \in Limiters THEN Reset(l, o) ELSE UNCHANGED limiterVars

-----------------------------------------------------------------------------
(* create_local_pairing_session and pairing_bootstrap, up to the limiter's *)
(* reading of the clock.  right says whether the admin code is.            *)
StartCreate(c, o, right) ==
  /\ calls[c] = Idle
  /\ calls' = [calls EXCEPT ![c] = [Started("create", "decide", o) EXCEPT !.right = right]]
  /\ UNCHANGED <<managerVars, limiterVars, credentialVars, tokens>>

StartBootstrap(c, o, s) ==
  /\ calls[c] = Idle
  /\ s \in Presented
  /\ calls' = [calls EXCEPT ![c] = [Started("bootstrap", "decide", o) EXCEPT !.session = s]]
  /\ UNCHANGED <<managerVars, limiterVars, credentialVars, tokens>>

(* allow, from the lock on; a creation with a wrong admin code ends here.  *)
(* A limiter that is not modelled may refuse at any time.                  *)
DecideCall(c) ==
  LET call == calls[c]
      l    == Limiter(call.kind)
  IN  /\ call.step = "decide"
      /\ \/ /\ Passes(l, call.origin, call.lag)
            /\ call.kind = "create" => call.right
            /\ calls' = [calls EXCEPT ![c].step = "work", ![c].lag = 0]
         \/ /\ Refuses(l, call.origin, call.lag) \/ (call.kind = "create" /\ ~call.right)
            /\ Answer(c)
      /\ Counted(l, call.origin, call.lag)
      /\ UNCHANGED <<managerVars, credentialVars, tokens>>

(* The admin limiter forgets the origin, and a session is drawn. *)
CreateDraws(c) ==
  /\ At(c, "create", "work")
  /\ Forgotten("admin", calls[c].origin)
  /\ Draw
  /\ calls' = [calls EXCEPT ![c].step = "install", ![c].session = drawn + 1]
  /\ UNCHANGED <<credentialVars, tokens>>

(* No CA or no private address is known: the route answers 503. *)
CreateUnavailable(c) ==
  /\ At(c, "create", "work")
  /\ Forgotten("admin", calls[c].origin)
  /\ Answer(c)
  /\ UNCHANGED <<managerVars, credentialVars, tokens>>

CreateInstalls(c) ==
  /\ At(c, "create", "install")
  /\ Install(calls[c].session)
  /\ Answer(c)
  /\ UNCHANGED <<limiterVars, credentialVars, tokens>>

BootstrapLooksUp(c) ==
  /\ At(c, "bootstrap", "work")
  /\ LookUp
  /\ IF Active(calls[c].session) THEN Go(c, "finish") ELSE Answer(c)
  /\ UNCHANGED <<limiterVars, credentialVars, tokens>>

BootstrapFinishes(c) ==
  /\ At(c, "bootstrap", "finish")
  /\ Forgotten("bootstraps", calls[c].origin)
  /\ Answer(c)
  /\ UNCHANGED <<managerVars, credentialVars, tokens>>

-----------------------------------------------------------------------------
(* claim_pairing.  The limiter is asked on the event loop, so that the     *)
(* clock it reads is the present one.                                      *)
StartClaim(c, kind, o, d, s, right) ==
  /\ calls[c] = Idle
  /\ IF kind = "claim" THEN s \in Presented ELSE s = NoSession
  /\ Counted("claims", o, 0)
  /\ \/ /\ Passes("claims", o, 0)
        /\ calls' = [calls EXCEPT ![c] =
              [Started(kind, IF kind = "claim" THEN "claim" ELSE "issue", o)
                 EXCEPT !.device = d, !.session = s, !.right = right]]
     \/ /\ Refuses("claims", o, 0)
        /\ UNCHANGED calls
  /\ UNCHANGED <<managerVars, credentialVars, tokens>>

(* pairing_session_manager.claim, in a thread. *)
ClaimLooksUp(c) ==
  LET call == calls[c]
  IN  /\ At(c, "claim", "claim")
      /\ IF Active(call.session) /\ call.right
           THEN Consume(call.session) /\ Go(c, "issue")
           ELSE LookUp /\ Answer(c)
      /\ UNCHANGED <<limiterVars, credentialVars, tokens>>

(* issue_token for a consumed session, claim_token for a static code, in a *)
(* thread and a transaction.  A wrong code and a failed transaction are    *)
(* answered without a token; the session stays consumed.                   *)
ClaimIssues(c) ==
  LET call == calls[c]
  IN  /\ call.step = "issue"
      /\ call.right
      /\ IssueToken(call.device)
      /\ tokens' = IF call.kind = "code" THEN tokens
                    ELSE tokens \cup {[session |-> call.session, device |-> call.device,
                                       generation |-> generation[call.device] + 1]}
      /\ Go(c, "finish")
      /\ UNCHANGED <<managerVars, limiterVars>>

(* Mutation: a failed transaction gives the session back. *)
ClaimFailsBack(c) ==
  /\ calls[c].step = "issue"
  /\ Answer(c)
  /\ session' = IF calls[c].kind = "claim" THEN calls[c].session ELSE session
  /\ UNCHANGED <<drawn, remaining, secrets, retired, timer, expiryTimer, firing, endings>>
  /\ UNCHANGED <<limiterVars, credentialVars, tokens>>

ClaimFails(c) ==
  /\ calls[c].step = "issue"
  /\ Answer(c)
  /\ UNCHANGED <<managerVars, limiterVars, credentialVars, tokens>>

ClaimFinishes(c) ==
  /\ calls[c].kind \in {"claim", "code"} /\ calls[c].step = "finish"
  /\ Forgotten("claims", calls[c].origin)
  /\ Answer(c)
  /\ UNCHANGED <<managerVars, credentialVars, tokens>>

-----------------------------------------------------------------------------
Timer(s) == /\ TimerGoesOff(s) \/ TimerCallback(s)
            /\ UNCHANGED <<limiterVars, credentialVars, calls, tokens>>

(* The reading of the clock that a modelled limiter has yet to decide on.  *)
Waits(c) == calls[c].step = "decide" /\ Limiter(calls[c].kind) \in Limiters

(* Time passes; the bound on lags keeps it from passing a call that waits  *)
(* for a limiter's lock.                                                   *)
Tick ==
  /\ \A c \in Calls : Waits(c) => calls[c].lag < MaxLag
  /\ DeadlinesNear
  /\ AttemptsAge
  /\ calls' = [c \in Calls |-> IF Waits(c) THEN [calls[c] EXCEPT !.lag = @ + 1]
                              ELSE calls[c]]
  /\ UNCHANGED <<credentialVars, tokens>>

Start(c) ==
  \E o \in Origins :
    \/ \E right \in BOOLEAN : StartCreate(c, o, right)
    \/ \E s \in SessionIds : StartBootstrap(c, o, s)
    \/ \E kind \in {"claim", "code"}, d \in Clients, s \in SessionIds \cup {NoSession},
          right \in BOOLEAN : StartClaim(c, kind, o, d, s, right)

Step(c) ==
  \/ DecideCall(c)
  \/ CreateDraws(c) \/ CreateUnavailable(c) \/ CreateInstalls(c)
  \/ BootstrapLooksUp(c) \/ BootstrapFinishes(c)
  \/ ClaimLooksUp(c) \/ ClaimIssues(c) \/ ClaimFails(c) \/ ClaimFinishes(c)

Next == \/ \E c \in Calls : Start(c) \/ Step(c)
        \/ \E s \in SessionIds : Timer(s)
        \/ Tick

Spec == Init /\ [][Next]_vars

(* Threads that were started run on, timers go off when they are due, and  *)
(* time passes.  Nothing makes a request come.                             *)
Fairness == /\ \A c \in Calls : WF_vars(Step(c))
            /\ \A s \in SessionIds : WF_vars(Timer(s))
            /\ WF_vars(Tick)

FairSpec == Spec /\ Fairness

-----------------------------------------------------------------------------
RoutesTypeOK ==
  /\ PairingTypeOK
  /\ CredentialTypeOK
  /\ calls \in [Calls -> CallRecords]
  /\ tokens \subseteq [session : SessionIds \cup {NoSession}, device : Clients,
                       generation : Nat]

Ended(s, why) == \E i \in DOMAIN endings : endings[i].id = s /\ endings[i].why = why

(* Every session ends once, and for the reason that is remembered: used    *)
(* only before its deadline, expired only after it, whether a request, the *)
(* timer or a timer that was cancelled too late gets the lock first        *)
(* (pairing_session.py:268, :292).                                         *)
HonestEndings ==
  \A i \in DOMAIN endings :
    LET e == endings[i]
    IN  /\ e.why = "used" => ~e.late
        /\ e.why = "expired" => e.late
        /\ e.id # session
        /\ \A j \in DOMAIN endings : endings[j].id = e.id => i = j

(* The one-time session gives one token at most, and only once it was      *)
(* consumed: of two claims under way at the same time one is refused, and  *)
(* one whose token could not be written has spent it (api.py:870-882).     *)
OneTokenPerSession ==
  /\ \A t, u \in tokens : t.session = u.session => t = u
  /\ \A t \in tokens : Ended(t.session, "used")

Installing == {calls[c].session : c \in {x \in Calls : calls[x].step = "install"}}

(* The manager holds the secrets of its session and of those a request is  *)
(* about to install, and of no other: every way to lose a session clears   *)
(* them, and none clears those of a session that can still be claimed      *)
(* (pairing_session.py:313).                                               *)
SecretsHeld == secrets = Installing \cup ({session} \ {NoSession})

(* The session in memory always has a timer, running or waiting for the    *)
(* lock, and no timer runs that the manager could not cancel               *)
(* (pairing_session.py:277-299).                                           *)
OneTimer ==
  /\ session # NoSession => timer[session] # Never \/ session \in firing
  /\ \A s \in SessionIds : timer[s] # Never => s = session /\ s = expiryTimer

(* Whoever repeats a claim is told that the session was used, as long as   *)
(* it is among the RetiredLimit sessions that ended last: only the oldest  *)
(* are forgotten (pairing_session.py:307).                                 *)
UsedIsRemembered ==
  \A i \in DOMAIN endings :
    endings[i].why = "used" /\ i > Len(endings) - RetiredLimit
      => Refusal(endings[i].id) = "used"

(* Claims are decided on the event loop, so that their limiter never sees  *)
(* times out of order: of any origin no more than max_attempts are         *)
(* admitted in a window without a success (api.py:859).                    *)
ClaimsBounded == "claims" \in Limiters => WindowHolds("claims")

(* No secret stays in memory for ever: the timer clears a session that     *)
(* nobody asks for any more, also when it goes off before the deadline     *)
(* (pairing_session.py:292).                                               *)
SecretsAreCleared == \A s \in SessionIds : s \in secrets ~> s \notin secrets

-----------------------------------------------------------------------------
(* The abstract view of a session. *)
Stage(s) == IF session = s THEN "offered"
            ELSE IF Ended(s, "used") THEN "used"
            ELSE IF \E i \in DOMAIN endings : endings[i].id = s THEN "over"
            ELSE "fresh"

Promise == INSTANCE OneTimePairing WITH Passwords <- SessionIds,
                                        stage <- [s \in SessionIds |-> Stage(s)]

(* The routes, the manager and its timers together implement one-time      *)
(* pairing: sessions are offered one at a time, leave that stage once, and *)
(* give at most one token, after they were used.                           *)
PairingIsOneTime == Promise!Spec
=============================================================================
