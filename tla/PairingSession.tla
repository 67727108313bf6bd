--------------------------- MODULE PairingSession ---------------------------
(***************************************************************************)
(* PairingSessionManager of src/server/app/pairing_session.py: the one     *)
(* temporary session, the deadline it dies at, the timer that clears its   *)
(* secrets when nobody asks any more, and the small memory of what became  *)
(* of earlier sessions.  Every operation here is one section under _lock.  *)
(*                                                                         *)
(* Sessions are numbered in the order their passwords are drawn; password, *)
(* salt and key are one secret, which the manager holds or has cleared.    *)
(* A deadline and a timer are kept as the ticks that remain.  A timer may  *)
(* go off Early ticks before the manager's own clock reaches the deadline, *)
(* which is why the callback compares the time that remains.               *)
(***************************************************************************)
EXTENDS Integers, Sequences

CONSTANTS MaxSessions,    \* bound: passwords drawn
          Ttl,            \* PAIRING_TTL, in ticks
          Early,          \* how early a timer may go off
          RetiredLimit    \* retired sessions that are remembered (32)

ASSUME PairingAssumption == /\ MaxSessions \in Nat
                            /\ Ttl \in Nat \ {0}
                            /\ Early \in 0..Ttl
                            /\ RetiredLimit \in Nat \ {0}

NoSession  == 0
Never      == -1
SessionIds == 1..MaxSessions
Reasons    == {"rotated", "used", "expired"}

VARIABLES drawn,        \* how many passwords have been drawn
          remaining,    \* ticks to deadline_monotonic
          secrets,      \* sessions whose key and salt are in memory
          session,      \* _session
          retired,      \* _retired, in the order of insertion
          timer,        \* ticks until the running timer of a session is due
          expiryTimer,  \* the session whose timer is _expiry_timer
          firing,       \* timers that went off and wait for _lock
          endings       \* history: every session that ended, and how

managerVars == <<drawn, remaining, secrets, session, retired, timer, expiryTimer,
                 firing, endings>>

PairingTypeOK ==
  /\ drawn \in 0..MaxSessions
  /\ remaining \in [SessionIds -> 0..Ttl]
  /\ secrets \subseteq SessionIds
  /\ session \in SessionIds \cup {NoSession}
  /\ retired \in Seq([id : SessionIds, why : Reasons])
  /\ timer \in [SessionIds -> 0..Ttl \cup {Never}]
  /\ expiryTimer \in SessionIds \cup {NoSession}
  /\ firing \subseteq SessionIds
  /\ endings \in Seq([id : SessionIds, why : Reasons, late : BOOLEAN])

ManagerInit ==
  /\ drawn = 0
  /\ remaining = [s \in SessionIds |-> 0]
  /\ secrets = {}
  /\ session = NoSession
  /\ retired = <<>>
  /\ timer = [s \in SessionIds |-> Never]
  /\ expiryTimer = NoSession
  /\ firing = {}
  /\ endings = <<>>

-----------------------------------------------------------------------------
(* Mutation: the limit is taken for one too many. *)
PrunedEarly(list) == IF Len(list) >= RetiredLimit THEN Tail(list) ELSE list

(* _prune_retired_locked, after one session was added. *)
Pruned(list) == IF Len(list) > RetiredLimit THEN Tail(list) ELSE list

(* The current session ends: it is remembered, its secrets are cleared and *)
(* its place is taken by next.                                             *)
End(why, next) ==
  /\ retired' = Pruned(Append(retired, [id |-> session, why |-> why]))
  /\ endings' = Append(endings, [id |-> session, why |-> why, late |-> remaining[session] = 0])
  /\ secrets' = secrets \ {session}
  /\ session' = next

(* _cancel_expiry_timer_locked.  A timer that went off already is not      *)
(* stopped by it.                                                          *)
Cancelled == IF expiryTimer = NoSession THEN timer
             ELSE [timer EXCEPT ![expiryTimer] = Never]

CancelTimer == timer' = Cancelled /\ expiryTimer' = NoSession

(* _schedule_expiry_timer_locked, on top of the timers of base. *)
Schedule(base, s) == timer' = [base EXCEPT ![s] = Ttl] /\ expiryTimer' = s

(* create_session before the lock: the password, the key and the deadline. *)
Draw ==
  /\ drawn < MaxSessions
  /\ drawn' = drawn + 1
  /\ remaining' = [remaining EXCEPT ![drawn + 1] = Ttl]
  /\ secrets' = secrets \cup {drawn + 1}
  /\ UNCHANGED <<session, retired, timer, expiryTimer, firing, endings>>

(* Mutation: the secrets of the session that is replaced stay in memory. *)
InstallUncleared(s) ==
  /\ retired' = IF session = NoSession THEN retired
                ELSE Pruned(Append(retired, [id |-> session, why |-> "rotated"]))
  /\ endings' = IF session = NoSession THEN endings
                ELSE Append(endings, [id |-> session, why |-> "rotated",
                                      late |-> remaining[session] = 0])
  /\ session' = s
  /\ Schedule(Cancelled, s)
  /\ UNCHANGED <<drawn, remaining, firing, secrets>>

(* Mutation: the timer of the session that is replaced goes on. *)
InstallUncancelled(s) ==
  /\ IF session # NoSession THEN End("rotated", s)
     ELSE session' = s /\ UNCHANGED <<retired, endings, secrets>>
  /\ Schedule(timer, s)
  /\ UNCHANGED <<drawn, remaining, firing>>

(* create_session under the lock.  The session it replaces is rotated even *)
(* when it is overdue, or was drawn later than this one.                   *)
Install(s) ==
  /\ IF session # NoSession
       THEN End("rotated", s) /\ Schedule(Cancelled, s)
       ELSE /\ session' = s
            /\ Schedule(timer, s)
            /\ UNCHANGED <<retired, endings, secrets>>
  /\ UNCHANGED <<drawn, remaining, firing>>

Overdue == session # NoSession /\ remaining[session] = 0

(* _require_active_locked lets this id through. *)
Active(s) == s # NoSession /\ session = s /\ remaining[s] > 0

(* What _require_active_locked says of a session that is not active. *)
Refusal(s) == IF \E i \in DOMAIN retired : retired[i] = [id |-> s, why |-> "used"]
              THEN "used" ELSE "expired"

(* A bootstrap, a refused claim, or a wrong proof: _expire_if_needed_locked *)
(* ends an overdue session, whichever was asked for.                       *)
LookUp ==
  /\ IF Overdue THEN End("expired", NoSession) /\ CancelTimer
     ELSE UNCHANGED <<retired, endings, secrets, session, timer, expiryTimer>>
  /\ UNCHANGED <<drawn, remaining, firing>>

(* Mutation: the session is only marked, not taken out of its place. *)
ConsumeKept(s) ==
  /\ Active(s)
  /\ End("used", session)
  /\ CancelTimer
  /\ UNCHANGED <<drawn, remaining, firing>>

(* claim with the right proof: the session is consumed. *)
Consume(s) ==
  /\ Active(s)
  /\ End("used", NoSession)
  /\ CancelTimer
  /\ UNCHANGED <<drawn, remaining, firing>>

(* A timer's interval passes (maybe a little early) and its thread calls   *)
(* _expire_from_timer, which has to wait for the lock.                     *)
TimerGoesOff(s) ==
  /\ timer[s] \in 0..Early
  /\ timer' = [timer EXCEPT ![s] = Never]
  /\ firing' = firing \cup {s}
  /\ UNCHANGED <<drawn, remaining, secrets, session, retired, expiryTimer, endings>>

(* Mutation: the callback ends whichever session it finds. *)
TimerCallbackAny(s) ==
  /\ s \in firing
  /\ firing' = firing \ {s}
  /\ IF session = NoSession
       THEN UNCHANGED <<retired, endings, secrets, session, expiryTimer>>
       ELSE End("expired", NoSession) /\ expiryTimer' = NoSession
  /\ UNCHANGED <<drawn, remaining, timer>>

(* Mutation: a timer that goes off early is not started again. *)
TimerCallbackOnce(s) ==
  /\ s \in firing
  /\ firing' = firing \ {s}
  /\ IF session = s /\ remaining[s] = 0
       THEN End("expired", NoSession) /\ expiryTimer' = NoSession
       ELSE UNCHANGED <<retired, endings, secrets, session, expiryTimer>>
  /\ UNCHANGED <<drawn, remaining, timer>>

(* _expire_from_timer under the lock: nothing for another session, a new   *)
(* timer when time remains, the end of the session otherwise.              *)
TimerCallback(s) ==
  /\ s \in firing
  /\ firing' = firing \ {s}
  /\ \/ /\ session # s
        /\ UNCHANGED <<secrets, session, retired, timer, expiryTimer, endings>>
     \/ /\ session = s /\ remaining[s] > 0
        /\ Schedule(timer, s)
        /\ UNCHANGED <<secrets, session, retired, endings>>
     \/ /\ session = s /\ remaining[s] = 0
        /\ End("expired", NoSession)
        /\ expiryTimer' = NoSession
        /\ UNCHANGED timer
  /\ UNCHANGED <<drawn, remaining>>

(* Mutation: the remaining time goes below zero. *)
LessAlways(t) == t - 1

(* One tick of the clock. *)
Less(t) == IF t > 0 THEN t - 1 ELSE t

DeadlinesNear ==
  /\ remaining' = [s \in SessionIds |-> Less(remaining[s])]
  /\ timer' = [s \in SessionIds |-> Less(timer[s])]
  /\ UNCHANGED <<drawn, secrets, session, retired, expiryTimer, firing, endings>>
=============================================================================
