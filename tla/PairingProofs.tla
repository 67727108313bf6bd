---------------------------- MODULE PairingProofs ----------------------------
(***************************************************************************)
(* Proofs about PairingRoutes for every number of requests, sessions,      *)
(* devices and ticks.  The manager's part of the invariant is carried      *)
(* through one lemma per section under its lock; the requests' part, which *)
(* says which sessions they hold, through one step per action.             *)
(***************************************************************************)
EXTENDS PairingRoutes, TLAPS

Gone == {endings[i].id : i \in DOMAIN endings}

UsedIds == {endings[i].id : i \in {j \in DOMAIN endings : endings[j].why = "used"}}

(* The list of retired sessions is the end of the history. *)
Remembers ==
  /\ Len(retired) = IF Len(endings) < RetiredLimit THEN Len(endings) ELSE RetiredLimit
  /\ \A k \in 1..Len(retired) :
       LET e == endings[Len(endings) - Len(retired) + k]
       IN  retired[k] = [id |-> e.id, why |-> e.why]

(* A timer that waits for the lock runs no more, and its session was        *)
(* installed once.                                                         *)
Waiting == \A s \in firing : timer[s] = Never /\ s \in Gone \cup {session}

ManagerInv ==
  /\ PairingTypeOK
  /\ Waiting
  /\ session <= drawn
  /\ \A g \in Gone : g <= drawn
  /\ HonestEndings
  /\ OneTimer
  /\ expiryTimer = session
  /\ Remembers

-----------------------------------------------------------------------------
(* The history of endings.                                                 *)

LEMMA Constants ==
  /\ MaxSessions \in Nat /\ Ttl \in Nat \ {0} /\ Early \in 0..Ttl
  /\ RetiredLimit \in Nat \ {0}
  /\ NoSession = 0 /\ Never = -1 /\ SessionIds = 1..MaxSessions
  /\ NoSession \notin SessionIds
BY PairingAssumption DEF NoSession, Never, SessionIds

LEMMA UsedIdsEnded ==
  ASSUME NEW s
  PROVE  /\ Ended(s, "used") <=> s \in UsedIds
         /\ UsedIds \subseteq Gone
BY DEF Ended, UsedIds, Gone

LEMMA Elements ==
  ASSUME NEW S, NEW list \in Seq(S), NEW i \in DOMAIN list
  PROVE  list[i] \in S
OBVIOUS

LEMMA GoneIds ==
  ASSUME PairingTypeOK
  PROVE  Gone \subseteq SessionIds
<1> SUFFICES ASSUME NEW i \in DOMAIN endings PROVE endings[i].id \in SessionIds
  BY DEF Gone
<1>1. endings \in Seq([id : SessionIds, why : Reasons, late : BOOLEAN])
  BY DEF PairingTypeOK
<1>2. endings[i] \in [id : SessionIds, why : Reasons, late : BOOLEAN]
  BY <1>1, Elements
<1> QED BY <1>2

LEMMA Shorter ==
  ASSUME NEW n \in Nat, NEW m \in Nat, NEW limit \in Nat \ {0},
         m = IF n < limit THEN n ELSE limit
  PROVE  /\ m + 1 > limit => m = limit /\ limit <= n
         /\ ~(m + 1 > limit) => m = n
OBVIOUS

(* What End does to every part of the invariant that speaks of history. *)
LEMMA EndKeeps ==
  ASSUME ManagerInv, session # NoSession,
         NEW why \in Reasons, NEW next \in SessionIds \cup {NoSession},
         next \notin Gone, next # session,
         why = "used" => remaining[session] # 0,
         why = "expired" => remaining[session] = 0,
         End(why, next)
  PROVE  /\ retired' \in Seq([id : SessionIds, why : Reasons])
         /\ endings' \in Seq([id : SessionIds, why : Reasons, late : BOOLEAN])
         /\ secrets' = secrets \ {session}
         /\ session' = next
         /\ HonestEndings'
         /\ Remembers'
         /\ Gone' = Gone \cup {session}
         /\ UsedIds' = IF why = "used" THEN UsedIds \cup {session} ELSE UsedIds
<1> DEFINE e == [id |-> session, why |-> why, late |-> remaining[session] = 0]
           r == [id |-> session, why |-> why]
           n == Len(endings)
<1>1. /\ session \in SessionIds /\ Len(endings) \in Nat /\ DOMAIN endings = 1..n
      /\ endings \in Seq([id : SessionIds, why : Reasons, late : BOOLEAN])
      /\ retired \in Seq([id : SessionIds, why : Reasons])
  BY DEF ManagerInv, PairingTypeOK
<1>2. e \in [id : SessionIds, why : Reasons, late : BOOLEAN] /\ r \in [id : SessionIds, why : Reasons]
  BY <1>1
<1>3. endings' = Append(endings, e) /\ retired' = Pruned(Append(retired, r))
      /\ secrets' = secrets \ {session} /\ session' = next
  BY DEF End
<1>4. /\ endings' \in Seq([id : SessionIds, why : Reasons, late : BOOLEAN])
      /\ Len(endings') = n + 1 /\ DOMAIN endings' = 1..(n + 1)
      /\ endings'[n + 1] = e
      /\ \A i \in 1..n : endings'[i] = endings[i]
  <2> HIDE DEF e
  <2> QED BY <1>1, <1>2, <1>3
<1>5. /\ Append(retired, r) \in Seq([id : SessionIds, why : Reasons])
      /\ Len(Append(retired, r)) = Len(retired) + 1
      /\ Append(retired, r)[Len(retired) + 1] = r
      /\ \A k \in 1..Len(retired) : Append(retired, r)[k] = retired[k]
  <2> HIDE DEF r
  <2> QED BY <1>1, <1>2
<1>6. retired' \in Seq([id : SessionIds, why : Reasons])
  <2>1. Append(retired, r) # <<>>
    BY <1>1, <1>5
  <2>2. Tail(Append(retired, r)) \in Seq([id : SessionIds, why : Reasons])
    <3> HIDE DEF r
    <3> QED BY <1>5, <2>1
  <2> QED BY <1>3, <1>5, <2>2 DEF Pruned
<1>7. Gone' = Gone \cup {session}
  <2>1. ASSUME NEW g \in Gone' PROVE g \in Gone \cup {session}
    BY <1>1, <1>4 DEF Gone
  <2>2. ASSUME NEW g \in Gone PROVE g \in Gone'
    BY <1>1, <1>4 DEF Gone
  <2>3. session \in Gone'
    BY <1>1, <1>4 DEF Gone
  <2> QED BY <2>1, <2>2, <2>3
<1>8. UsedIds' = IF why = "used" THEN UsedIds \cup {session} ELSE UsedIds
  <2>1. ASSUME NEW g \in UsedIds'
        PROVE  g \in UsedIds \/ (g = session /\ why = "used")
    BY <1>1, <1>4 DEF UsedIds
  <2>2. ASSUME NEW g \in UsedIds PROVE g \in UsedIds'
    BY <1>1, <1>4 DEF UsedIds
  <2>3. why = "used" => session \in UsedIds'
    BY <1>1, <1>4 DEF UsedIds
  <2> QED BY <2>1, <2>2, <2>3
<1>9. HonestEndings'
  <2> SUFFICES ASSUME NEW i \in 1..(n + 1)
               PROVE  /\ endings'[i].why = "used" => ~endings'[i].late
                      /\ endings'[i].why = "expired" => endings'[i].late
                      /\ endings'[i].id # session'
                      /\ \A j \in 1..(n + 1) : endings'[j].id = endings'[i].id => i = j
    BY <1>4 DEF HonestEndings
  <2>1. ASSUME NEW k \in 1..n
        PROVE  /\ endings[k].why = "used" => ~endings[k].late
               /\ endings[k].why = "expired" => endings[k].late
               /\ endings[k].id # session
               /\ \A j \in 1..n : endings[j].id = endings[k].id => k = j
               /\ endings[k].id \in Gone
    BY <1>1 DEF ManagerInv, HonestEndings, Gone
  <2>a. /\ e.id = session /\ e.why = why /\ e.late = (remaining[session] = 0)
        /\ n \in Nat
    BY <1>1
  <2>b. endings'[n + 1].id = session /\ endings'[n + 1].why = why
        /\ endings'[n + 1].late = (remaining[session] = 0)
    BY <2>a, <1>4
  <2>c. \A k \in 1..n : endings'[k] = endings[k]
    BY <1>4
  <2> HIDE DEF e, n
  <2>2. CASE i = n + 1
    <3>1. \A j \in 1..(n + 1) : endings'[j].id = endings'[i].id => i = j
      <4> SUFFICES ASSUME NEW j \in 1..(n + 1), j # n + 1 PROVE endings'[j].id # session
        BY <2>2, <2>b
      <4>1. j \in 1..n
        BY <2>a
      <4> QED BY <4>1, <2>1, <2>c
    <3> QED BY <3>1, <2>2, <2>b, <1>3
  <2>3. CASE i # n + 1
    <3>1. i \in 1..n
      BY <2>3, <2>a
    <3>2. \A j \in 1..(n + 1) : endings'[j].id = endings'[i].id => i = j
      <4> SUFFICES ASSUME NEW j \in 1..(n + 1), endings'[j].id = endings'[i].id PROVE i = j
        OBVIOUS
      <4>1. CASE j = n + 1
        BY <4>1, <3>1, <2>1, <2>b, <2>c
      <4>2. CASE j # n + 1
        <5>1. j \in 1..n
          BY <4>2, <2>a
        <5> QED BY <5>1, <3>1, <2>1, <2>c
      <4> QED BY <4>1, <4>2
    <3>3. endings'[i].id # next
      BY <3>1, <2>1, <2>c
    <3> QED BY <3>1, <3>2, <3>3, <2>1, <2>c, <1>3
  <2> QED BY <2>2, <2>3
<1>10. Remembers'
  <2>1. /\ Len(retired) \in Nat /\ RetiredLimit \in Nat \ {0}
        /\ Len(retired) = IF n < RetiredLimit THEN n ELSE RetiredLimit
        /\ \A k \in 1..Len(retired) :
             retired[k] = [id |-> endings[n - Len(retired) + k].id,
                           why |-> endings[n - Len(retired) + k].why]
    BY <1>1, Constants DEF ManagerInv, Remembers
  <2>a. n \in Nat
    BY <1>1
  <2>b. /\ Len(retired) + 1 > RetiredLimit => Len(retired) = RetiredLimit /\ RetiredLimit <= n
        /\ ~(Len(retired) + 1 > RetiredLimit) => Len(retired) = n
    <3> HIDE DEF n
    <3> QED BY <2>1, <2>a, Shorter
  <2>2. CASE Len(retired) + 1 > RetiredLimit
    <3>1. Len(retired) = RetiredLimit /\ RetiredLimit <= n
      BY <2>b, <2>2
    <3>2. retired' = Tail(Append(retired, r))
      BY <1>3, <1>5, <2>2 DEF Pruned
    <3>3. /\ Len(retired') = Len(retired)
          /\ \A k \in 1..Len(retired) : retired'[k] = Append(retired, r)[k + 1]
      <4>1. Append(retired, r) # <<>>
        BY <1>1, <1>5
      <4> HIDE DEF r
      <4> QED BY <1>5, <1>1, <3>2, <4>1
    <3>4. ASSUME NEW k \in 1..Len(retired)
          PROVE  retired'[k] = [id |-> endings'[(n + 1) - Len(retired) + k].id,
                                why |-> endings'[(n + 1) - Len(retired) + k].why]
      <4>1. CASE k = Len(retired)
        <5>1. (n + 1) - Len(retired) + k = n + 1
          BY <4>1, <2>a, <2>1
        <5>2. retired'[k] = r
          BY <4>1, <3>3, <1>5
        <5>3. r.id = e.id /\ r.why = e.why /\ r = [id |-> e.id, why |-> e.why]
          OBVIOUS
        <5> HIDE DEF e, r
        <5> QED BY <5>1, <5>2, <5>3, <1>4
      <4>2. CASE k < Len(retired)
        <5>1. k + 1 \in 1..Len(retired) /\ n - Len(retired) + (k + 1) \in 1..n
              /\ (n + 1) - Len(retired) + k = n - Len(retired) + (k + 1)
          <6>1. Len(retired) \in Nat /\ Len(retired) <= n
            BY <2>1, <3>1
          <6> HIDE DEF n
          <6> QED BY <4>2, <6>1, <2>a
        <5>a. Append(retired, r)[k + 1] = retired[k + 1]
          <6> HIDE DEF r
          <6> QED BY <5>1, <1>5
        <5>2. retired'[k] = retired[k + 1]
          BY <3>3, <5>a
        <5>3. endings'[n - Len(retired) + (k + 1)] = endings[n - Len(retired) + (k + 1)]
          <6> HIDE DEF n
          <6> QED BY <5>1, <1>4
        <5>4. retired[k + 1] = [id |-> endings[n - Len(retired) + (k + 1)].id,
                                why |-> endings[n - Len(retired) + (k + 1)].why]
          <6> HIDE DEF n
          <6> QED BY <5>1, <2>1
        <5> HIDE DEF n
        <5> QED BY <5>1, <5>2, <5>3, <5>4
      <4> QED BY <4>1, <4>2, <2>1
    <3> QED BY <3>1, <3>3, <3>4, <1>4, <1>1 DEF Remembers
  <2>3. CASE ~(Len(retired) + 1 > RetiredLimit)
    <3>1. Len(retired) = n
      BY <2>b, <2>3
    <3>2. retired' = Append(retired, r)
      BY <1>3, <1>5, <2>3 DEF Pruned
    <3>3. ASSUME NEW k \in 1..(n + 1)
          PROVE  retired'[k] = [id |-> endings'[k].id, why |-> endings'[k].why]
      <4>1. CASE k = n + 1
        BY <4>1, <3>1, <3>2, <1>4, <1>5
      <4>2. CASE k # n + 1
        <5>1. k \in 1..n /\ n - Len(retired) + k = k
          BY <4>2, <1>1, <3>1
        <5> QED BY <5>1, <3>1, <3>2, <2>1, <1>4, <1>5
      <4> QED BY <4>1, <4>2
    <3>4. Len(retired') = n + 1 /\ n + 1 <= RetiredLimit
      BY <3>1, <3>2, <1>5, <2>3, <2>1, <1>1
    <3>5. \A k \in 1..Len(retired') : Len(endings') - Len(retired') + k = k
      BY <3>4, <1>4, <1>1
    <3> QED BY <3>3, <3>4, <3>5, <1>4, <1>1, <2>1 DEF Remembers
  <2> QED BY <2>2, <2>3
<1> QED BY <1>3, <1>4, <1>6, <1>7, <1>8, <1>9, <1>10

-----------------------------------------------------------------------------
(* One lemma for each section of the manager.                              *)

LEMMA SameHistory ==
  ASSUME ManagerInv, UNCHANGED <<endings, retired>>
  PROVE  /\ Gone' = Gone /\ UsedIds' = UsedIds /\ Remembers'
         /\ UNCHANGED session => HonestEndings'
BY DEF ManagerInv, Gone, UsedIds, Remembers, HonestEndings

LEMMA ManagerStarts ==
  ManagerInit => ManagerInv /\ Gone = {} /\ UsedIds = {}
<1> SUFFICES ASSUME ManagerInit PROVE ManagerInv /\ Gone = {} /\ UsedIds = {}
  OBVIOUS
<1>1. DOMAIN endings = {} /\ Len(endings) = 0 /\ Len(retired) = 0
  BY DEF ManagerInit
<1>2. Gone = {} /\ UsedIds = {}
  BY <1>1 DEF Gone, UsedIds
<1>3. PairingTypeOK
  BY Constants DEF ManagerInit, PairingTypeOK, Reasons
<1>4. Remembers
  BY <1>1, Constants DEF Remembers
<1>5. HonestEndings /\ OneTimer /\ Waiting
  BY <1>1, Constants DEF HonestEndings, OneTimer, ManagerInit, Waiting
<1> QED BY <1>2, <1>3, <1>4, <1>5, Constants DEF ManagerInv, ManagerInit

LEMMA DrawKeeps ==
  ASSUME ManagerInv, Draw
  PROVE  /\ ManagerInv' /\ Gone' = Gone /\ UsedIds' = UsedIds
         /\ drawn + 1 \in SessionIds /\ drawn + 1 \notin Gone /\ drawn + 1 # session
         /\ drawn' = drawn + 1 /\ session' = session
         /\ secrets' = secrets \cup {drawn + 1}
<1>1. /\ drawn \in Nat /\ drawn + 1 \in SessionIds
      /\ session \in Int
      /\ \A g \in Gone : g \in SessionIds
  BY GoneIds, Constants DEF ManagerInv, PairingTypeOK, Draw
<1>2. drawn + 1 \notin Gone /\ drawn + 1 # session
  BY <1>1, Constants DEF ManagerInv
<1>3. Gone' = Gone /\ UsedIds' = UsedIds /\ Remembers' /\ HonestEndings'
  BY SameHistory DEF Draw
<1>4. PairingTypeOK'
  BY <1>1, Constants DEF ManagerInv, PairingTypeOK, Draw
<1>5. OneTimer' /\ expiryTimer' = session' /\ Waiting'
  BY <1>3 DEF ManagerInv, OneTimer, Draw, Waiting
<1>6. session' <= drawn' /\ \A g \in Gone' : g <= drawn'
  BY <1>1, <1>3, Constants DEF ManagerInv, Draw
<1> QED BY <1>1, <1>2, <1>3, <1>4, <1>5, <1>6 DEF ManagerInv, Draw

LEMMA CancelledTimers ==
  ASSUME ManagerInv
  PROVE  /\ Cancelled \in [SessionIds -> 0..Ttl \cup {Never}]
         /\ \A s \in SessionIds : Cancelled[s] = Never
         /\ session = NoSession => Cancelled = timer
<1>1. /\ timer \in [SessionIds -> 0..Ttl \cup {Never}]
      /\ expiryTimer = session /\ session \in SessionIds \cup {NoSession}
      /\ \A s \in SessionIds : timer[s] # Never => s = session
  BY DEF ManagerInv, PairingTypeOK, OneTimer
<1> QED BY <1>1, Constants DEF Cancelled

LEMMA InstallKeeps ==
  ASSUME ManagerInv, NEW s \in SessionIds, s <= drawn, s \notin Gone, s # session, Install(s)
  PROVE  /\ ManagerInv'
         /\ Gone' = Gone \cup ({session} \ {NoSession}) /\ UsedIds' = UsedIds
         /\ drawn' = drawn /\ session' = s
         /\ secrets' = secrets \ {session}
<1>1. PairingTypeOK /\ session \in SessionIds \cup {NoSession} /\ session <= drawn
  BY DEF ManagerInv, PairingTypeOK
<1>2. timer' = [Cancelled EXCEPT ![s] = Ttl] /\ expiryTimer' = s /\ session' = s
      /\ UNCHANGED <<drawn, remaining, firing>>
  BY CancelledTimers DEF Install, Schedule, End
<1>3. /\ timer' \in [SessionIds -> 0..Ttl \cup {Never}]
      /\ OneTimer' /\ expiryTimer' = session'
      /\ \A t \in firing' : timer'[t] = Never
  <2>1. s \notin firing /\ firing \subseteq SessionIds
    BY DEF ManagerInv, Waiting, PairingTypeOK
  <2> QED BY <2>1, <1>2, CancelledTimers, Constants DEF OneTimer
<1>4. CASE session # NoSession
  <2>1. End("rotated", s)
    BY <1>4 DEF Install
  <2>2. "rotated" \in Reasons /\ s \in SessionIds \cup {NoSession}
    BY DEF Reasons
  <2>3. /\ retired' \in Seq([id : SessionIds, why : Reasons])
        /\ endings' \in Seq([id : SessionIds, why : Reasons, late : BOOLEAN])
        /\ secrets' = secrets \ {session} /\ HonestEndings' /\ Remembers'
        /\ Gone' = Gone \cup {session} /\ UsedIds' = UsedIds
    BY <1>4, <2>1, <2>2, EndKeeps
  <2>4. PairingTypeOK'
    BY <1>1, <1>2, <1>3, <2>3 DEF PairingTypeOK
  <2>5. Waiting'
    BY <1>2, <1>3, <2>3 DEF ManagerInv, Waiting
  <2> QED BY <1>1, <1>2, <1>3, <1>4, <2>3, <2>4, <2>5 DEF ManagerInv
<1>5. CASE session = NoSession
  <2>1. UNCHANGED <<retired, endings, secrets>>
    BY <1>5 DEF Install
  <2>2. Gone' = Gone /\ UsedIds' = UsedIds /\ Remembers'
    BY <2>1, SameHistory
  <2>3. HonestEndings'
    BY <2>1, <1>2 DEF ManagerInv, HonestEndings, Gone
  <2>4. PairingTypeOK'
    BY <1>1, <1>2, <1>3, <2>1 DEF PairingTypeOK
  <2>5. secrets' = secrets \ {session}
    BY <1>1, <1>5, <2>1, Constants DEF PairingTypeOK
  <2>6. Waiting'
    <3>1. \A t \in firing : t \in Gone
      BY <1>5, Constants DEF ManagerInv, Waiting, PairingTypeOK
    <3> QED BY <1>2, <1>3, <2>2, <3>1 DEF Waiting
  <2> QED BY <1>1, <1>2, <1>3, <1>5, <2>2, <2>3, <2>4, <2>5, <2>6 DEF ManagerInv
<1> QED BY <1>4, <1>5

(* The session ends and nothing takes its place. *)
LEMMA LeaveKeeps ==
  ASSUME ManagerInv, session # NoSession,
         NEW why \in Reasons, End(why, NoSession),
         why = "used" => remaining[session] # 0,
         why = "expired" => remaining[session] = 0,
         timer' \in [SessionIds -> 0..Ttl \cup {Never}],
         \A s \in SessionIds : timer'[s] = Never,
         expiryTimer' = NoSession,
         firing' \subseteq firing,
         UNCHANGED <<drawn, remaining>>
  PROVE  /\ ManagerInv'
         /\ Gone' = Gone \cup {session}
         /\ UsedIds' = IF why = "used" THEN UsedIds \cup {session} ELSE UsedIds
         /\ session' = NoSession /\ secrets' = secrets \ {session}
<1>1. PairingTypeOK /\ session \in SessionIds /\ session <= drawn /\ drawn \in Nat
  BY Constants DEF ManagerInv, PairingTypeOK
<1>2. NoSession \notin Gone /\ NoSession \in SessionIds \cup {NoSession}
  BY GoneIds, Constants DEF ManagerInv
<1>3. /\ retired' \in Seq([id : SessionIds, why : Reasons])
      /\ endings' \in Seq([id : SessionIds, why : Reasons, late : BOOLEAN])
      /\ secrets' = secrets \ {session} /\ session' = NoSession
      /\ HonestEndings' /\ Remembers'
      /\ Gone' = Gone \cup {session}
      /\ UsedIds' = IF why = "used" THEN UsedIds \cup {session} ELSE UsedIds
  BY <1>2, EndKeeps
<1>4. PairingTypeOK'
  BY <1>1, <1>3, Constants DEF PairingTypeOK
<1>5. OneTimer' /\ expiryTimer' = session' /\ Waiting'
  BY <1>1, <1>3, Constants DEF OneTimer, ManagerInv, Waiting, PairingTypeOK
<1>6. session' <= drawn' /\ \A g \in Gone' : g <= drawn'
  BY <1>1, <1>3, Constants DEF ManagerInv
<1> QED BY <1>3, <1>4, <1>5, <1>6 DEF ManagerInv

LEMMA LookUpKeeps ==
  ASSUME ManagerInv, LookUp
  PROVE  /\ ManagerInv' /\ UsedIds' = UsedIds /\ drawn' = drawn
         /\ \/ UNCHANGED <<session, secrets>> /\ Gone' = Gone
            \/ /\ session' = NoSession /\ secrets' = secrets \ {session}
               /\ Gone' = Gone \cup {session} /\ session # NoSession
<1>1. CASE Overdue
  <2>1. End("expired", NoSession) /\ session # NoSession /\ remaining[session] = 0
        /\ timer' = Cancelled /\ expiryTimer' = NoSession
        /\ UNCHANGED <<drawn, remaining, firing>> /\ "expired" \in Reasons
    BY <1>1 DEF LookUp, Overdue, CancelTimer, Reasons
  <2> QED BY <2>1, LeaveKeeps, CancelledTimers
<1>2. CASE ~Overdue
  <2>1. UNCHANGED managerVars
    BY <1>2 DEF LookUp, managerVars
  <2> QED BY <2>1, SameHistory DEF managerVars, ManagerInv, PairingTypeOK, OneTimer, Waiting
<1> QED BY <1>1, <1>2

LEMMA ConsumeKeeps ==
  ASSUME ManagerInv, NEW s, Consume(s)
  PROVE  /\ ManagerInv' /\ s \in SessionIds/\ drawn' = drawn
         /\ session = s /\ session' = NoSession /\ secrets' = secrets \ {s}
         /\ Gone' = Gone \cup {s} /\ UsedIds' = UsedIds \cup {s}
<1>1. End("used", NoSession) /\ session = s /\ session # NoSession /\ remaining[session] # 0
      /\ timer' = Cancelled /\ expiryTimer' = NoSession
      /\ UNCHANGED <<drawn, remaining, firing>> /\ "used" \in Reasons
  BY Constants DEF Consume, Active, CancelTimer, Reasons
<1> QED BY <1>1, LeaveKeeps, CancelledTimers DEF ManagerInv, PairingTypeOK

LEMMA TimerKeeps ==
  ASSUME ManagerInv, NEW s \in SessionIds, TimerGoesOff(s) \/ TimerCallback(s)
  PROVE  /\ ManagerInv' /\ UsedIds' = UsedIds /\ drawn' = drawn
         /\ \/ UNCHANGED <<session, secrets>> /\ Gone' = Gone
            \/ /\ session' = NoSession /\ secrets' = secrets \ {session}
               /\ Gone' = Gone \cup {session} /\ session # NoSession
<1>1. CASE TimerGoesOff(s)
  <2>1. timer' = [timer EXCEPT ![s] = Never] /\ firing' = firing \cup {s}
        /\ UNCHANGED <<drawn, remaining, secrets, session, retired, expiryTimer, endings>>
    BY <1>1 DEF TimerGoesOff
  <2>2. PairingTypeOK'
    BY <2>1, Constants DEF ManagerInv, PairingTypeOK
  <2>3. OneTimer'
    BY <2>1, Constants DEF ManagerInv, OneTimer, PairingTypeOK
  <2>4. timer[s] # Never /\ s = session
    BY <1>1, Constants DEF TimerGoesOff, ManagerInv, OneTimer
  <2>5. Waiting'
    BY <2>1, <2>4, SameHistory DEF ManagerInv, Waiting, PairingTypeOK
  <2> QED BY <2>1, <2>2, <2>3, <2>5, SameHistory DEF ManagerInv
<1>2. CASE TimerCallback(s)
  <2>1. firing' = firing \ {s} /\ UNCHANGED <<drawn, remaining>>
    BY <1>2 DEF TimerCallback
  <2>2. CASE session # s
    <3>1. UNCHANGED <<secrets, session, retired, timer, expiryTimer, endings>>
      BY <1>2, <2>2 DEF TimerCallback
    <3>2. PairingTypeOK' /\ OneTimer'
      BY <2>1, <2>2, <3>1 DEF ManagerInv, PairingTypeOK, OneTimer
    <3> QED BY <2>1, <3>1, <3>2, SameHistory DEF ManagerInv, Waiting
  <2>3. CASE session = s /\ remaining[s] > 0
    <3>1. timer' = [timer EXCEPT ![s] = Ttl] /\ expiryTimer' = s
          /\ UNCHANGED <<secrets, session, retired, endings>>
      BY <1>2, <2>3 DEF TimerCallback, Schedule
    <3>2. PairingTypeOK'
      BY <2>1, <2>3, <3>1, Constants DEF ManagerInv, PairingTypeOK
    <3>3. timer'[s] = Ttl /\ Ttl # Never /\ \A d \in SessionIds \ {s} : timer'[d] = timer[d]
      BY <3>1, Constants DEF ManagerInv, PairingTypeOK
    <3>4. OneTimer'
      BY <2>3, <3>1, <3>3 DEF ManagerInv, OneTimer
    <3>5. Waiting'
      BY <2>1, <2>3, <3>1, SameHistory DEF ManagerInv, Waiting, PairingTypeOK
    <3> QED BY <2>1, <2>3, <3>1, <3>2, <3>4, <3>5, SameHistory DEF ManagerInv
  <2>4. CASE session = s /\ remaining[s] = 0
    <3>1. End("expired", NoSession) /\ expiryTimer' = NoSession /\ UNCHANGED timer
          /\ "expired" \in Reasons /\ session # NoSession
      BY <1>2, <2>4, Constants DEF TimerCallback, Reasons
    <3>2. \A t \in SessionIds : timer'[t] = Never
      BY <1>2, <2>4, <3>1 DEF TimerCallback, ManagerInv, Waiting, OneTimer
    <3> QED BY <2>1, <2>4, <3>1, <3>2, LeaveKeeps DEF ManagerInv, PairingTypeOK
  <2>5. remaining[s] \in Nat
    BY Constants DEF ManagerInv, PairingTypeOK
  <2> QED BY <2>2, <2>3, <2>4, <2>5
<1> QED BY <1>1, <1>2

LEMMA DeadlinesKeep ==
  ASSUME ManagerInv, DeadlinesNear
  PROVE  /\ ManagerInv' /\ UsedIds' = UsedIds /\ drawn' = drawn
         /\ UNCHANGED <<session, secrets>> /\ Gone' = Gone
<1>1. /\ remaining' = [s \in SessionIds |-> Less(remaining[s])]
      /\ timer' = [s \in SessionIds |-> Less(timer[s])]
      /\ UNCHANGED <<drawn, secrets, session, retired, expiryTimer, firing, endings>>
  BY DEF DeadlinesNear
<1>2. \A s \in SessionIds : /\ Less(remaining[s]) \in 0..Ttl
                            /\ Less(timer[s]) \in 0..Ttl \cup {Never}
                            /\ Less(timer[s]) = Never <=> timer[s] = Never
  BY Constants DEF Less, ManagerInv, PairingTypeOK
<1>3. PairingTypeOK'
  BY <1>1, <1>2 DEF ManagerInv, PairingTypeOK
<1>4. OneTimer' /\ Waiting'
  BY <1>1, <1>2, SameHistory, Constants DEF ManagerInv, OneTimer, Waiting, PairingTypeOK
<1> QED BY <1>1, <1>3, <1>4, SameHistory DEF ManagerInv

-----------------------------------------------------------------------------
(* What the requests hold.                                                 *)

Installer(c) == calls[c].step = "install"
Claimer(c)   == calls[c].step = "issue" /\ calls[c].kind = "claim"

CallsInv ==
  /\ SecretsHeld
  /\ \A c \in Calls : Installer(c) =>
       /\ calls[c].session \in SessionIds /\ calls[c].session <= drawn
       /\ calls[c].session \notin Gone /\ calls[c].session # session
  /\ \A c, d \in Calls : Installer(c) /\ Installer(d) /\ c # d =>
       calls[c].session # calls[d].session
  /\ \A c \in Calls : Claimer(c) =>
       /\ calls[c].session \in UsedIds
       /\ \A t \in tokens : t.session # calls[c].session
  /\ \A c, d \in Calls : Claimer(c) /\ Claimer(d) /\ c # d =>
       calls[c].session # calls[d].session
  /\ \A t \in tokens : t.session \in UsedIds
  /\ \A t, u \in tokens : t.session = u.session => t = u

(* A token is issued for a claim or a static code. *)
IssuesAreClaims == \A c \in Calls : calls[c].step = "issue" => calls[c].kind \in {"claim", "code"}

IInv == RoutesTypeOK /\ ManagerInv /\ CallsInv /\ IssuesAreClaims

LEMMA Records ==
  ASSUME RoutesTypeOK, NEW c \in Calls
  PROVE  /\ calls[c] \in CallRecords
         /\ Idle \in CallRecords
         /\ \A kind \in Kinds, step \in Steps, o \in Origins :
              Started(kind, step, o) \in CallRecords
         /\ MaxLag \in Nat
<1>1. MaxLag \in Nat /\ 0 \in 0..MaxLag
  BY RateAssumption
<1>2. (CHOOSE o \in Origins : TRUE) \in Origins /\ (CHOOSE d \in Clients : TRUE) \in Clients
  BY RoutesAssumption
<1>3. Idle \in CallRecords
  BY <1>1, <1>2 DEF Idle, CallRecords, Kinds, Steps, NoSession
<1>4. ASSUME NEW kind \in Kinds, NEW step \in Steps, NEW o \in Origins
      PROVE  Started(kind, step, o) \in CallRecords
  BY <1>3, <1>4 DEF Started, CallRecords
<1> QED BY <1>1, <1>3, <1>4 DEF RoutesTypeOK

(* The manager may have lost its session. *)
Leaves == \/ UNCHANGED <<session, secrets>> /\ Gone' = Gone
          \/ /\ session' = NoSession /\ secrets' = secrets \ {session}
             /\ Gone' = Gone \cup {session} /\ session # NoSession

(* A step that neither starts nor ends an installation, and starts no      *)
(* issue of a token for a session.                                         *)
LEMMA QuietStep ==
  ASSUME IInv, ManagerInv', UsedIds' = UsedIds, drawn' = drawn, tokens' = tokens, Leaves,
         \A x \in Calls :
           /\ calls'[x].step = "install" <=> calls[x].step = "install"
           /\ calls'[x].step = "install" => calls'[x].session = calls[x].session
           /\ calls'[x].step = "issue" /\ calls'[x].kind = "claim"
                => Claimer(x) /\ calls'[x].session = calls[x].session
  PROVE  CallsInv'
<1>1. Installing' = Installing
  <2>1. ASSUME NEW s \in Installing' PROVE s \in Installing
    BY DEF Installing
  <2>2. ASSUME NEW s \in Installing PROVE s \in Installing'
    BY DEF Installing
  <2> QED BY <2>1, <2>2
<1>2. session \notin Installing
  BY DEF IInv, CallsInv, Installing, Installer
<1>3. SecretsHeld'
  BY <1>1, <1>2 DEF IInv, CallsInv, SecretsHeld, Leaves
<1>4. \A c \in Calls : Installer(c)' =>
       /\ calls'[c].session \in SessionIds /\ calls'[c].session <= drawn'
       /\ calls'[c].session \notin Gone' /\ calls'[c].session # session'
  BY Constants DEF IInv, CallsInv, Installer, Leaves
<1>5. \A c, d \in Calls : Installer(c)' /\ Installer(d)' /\ c # d =>
       calls'[c].session # calls'[d].session
  BY DEF IInv, CallsInv, Installer
<1>6. \A c \in Calls : Claimer(c)' =>
       /\ calls'[c].session \in UsedIds'
       /\ \A t \in tokens' : t.session # calls'[c].session
  BY DEF IInv, CallsInv, Claimer
<1>7. \A c, d \in Calls : Claimer(c)' /\ Claimer(d)' /\ c # d =>
       calls'[c].session # calls'[d].session
  BY DEF IInv, CallsInv, Claimer
<1>8. /\ \A t \in tokens' : t.session \in UsedIds'
      /\ \A t, u \in tokens' : t.session = u.session => t = u
  BY DEF IInv, CallsInv
<1> QED BY <1>3, <1>4, <1>5, <1>6, <1>7, <1>8 DEF CallsInv

-----------------------------------------------------------------------------
(* Every step keeps the invariant, and has one of five effects on what     *)
(* OneTimePairing speaks of.                                               *)

Quiet == UNCHANGED <<session, tokens>> /\ Gone' = Gone /\ UsedIds' = UsedIds

Replaced(s) ==
  /\ s \in SessionIds /\ s \notin Gone /\ s # session /\ session' = s
  /\ Gone' = Gone \cup ({session} \ {NoSession})
  /\ UNCHANGED tokens /\ UsedIds' = UsedIds

Left ==
  /\ session # NoSession /\ session' = NoSession /\ Gone' = Gone \cup {session}
  /\ UNCHANGED tokens /\ (UsedIds' = UsedIds \/ UsedIds' = UsedIds \cup {session})

Gave(t) ==
  /\ t.session \in UsedIds /\ \A u \in tokens : u.session # t.session
  /\ tokens' = tokens \cup {t}
  /\ UNCHANGED session /\ Gone' = Gone /\ UsedIds' = UsedIds

Effect == \/ Quiet \/ Left
          \/ \E s \in SessionIds : Replaced(s)
          \/ \E t \in tokens' : Gave(t)

LEMMA QuietSteps ==
  ASSUME IInv, NEW c \in Calls, UNCHANGED tokens,
         UNCHANGED credentialVars,
         NEW r \in CallRecords, calls' = [calls EXCEPT ![c] = r],
         ~Installer(c), r.step # "install", r.step = "issue" => r.kind = "code",
         UNCHANGED managerVars \/ LookUp
  PROVE  IInv' /\ Effect
<1>1. ManagerInv /\ RoutesTypeOK
  BY DEF IInv
<1>2. ManagerInv' /\ UsedIds' = UsedIds /\ drawn' = drawn /\ Leaves
  <2>1. CASE UNCHANGED managerVars
    BY <2>1, <1>1, SameHistory
       DEF managerVars, ManagerInv, PairingTypeOK, OneTimer, Waiting, Leaves
  <2>2. CASE LookUp
    BY <2>2, <1>1, LookUpKeeps DEF Leaves
  <2> QED BY <2>1, <2>2
<1>3. calls' \in [Calls -> CallRecords]
  BY <1>1 DEF RoutesTypeOK
<1>4. RoutesTypeOK'
  BY <1>1, <1>2, <1>3 DEF RoutesTypeOK, ManagerInv, CredentialTypeOK, credentialVars
<1>5. CallsInv'
  <2>1. \A x \in Calls : calls'[x] = IF x = c THEN r ELSE calls[x]
    BY <1>1 DEF RoutesTypeOK
  <2> QED BY <2>1, <1>2, QuietStep DEF Installer, Claimer
<1>6. Effect
  BY <1>2 DEF Effect, Quiet, Left, Leaves
<1>7. IssuesAreClaims'
  BY <1>1 DEF IInv, IssuesAreClaims, RoutesTypeOK
<1> QED BY <1>2, <1>4, <1>5, <1>6, <1>7 DEF IInv

LEMMA StartStep ==
  ASSUME IInv, NEW c \in Calls, Start(c)
  PROVE  IInv' /\ Effect
<1>1. RoutesTypeOK
  BY DEF IInv
<1>2. PICK o \in Origins :
        \/ \E right \in BOOLEAN : StartCreate(c, o, right)
        \/ \E s \in SessionIds : StartBootstrap(c, o, s)
        \/ \E kind \in {"claim", "code"}, d \in Clients, s \in SessionIds \cup {NoSession},
              right \in BOOLEAN : StartClaim(c, kind, o, d, s, right)
  BY DEF Start
<1>3. ~Installer(c) => calls[c] # Idle \/ calls[c].step = "idle"
  BY DEF Idle
<1>4. calls[c] = Idle => calls[c].step = "idle"
  BY DEF Idle
<1>5. ASSUME NEW right \in BOOLEAN, StartCreate(c, o, right)
      PROVE  IInv' /\ Effect
  <2> DEFINE r == [Started("create", "decide", o) EXCEPT !.right = right]
  <2>1. Started("create", "decide", o) \in CallRecords
    BY <1>1, Records DEF Kinds, Steps
  <2>2. r \in CallRecords /\ r.step = "decide"
    BY <2>1 DEF CallRecords, Started, Idle
  <2>3. calls' = [calls EXCEPT ![c] = r] /\ ~Installer(c)
        /\ UNCHANGED <<managerVars, tokens, credentialVars>>
    BY <1>4, <1>5 DEF StartCreate, Installer
  <2> HIDE DEF r
  <2> QED BY <2>2, <2>3, QuietSteps
<1>6. ASSUME NEW s \in SessionIds, StartBootstrap(c, o, s)
      PROVE  IInv' /\ Effect
  <2> DEFINE r == [Started("bootstrap", "decide", o) EXCEPT !.session = s]
  <2>1. Started("bootstrap", "decide", o) \in CallRecords
    BY <1>1, Records DEF Kinds, Steps
  <2>2. r \in CallRecords /\ r.step = "decide"
    BY <2>1 DEF CallRecords, Started, Idle
  <2>3. calls' = [calls EXCEPT ![c] = r] /\ ~Installer(c)
        /\ UNCHANGED <<managerVars, tokens, credentialVars>>
    BY <1>4, <1>6 DEF StartBootstrap, Installer
  <2> HIDE DEF r
  <2> QED BY <2>2, <2>3, QuietSteps
<1>7. ASSUME NEW kind \in {"claim", "code"}, NEW d \in Clients,
             NEW s \in SessionIds \cup {NoSession}, NEW right \in BOOLEAN,
             StartClaim(c, kind, o, d, s, right)
      PROVE  IInv' /\ Effect
  <2> DEFINE step == IF kind = "claim" THEN "claim" ELSE "issue"
             r == [Started(kind, step, o) EXCEPT !.device = d, !.session = s, !.right = right]
  <2>1. Started(kind, step, o) \in CallRecords
    BY <1>1, Records DEF Kinds, Steps
  <2>2. r \in CallRecords /\ r.step # "install" /\ (r.step = "issue" => r.kind = "code")
    BY <2>1 DEF CallRecords, Started, Idle
  <2>3. ~Installer(c) /\ calls[c] \in CallRecords /\ calls[c].step = "idle"
        /\ UNCHANGED <<managerVars, tokens, credentialVars>>
    BY <1>1, <1>4, <1>7, Records DEF StartClaim, Installer
  <2>4. CASE calls' = [calls EXCEPT ![c] = r]
    <3> HIDE DEF r
    <3> QED BY <2>2, <2>3, <2>4, QuietSteps
  <2>5. CASE UNCHANGED calls
    <3>1. calls' = [calls EXCEPT ![c] = calls[c]]
      BY <1>1, <2>5 DEF RoutesTypeOK
    <3> QED BY <2>3, <3>1, QuietSteps
  <2> QED BY <1>7, <2>4, <2>5 DEF StartClaim
<1> QED BY <1>2, <1>5, <1>6, <1>7

(* The steps that neither install a session nor end a claim. *)
LEMMA PlainStep ==
  ASSUME IInv, NEW c \in Calls,
         \/ DecideCall(c) \/ CreateUnavailable(c)
         \/ BootstrapLooksUp(c) \/ BootstrapFinishes(c)
         \/ ClaimFails(c) \/ ClaimFinishes(c)
         \/ ClaimLooksUp(c) /\ ~(Active(calls[c].session) /\ calls[c].right)
  PROVE  IInv' /\ Effect
<1>1. RoutesTypeOK /\ calls[c] \in CallRecords /\ Idle \in CallRecords /\ Idle.step = "idle"
  BY Records DEF IInv, Idle
<1>2. ~Installer(c) /\ UNCHANGED <<tokens, credentialVars>> /\ (UNCHANGED managerVars \/ LookUp)
  BY DEF DecideCall, CreateUnavailable, BootstrapLooksUp, BootstrapFinishes, ClaimFails,
         ClaimFinishes, ClaimLooksUp, At, Installer
<1>3. CASE calls' = [calls EXCEPT ![c] = Idle]
  BY <1>1, <1>2, <1>3, QuietSteps
<1>4. CASE calls' = [calls EXCEPT ![c].step = "finish"]
  <2> DEFINE r == [calls[c] EXCEPT !.step = "finish"]
  <2>1. r \in CallRecords /\ r.step = "finish" /\ calls' = [calls EXCEPT ![c] = r]
    BY <1>1, <1>4 DEF CallRecords, Steps
  <2> HIDE DEF r
  <2> QED BY <1>2, <2>1, QuietSteps
<1>5. CASE calls' = [calls EXCEPT ![c].step = "work", ![c].lag = 0]
  <2> DEFINE r == [calls[c] EXCEPT !.step = "work", !.lag = 0]
  <2>1. 0 \in 0..MaxLag
    BY <1>1, Records
  <2>2. r \in CallRecords /\ r.step = "work"
    BY <1>1, <2>1 DEF CallRecords, Steps
  <2>3. calls' = [calls EXCEPT ![c] = r]
    BY <1>1, <1>5 DEF RoutesTypeOK
  <2> HIDE DEF r
  <2> QED BY <1>2, <2>2, <2>3, QuietSteps
<1> QED BY <1>3, <1>4, <1>5
        DEF DecideCall, CreateUnavailable, BootstrapLooksUp, BootstrapFinishes, ClaimFails,
            ClaimFinishes, ClaimLooksUp, Answer, Go

LEMMA DrawStep ==
  ASSUME IInv, NEW c \in Calls, CreateDraws(c)
  PROVE  IInv' /\ Effect
<1> DEFINE r == [calls[c] EXCEPT !.step = "install", !.session = drawn + 1]
<1>1. RoutesTypeOK /\ calls[c] \in CallRecords /\ ManagerInv /\ CallsInv
  BY Records DEF IInv
<1>2. Draw /\ UNCHANGED <<credentialVars, tokens>> /\ calls[c].step = "work"
      /\ calls' = [calls EXCEPT ![c].step = "install", ![c].session = drawn + 1]
  BY DEF CreateDraws, At
<1>3. /\ ManagerInv' /\ Gone' = Gone /\ UsedIds' = UsedIds
      /\ drawn + 1 \in SessionIds /\ drawn + 1 \notin Gone /\ drawn + 1 # session
      /\ drawn' = drawn + 1 /\ session' = session
      /\ secrets' = secrets \cup {drawn + 1}
  BY <1>1, <1>2, DrawKeeps
<1>4. r \in CallRecords /\ r.step = "install" /\ r.session = drawn + 1
      /\ calls' = [calls EXCEPT ![c] = r]
  BY <1>1, <1>2, <1>3 DEF CallRecords, Steps, RoutesTypeOK
<1> HIDE DEF r
<1>5. \A x \in Calls : calls'[x] = IF x = c THEN r ELSE calls[x]
  BY <1>1, <1>4 DEF RoutesTypeOK
<1>6. RoutesTypeOK'
  BY <1>1, <1>2, <1>3, <1>4 DEF RoutesTypeOK, ManagerInv, CredentialTypeOK, credentialVars
<1>7. Installing' = Installing \cup {drawn + 1}
  <2>1. ASSUME NEW s \in Installing' PROVE s \in Installing \cup {drawn + 1}
    BY <1>4, <1>5 DEF Installing
  <2>2. ASSUME NEW s \in Installing PROVE s \in Installing'
    BY <1>2, <1>5 DEF Installing
  <2>3. drawn + 1 \in Installing'
    BY <1>4, <1>5 DEF Installing
  <2> QED BY <2>1, <2>2, <2>3
<1>8. SecretsHeld'
  BY <1>1, <1>3, <1>7 DEF CallsInv, SecretsHeld
<1>9. drawn \in Nat /\ \A x \in Calls : Installer(x) => calls[x].session \in Int /\ calls[x].session <= drawn
  BY <1>1, Constants DEF ManagerInv, PairingTypeOK, CallsInv
<1>10. CallsInv'
  <2>1. \A x \in Calls : Installer(x)' =>
         /\ calls'[x].session \in SessionIds /\ calls'[x].session <= drawn'
         /\ calls'[x].session \notin Gone' /\ calls'[x].session # session'
    BY <1>1, <1>3, <1>4, <1>5, <1>9 DEF CallsInv, Installer
  <2>2. \A x, y \in Calls : Installer(x)' /\ Installer(y)' /\ x # y =>
         calls'[x].session # calls'[y].session
    BY <1>1, <1>4, <1>5, <1>9 DEF CallsInv, Installer
  <2>3. \A x \in Calls : Claimer(x)' => Claimer(x) /\ calls'[x] = calls[x]
    BY <1>4, <1>5 DEF Claimer
  <2>4. \A x \in Calls : Claimer(x)' =>
          /\ calls'[x].session \in UsedIds'
          /\ \A t \in tokens' : t.session # calls'[x].session
    <3>1. \A x \in Calls : Claimer(x) =>
            calls[x].session \in UsedIds /\ \A t \in tokens : t.session # calls[x].session
      BY <1>1 DEF CallsInv
    <3>2. tokens' = tokens /\ UsedIds' = UsedIds
      BY <1>2, <1>3
    <3> QED BY <2>3, <3>1, <3>2
  <2>5. \A x, y \in Calls : Claimer(x)' /\ Claimer(y)' /\ x # y =>
          calls'[x].session # calls'[y].session
    BY <1>1, <2>3 DEF CallsInv
  <2>6. /\ \A t \in tokens' : t.session \in UsedIds'
        /\ \A t, u \in tokens' : t.session = u.session => t = u
    BY <1>1, <1>2, <1>3 DEF CallsInv
  <2> QED BY <1>8, <2>1, <2>2, <2>4, <2>5, <2>6 DEF CallsInv
<1>11. Effect
  BY <1>2, <1>3 DEF Effect, Quiet
<1>12. IssuesAreClaims'
  BY <1>4, <1>5 DEF IInv, IssuesAreClaims
<1> QED BY <1>3, <1>6, <1>10, <1>11, <1>12 DEF IInv

LEMMA InstallStep ==
  ASSUME IInv, NEW c \in Calls, CreateInstalls(c)
  PROVE  IInv' /\ Effect
<1> DEFINE s == calls[c].session
<1>1. RoutesTypeOK /\ Idle \in CallRecords /\ ManagerInv /\ CallsInv /\ Idle.step = "idle"
  BY Records DEF IInv, Idle
<1>2. Install(s) /\ UNCHANGED <<credentialVars, tokens>> /\ Installer(c)
      /\ calls' = [calls EXCEPT ![c] = Idle]
  BY DEF CreateInstalls, At, Answer, Installer
<1>3. s \in SessionIds /\ s <= drawn /\ s \notin Gone /\ s # session
  BY <1>1, <1>2 DEF CallsInv
<1>4. /\ ManagerInv' /\ UsedIds' = UsedIds
      /\ Gone' = Gone \cup ({session} \ {NoSession})
      /\ drawn' = drawn /\ session' = s /\ secrets' = secrets \ {session}
  BY <1>1, <1>2, <1>3, InstallKeeps
<1>5. \A x \in Calls : calls'[x] = IF x = c THEN Idle ELSE calls[x]
  BY <1>1, <1>2 DEF RoutesTypeOK
<1>6. RoutesTypeOK'
  BY <1>1, <1>2, <1>4 DEF RoutesTypeOK, ManagerInv, CredentialTypeOK, credentialVars
<1>7. \A x \in Calls : Installer(x)' => Installer(x) /\ calls'[x] = calls[x] /\ x # c
  BY <1>1, <1>5 DEF Installer
<1>8. SecretsHeld'
  <2>1. Installing = {calls[x].session : x \in {y \in Calls : Installer(y)}}
    BY DEF Installing, Installer
  <2>2. Installing' = Installing \ {s}
    <3>1. ASSUME NEW g \in Installing' PROVE g \in Installing \ {s}
      <4>1. PICK x \in Calls : Installer(x)' /\ g = calls'[x].session
        BY DEF Installing, Installer
      <4> QED BY <4>1, <1>1, <1>2, <1>7, <2>1 DEF CallsInv
    <3>2. ASSUME NEW g \in Installing \ {s} PROVE g \in Installing'
      <4>1. PICK x \in Calls : Installer(x) /\ g = calls[x].session
        BY <2>1
      <4>2. x # c /\ calls'[x] = calls[x]
        BY <4>1, <1>5
      <4> QED BY <4>1, <4>2 DEF Installing, Installer
    <3> QED BY <3>1, <3>2
  <2>3. s \in Installing /\ session \notin Installing /\ s # NoSession
    BY <1>1, <1>2, <1>3, <2>1, Constants DEF CallsInv
  <2> QED BY <1>1, <1>4, <2>2, <2>3 DEF CallsInv, SecretsHeld
<1>9. CallsInv'
  <2>1. \A x \in Calls : Installer(x)' =>
         /\ calls'[x].session \in SessionIds /\ calls'[x].session <= drawn'
         /\ calls'[x].session \notin Gone' /\ calls'[x].session # session'
    BY <1>1, <1>2, <1>4, <1>7 DEF CallsInv
  <2>2. \A x, y \in Calls : Installer(x)' /\ Installer(y)' /\ x # y =>
         calls'[x].session # calls'[y].session
    BY <1>1, <1>7 DEF CallsInv
  <2>3. \A x \in Calls : Claimer(x)' => Claimer(x) /\ calls'[x] = calls[x]
    BY <1>1, <1>5 DEF Claimer
  <2> QED BY <1>1, <1>2, <1>4, <1>8, <2>1, <2>2, <2>3 DEF CallsInv
<1>10. Effect
  BY <1>2, <1>3, <1>4 DEF Effect, Replaced
<1>11. IssuesAreClaims'
  BY <1>1, <1>5 DEF IInv, IssuesAreClaims
<1> QED BY <1>4, <1>6, <1>9, <1>10, <1>11 DEF IInv

LEMMA ConsumeStep ==
  ASSUME IInv, NEW c \in Calls, ClaimLooksUp(c), Active(calls[c].session) /\ calls[c].right
  PROVE  IInv' /\ Effect
<1> DEFINE s == calls[c].session
           r == [calls[c] EXCEPT !.step = "issue"]
<1>1. RoutesTypeOK /\ calls[c] \in CallRecords /\ ManagerInv /\ CallsInv
  BY Records DEF IInv
<1>2. Consume(s) /\ UNCHANGED <<credentialVars, tokens>> /\ calls[c].step = "claim"
      /\ calls[c].kind = "claim"
      /\ calls' = [calls EXCEPT ![c].step = "issue"]
  BY DEF ClaimLooksUp, At, Go
<1>3. /\ ManagerInv' /\ s \in SessionIds /\ drawn' = drawn
      /\ session = s /\ session' = NoSession /\ secrets' = secrets \ {s}
      /\ Gone' = Gone \cup {s} /\ UsedIds' = UsedIds \cup {s} /\ s # NoSession
  BY <1>1, <1>2, ConsumeKeeps, Constants
<1>4. r \in CallRecords /\ r.step = "issue" /\ r.session = s /\ r.kind = "claim"
      /\ calls' = [calls EXCEPT ![c] = r]
  BY <1>1, <1>2 DEF CallRecords, Steps, RoutesTypeOK
<1> HIDE DEF r
<1>5. \A x \in Calls : calls'[x] = IF x = c THEN r ELSE calls[x]
  BY <1>1, <1>4 DEF RoutesTypeOK
<1>6. RoutesTypeOK'
  BY <1>1, <1>2, <1>3, <1>4 DEF RoutesTypeOK, ManagerInv, CredentialTypeOK, credentialVars
<1>7. \A x \in Calls : Installer(x)' <=> Installer(x)
  BY <1>2, <1>4, <1>5 DEF Installer
<1>8. \A x \in Calls : Installer(x)' => x # c /\ calls'[x] = calls[x]
  BY <1>4, <1>5 DEF Installer
<1>9. s \notin UsedIds /\ s \notin Gone
  BY <1>1, <1>3, UsedIdsEnded DEF ManagerInv, HonestEndings, Gone
<1>10. SecretsHeld'
  <2>1. Installing' = Installing
    <3>1. ASSUME NEW g \in Installing' PROVE g \in Installing
      BY <1>7, <1>8 DEF Installing, Installer
    <3>2. ASSUME NEW g \in Installing PROVE g \in Installing'
      BY <1>7, <1>8 DEF Installing, Installer
    <3> QED BY <3>1, <3>2
  <2>2. s \notin Installing
    BY <1>1, <1>3 DEF CallsInv, Installing, Installer
  <2> QED BY <1>1, <1>3, <2>1, <2>2 DEF CallsInv, SecretsHeld
<1>11. CallsInv'
  <2>1. \A x \in Calls : Installer(x)' =>
         /\ calls'[x].session \in SessionIds /\ calls'[x].session <= drawn'
         /\ calls'[x].session \notin Gone' /\ calls'[x].session # session'
    BY <1>1, <1>3, <1>7, <1>8, Constants DEF CallsInv
  <2>2. \A x, y \in Calls : Installer(x)' /\ Installer(y)' /\ x # y =>
         calls'[x].session # calls'[y].session
    BY <1>1, <1>7, <1>8 DEF CallsInv
  <2>3. \A x \in Calls : Claimer(x)' =>
          \/ x = c /\ calls'[x].session = s
          \/ x # c /\ Claimer(x) /\ calls'[x] = calls[x]
    BY <1>4, <1>5 DEF Claimer
  <2>4. \A x \in Calls : Claimer(x) => calls[x].session # s
    BY <1>1, <1>9 DEF CallsInv
  <2>5. \A t \in tokens : t.session # s
    BY <1>1, <1>9 DEF CallsInv
  <2>6. \A x \in Calls : Claimer(x)' =>
         /\ calls'[x].session \in UsedIds'
         /\ \A t \in tokens' : t.session # calls'[x].session
    BY <1>1, <1>2, <1>3, <2>3, <2>5 DEF CallsInv
  <2>7. \A x, y \in Calls : Claimer(x)' /\ Claimer(y)' /\ x # y =>
         calls'[x].session # calls'[y].session
    BY <1>1, <2>3, <2>4 DEF CallsInv
  <2> QED BY <1>1, <1>2, <1>3, <1>10, <2>1, <2>2, <2>6, <2>7 DEF CallsInv
<1>12. Effect
  BY <1>2, <1>3 DEF Effect, Left
<1>13. IssuesAreClaims'
  BY <1>4, <1>5 DEF IInv, IssuesAreClaims
<1> QED BY <1>3, <1>6, <1>11, <1>12, <1>13 DEF IInv

LEMMA IssueStep ==
  ASSUME IInv, NEW c \in Calls, ClaimIssues(c)
  PROVE  IInv' /\ Effect
<1> DEFINE call == calls[c]
           t == [session |-> call.session, device |-> call.device,
                 generation |-> generation[call.device] + 1]
           r == [calls[c] EXCEPT !.step = "finish"]
<1>1. RoutesTypeOK /\ calls[c] \in CallRecords /\ ManagerInv /\ CallsInv
  BY Records DEF IInv
<1>2. /\ IssueToken(call.device) /\ call.step = "issue" /\ UNCHANGED managerVars
      /\ tokens' = IF call.kind = "code" THEN tokens ELSE tokens \cup {t}
      /\ calls' = [calls EXCEPT ![c].step = "finish"]
  BY DEF ClaimIssues, Go
<1>3. ManagerInv' /\ UsedIds' = UsedIds /\ Gone' = Gone
      /\ UNCHANGED <<drawn, session, secrets>>
  BY <1>1, <1>2, SameHistory DEF managerVars, ManagerInv, PairingTypeOK, OneTimer, Waiting
<1>4. r \in CallRecords /\ r.step = "finish" /\ calls' = [calls EXCEPT ![c] = r]
  BY <1>1, <1>2 DEF CallRecords, Steps, RoutesTypeOK
<1>5. CredentialTypeOK' /\ generation[call.device] + 1 \in Nat
      /\ call.device \in Clients /\ call.session \in SessionIds \cup {NoSession}
  <2>1. call.device \in Clients /\ call.session \in SessionIds \cup {NoSession}
    BY <1>1 DEF CallRecords
  <2> QED BY <2>1, <1>1, <1>2, CredentialAssumption DEF RoutesTypeOK, CredentialTypeOK, IssueToken
<1> HIDE DEF r
<1>6. \A x \in Calls : calls'[x] = IF x = c THEN r ELSE calls[x]
  BY <1>1, <1>4 DEF RoutesTypeOK
<1>7. RoutesTypeOK'
  <2>1. t \in [session : SessionIds \cup {NoSession}, device : Clients, generation : Nat]
    BY <1>5
  <2> HIDE DEF t
  <2>2. calls' \in [Calls -> CallRecords] /\ PairingTypeOK'
    BY <1>1, <1>3, <1>4 DEF RoutesTypeOK, ManagerInv
  <2> QED BY <1>1, <1>2, <1>5, <2>1, <2>2 DEF RoutesTypeOK
<1>8. \A x \in Calls : /\ Installer(x)' <=> Installer(x)
                       /\ Installer(x)' => calls'[x] = calls[x]
                       /\ Claimer(x)' => x # c /\ Claimer(x) /\ calls'[x] = calls[x]
  BY <1>2, <1>4, <1>6 DEF Installer, Claimer
<1>9. SecretsHeld'
  <2>1. Installing' = Installing
    <3>1. ASSUME NEW g \in Installing' PROVE g \in Installing
      BY <1>8 DEF Installing, Installer
    <3>2. ASSUME NEW g \in Installing PROVE g \in Installing'
      BY <1>8 DEF Installing, Installer
    <3> QED BY <3>1, <3>2
  <2> QED BY <1>1, <1>3, <2>1 DEF CallsInv, SecretsHeld
<1>10. /\ \A x \in Calls : Installer(x)' =>
            /\ calls'[x].session \in SessionIds /\ calls'[x].session <= drawn'
            /\ calls'[x].session \notin Gone' /\ calls'[x].session # session'
       /\ \A x, y \in Calls : Installer(x)' /\ Installer(y)' /\ x # y =>
            calls'[x].session # calls'[y].session
       /\ \A x, y \in Calls : Claimer(x)' /\ Claimer(y)' /\ x # y =>
            calls'[x].session # calls'[y].session
  BY <1>1, <1>3, <1>8 DEF CallsInv
<1>a. IssuesAreClaims'
  BY <1>4, <1>6 DEF IInv, IssuesAreClaims
<1>11. CASE call.kind = "code"
  <2>1. tokens' = tokens
    BY <1>2, <1>11
  <2>2. CallsInv'
    BY <1>1, <1>3, <1>8, <1>9, <1>10, <2>1 DEF CallsInv
  <2> QED BY <1>3, <1>7, <1>a, <2>1, <2>2 DEF IInv, Effect, Quiet
<1>12. CASE call.kind # "code"
  <2>1. Claimer(c)
    BY <1>1, <1>2, <1>12 DEF Claimer, IInv, IssuesAreClaims
  <2>2. t.session = call.session /\ tokens' = tokens \cup {t}
        /\ call.session \in UsedIds /\ \A u \in tokens : u.session # call.session
    BY <1>1, <1>2, <1>12, <2>1 DEF CallsInv
  <2> HIDE DEF t
  <2>3. \A x \in Calls : Claimer(x)' =>
         /\ calls'[x].session \in UsedIds'
         /\ \A u \in tokens' : u.session # calls'[x].session
    BY <1>1, <1>3, <1>8, <2>1, <2>2 DEF CallsInv
  <2>4. /\ \A u \in tokens' : u.session \in UsedIds'
        /\ \A u, v \in tokens' : u.session = v.session => u = v
    BY <1>1, <1>3, <2>2 DEF CallsInv
  <2>5. CallsInv'
    BY <1>9, <1>10, <2>3, <2>4 DEF CallsInv
  <2>6. Effect
    BY <1>3, <2>2 DEF Effect, Gave
  <2> QED BY <1>3, <1>7, <1>a, <2>5, <2>6 DEF IInv
<1> QED BY <1>11, <1>12

LEMMA TimeStep ==
  ASSUME IInv, Tick \/ \E s \in SessionIds : Timer(s)
  PROVE  IInv' /\ Effect
<1>1. RoutesTypeOK /\ ManagerInv /\ CallsInv /\ MaxLag \in Nat
  BY RateAssumption DEF IInv
<1>2. UNCHANGED <<credentialVars, tokens>>
  BY DEF Tick, Timer
<1>3. ManagerInv' /\ UsedIds' = UsedIds /\ drawn' = drawn /\ Leaves
  <2>1. CASE Tick
    BY <1>1, <2>1, DeadlinesKeep DEF Tick, Leaves
  <2>2. CASE \E s \in SessionIds : Timer(s)
    BY <1>1, <2>2, TimerKeeps DEF Timer, Leaves
  <2> QED BY <2>1, <2>2
<1>4. /\ calls' \in [Calls -> CallRecords]
      /\ \A x \in Calls : /\ calls'[x].step = calls[x].step /\ calls'[x].kind = calls[x].kind
                          /\ calls'[x].session = calls[x].session
  <2>1. CASE UNCHANGED calls
    BY <1>1, <2>1 DEF RoutesTypeOK
  <2>2. CASE Tick
    <3>1. calls' = [c \in Calls |-> IF Waits(c) THEN [calls[c] EXCEPT !.lag = @ + 1]
                                    ELSE calls[c]]
          /\ \A c \in Calls : Waits(c) => calls[c].lag < MaxLag
      BY <2>2 DEF Tick
    <3>2. \A c \in Calls : calls[c] \in CallRecords
      BY <1>1 DEF RoutesTypeOK
    <3>3. ASSUME NEW c \in Calls, Waits(c)
          PROVE  /\ [calls[c] EXCEPT !.lag = @ + 1] \in CallRecords
      BY <1>1, <3>1, <3>2, <3>3 DEF CallRecords
    <3> QED BY <3>1, <3>2, <3>3 DEF CallRecords
  <2> QED BY <2>1, <2>2 DEF Timer
<1>5. RoutesTypeOK'
  BY <1>1, <1>2, <1>3, <1>4 DEF RoutesTypeOK, ManagerInv, CredentialTypeOK, credentialVars
<1>6. CallsInv'
  BY <1>2, <1>3, <1>4, QuietStep DEF Claimer
<1>7. Effect
  BY <1>2, <1>3 DEF Effect, Quiet, Left, Leaves
<1>8. IssuesAreClaims'
  BY <1>4 DEF IInv, IssuesAreClaims
<1> QED BY <1>3, <1>5, <1>6, <1>7, <1>8 DEF IInv

LEMMA InvariantStarts == Init => IInv
<1> SUFFICES ASSUME Init PROVE IInv
  OBVIOUS
<1>1. ManagerInv /\ Gone = {} /\ UsedIds = {}
  BY ManagerStarts DEF Init
<1>2. \A c \in Calls : calls[c] = Idle /\ calls[c].step = "idle"
  BY DEF Init, Idle
<1>3. Idle \in CallRecords
  <2>1. MaxLag \in Nat /\ 0 \in 0..MaxLag
    BY RateAssumption
  <2>2. (CHOOSE o \in Origins : TRUE) \in Origins /\ (CHOOSE d \in Clients : TRUE) \in Clients
    BY RoutesAssumption
  <2> QED BY <2>1, <2>2 DEF Idle, CallRecords, Kinds, Steps, NoSession
<1>4. RoutesTypeOK
  BY <1>1, <1>3, CredentialAssumption DEF Init, RoutesTypeOK, ManagerInv, CredentialTypeOK
<1>5. Installing = {}
  BY <1>2 DEF Installing
<1>6. SecretsHeld
  BY <1>5, Constants DEF SecretsHeld, Init, ManagerInit
<1>7. CallsInv /\ IssuesAreClaims
  BY <1>2, <1>6 DEF CallsInv, Installer, Claimer, IssuesAreClaims, Init
<1> QED BY <1>1, <1>4, <1>7 DEF IInv

LEMMA InvariantKept == IInv /\ [Next]_vars => IInv' /\ Effect
<1> SUFFICES ASSUME IInv, [Next]_vars PROVE IInv' /\ Effect
  OBVIOUS
<1>1. ASSUME NEW c \in Calls, Start(c) PROVE IInv' /\ Effect
  BY <1>1, StartStep
<1>2. ASSUME NEW c \in Calls, Step(c) PROVE IInv' /\ Effect
  <2>1. CASE CreateDraws(c)
    BY <2>1, DrawStep
  <2>2. CASE CreateInstalls(c)
    BY <2>2, InstallStep
  <2>3. CASE ClaimLooksUp(c) /\ Active(calls[c].session) /\ calls[c].right
    BY <2>3, ConsumeStep
  <2>4. CASE ClaimIssues(c)
    BY <2>4, IssueStep
  <2> QED BY <1>2, <2>1, <2>2, <2>3, <2>4, PlainStep DEF Step
<1>3. CASE Tick \/ \E s \in SessionIds : Timer(s)
  BY <1>3, TimeStep
<1>4. CASE UNCHANGED vars
  <2>1. UNCHANGED <<managerVars, limiterVars, credentialVars, calls, tokens>>
    BY <1>4 DEF vars
  <2>2. ManagerInv' /\ UsedIds' = UsedIds /\ Gone' = Gone
    BY <2>1, SameHistory
       DEF IInv, managerVars, ManagerInv, PairingTypeOK, OneTimer, Waiting
  <2>3. RoutesTypeOK' /\ IssuesAreClaims'
    BY <2>1, <2>2 DEF IInv, RoutesTypeOK, ManagerInv, CredentialTypeOK, credentialVars,
                      IssuesAreClaims
  <2>4. CallsInv'
    BY <2>1, <2>2, QuietStep DEF IInv, managerVars, Leaves, Claimer
  <2> QED BY <2>1, <2>2, <2>3, <2>4 DEF IInv, Effect, Quiet, managerVars
<1> QED BY <1>1, <1>2, <1>3, <1>4 DEF Next

LEMMA Invariance == Spec => []IInv
<1>1. IInv /\ [Next]_vars => IInv'
  BY InvariantKept
<1> QED BY <1>1, InvariantStarts, PTL DEF Spec

-----------------------------------------------------------------------------
(* The requests, the manager and the credentials keep their types, whatever *)
(* the number of requests, sessions and devices.                           *)
THEOREM RoutesTypeCorrect == Spec => []RoutesTypeOK
<1>1. IInv => RoutesTypeOK
  BY DEF IInv
<1> QED BY <1>1, Invariance, PTL

(* Every session ends once, and its end is told truthfully: whichever of   *)
(* requests, timers and late timers takes the lock first.                  *)
THEOREM EndingsAreHonest == Spec => []HonestEndings
<1>1. IInv => HonestEndings
  BY DEF IInv, ManagerInv
<1> QED BY <1>1, Invariance, PTL

(* Secrets are in memory for the session that can be claimed and those     *)
(* about to be installed, and for no other.                                *)
THEOREM SecretsAreHeld == Spec => []SecretsHeld
<1>1. IInv => SecretsHeld
  BY DEF IInv, CallsInv
<1> QED BY <1>1, Invariance, PTL

(* The session in memory has a timer, and no other session has one that    *)
(* runs.                                                                   *)
THEOREM ExactlyOneTimer == Spec => []OneTimer
<1>1. IInv => OneTimer
  BY DEF IInv, ManagerInv
<1> QED BY <1>1, Invariance, PTL

(* Of a session that was used, at most one token was issued, whatever the  *)
(* number of claims under way.                                             *)
THEOREM OneTokenIsIssued == Spec => []OneTokenPerSession
<1>1. IInv => OneTokenPerSession
  BY UsedIdsEnded DEF IInv, CallsInv, OneTokenPerSession
<1> QED BY <1>1, Invariance, PTL

(* A repeated claim of one of the last RetiredLimit sessions is told that  *)
(* it was used.                                                            *)
THEOREM UsedSessionsAreRemembered == Spec => []UsedIsRemembered
<1>1. IInv => UsedIsRemembered
  <2> SUFFICES ASSUME IInv, NEW i \in DOMAIN endings,
                      endings[i].why = "used", i > Len(endings) - RetiredLimit
               PROVE  Refusal(endings[i].id) = "used"
    BY DEF UsedIsRemembered
  <2> DEFINE m == Len(retired)
             n == Len(endings)
             k == i - (n - m)
  <2>1. /\ m \in Nat /\ n \in Nat /\ i \in 1..n /\ RetiredLimit \in Nat \ {0}
        /\ DOMAIN retired = 1..m
    BY Constants DEF IInv, ManagerInv, PairingTypeOK
  <2>2. /\ m = IF n < RetiredLimit THEN n ELSE RetiredLimit
        /\ \A j \in 1..m : retired[j] = [id |-> endings[n - m + j].id,
                                         why |-> endings[n - m + j].why]
    BY DEF IInv, ManagerInv, Remembers
  <2>3. k \in 1..m /\ n - m + k = i
    <3>1. i > n - RetiredLimit
      OBVIOUS
    <3>2. m = IF n < RetiredLimit THEN n ELSE RetiredLimit
      BY <2>2
    <3> HIDE DEF m, n
    <3> QED BY <2>1, <3>1, <3>2
  <2>4. retired[k] = [id |-> endings[i].id, why |-> "used"]
    BY <2>2, <2>3
  <2> QED BY <2>1, <2>3, <2>4 DEF Refusal
<1> QED BY <1>1, Invariance, PTL

-----------------------------------------------------------------------------
(* One-time pairing.                                                       *)

LEMMA Stages ==
  /\ \A s \in SessionIds :
       Stage(s) = IF session = s THEN "offered" ELSE IF s \in UsedIds THEN "used"
                  ELSE IF s \in Gone THEN "over" ELSE "fresh"
  /\ \A s \in SessionIds :
       Stage(s)' = IF session' = s THEN "offered" ELSE IF s \in UsedIds' THEN "used"
                   ELSE IF s \in Gone' THEN "over" ELSE "fresh"
<1>1. \A s \in SessionIds : Ended(s, "used") <=> s \in UsedIds
  BY UsedIdsEnded
<1>2. \A s \in SessionIds : Ended(s, "used")' <=> s \in UsedIds'
  BY DEF Ended, UsedIds
<1>3. \A s \in SessionIds : (\E i \in DOMAIN endings : endings[i].id = s) <=> s \in Gone
  BY DEF Gone
<1>4. \A s \in SessionIds : (\E i \in DOMAIN endings' : endings'[i].id = s) <=> s \in Gone'
  BY DEF Gone
<1> QED BY <1>1, <1>2, <1>3, <1>4 DEF Stage

LEMMA PromiseStarts == Init => Promise!Init
<1> SUFFICES ASSUME Init PROVE Promise!Init
  OBVIOUS
<1>1. UsedIds = {} /\ Gone = {} /\ session = NoSession
  BY ManagerStarts DEF Init, ManagerInit
<1>2. \A s \in SessionIds : Stage(s) = "fresh"
  BY <1>1, Stages, Constants
<1>3. [s \in SessionIds |-> Stage(s)] = [p \in SessionIds |-> "fresh"]
  BY <1>2
<1> QED BY <1>3 DEF Init, Promise!Init

LEMMA PromiseStep ==
  ASSUME IInv, IInv', Effect
  PROVE  Promise!Next \/ UNCHANGED <<[s \in SessionIds |-> Stage(s)], tokens>>
<1> DEFINE stage == [s \in SessionIds |-> Stage(s)]
           after == [s \in SessionIds |-> Stage(s)']
<1>1. /\ UsedIds \subseteq Gone /\ session \notin Gone
      /\ session \in SessionIds \cup {NoSession}
  BY UsedIdsEnded DEF IInv, ManagerInv, HonestEndings, PairingTypeOK, Gone
<1>2. CASE Quiet
  <2>1. \A s \in SessionIds : Stage(s)' = Stage(s)
    BY <1>2, Stages DEF Quiet
  <2> QED BY <1>2, <2>1 DEF Quiet
<1>3. CASE Left
  <2>1. session \in SessionIds /\ Stage(session) = "offered"
    BY <1>1, <1>3, Stages DEF Left
  <2>2. ASSUME NEW end \in {"used", "over"},
               UsedIds' = IF end = "used" THEN UsedIds \cup {session} ELSE UsedIds
        PROVE  after = [stage EXCEPT ![session] = end]
    BY <1>1, <1>3, <2>1, <2>2, Stages, Constants DEF Left
  <2>3. \/ after = [stage EXCEPT ![session] = "used"]
        \/ after = [stage EXCEPT ![session] = "over"]
    BY <1>3, <2>2 DEF Left
  <2> QED BY <1>3, <2>1, <2>3 DEF Left, Promise!Next, Promise!Leave
<1>4. ASSUME NEW s \in SessionIds, Replaced(s)
      PROVE  Promise!Next
  <2>1. Stage(s) = "fresh"
    BY <1>1, <1>4, Stages DEF Replaced
  <2>2. after = [q \in SessionIds |-> IF q = s THEN "offered"
                                      ELSE IF stage[q] = "offered" THEN "over" ELSE stage[q]]
    <3> SUFFICES ASSUME NEW q \in SessionIds
                 PROVE  Stage(q)' = IF q = s THEN "offered"
                                    ELSE IF Stage(q) = "offered" THEN "over" ELSE Stage(q)
      OBVIOUS
    <3> QED BY <1>1, <1>4, Stages, Constants DEF Replaced
  <2>3. Promise!Offer(s)
    BY <1>4, <2>1, <2>2 DEF Replaced, Promise!Offer
  <2> QED BY <2>3 DEF Promise!Next
<1>5. ASSUME NEW t \in tokens', Gave(t)
      PROVE  Promise!Next
  <2>1. t.session \in SessionIds /\ Stage(t.session) = "used"
    BY <1>1, <1>5, GoneIds, Stages DEF Gave, IInv, ManagerInv
  <2>2. \A s \in SessionIds : Stage(s)' = Stage(s)
    BY <1>5, Stages DEF Gave
  <2>3. Promise!Issue(t.session)
    BY <1>5, <2>1, <2>2 DEF Gave, Promise!Issue
  <2> QED BY <2>1, <2>3 DEF Promise!Next
<1> QED BY <1>2, <1>3, <1>4, <1>5 DEF Effect

(* The routes implement one-time pairing: whatever requests and timers do, *)
(* a password is offered at most once and alone, and gives at most one     *)
(* token, after it was used.                                               *)
THEOREM PairingRefinesPromise == Spec => PairingIsOneTime
<1>1. Init => Promise!Init
  BY PromiseStarts
<1>2. IInv /\ IInv' /\ [Next]_vars
        => [Promise!Next]_<<[s \in SessionIds |-> Stage(s)], tokens>>
  BY InvariantKept, PromiseStep
<1> QED BY <1>1, <1>2, Invariance, PTL DEF Spec, PairingIsOneTime, Promise!Spec
=============================================================================
