----------------------------- MODULE RateLimiter -----------------------------
(***************************************************************************)
(* AttemptRateLimiter of src/server/app/rate_limit.py.  Each limiter keeps *)
(* for every origin the times of its recent attempts, in the order they    *)
(* were decided, which need not be the order of the times: allow reads the *)
(* clock before it takes the lock.  An origin that is not in the code's    *)
(* dictionary has the empty sequence here.                                 *)
(*                                                                         *)
(* A time is kept as its age, the ticks since; a reading of the clock has  *)
(* an age too when the lock comes late.  An age of Oldest, or more, is     *)
(* past the window of every reading, so ages stop there.                   *)
(***************************************************************************)
EXTENDS Integers, Sequences, FiniteSets

CONSTANTS Limiters,      \* the limiters that are modelled
          Origins,       \* addresses requests come from
          MaxAttempts,   \* max_attempts
          Window,        \* window_seconds, in ticks
          MaxOrigins,    \* max_origins
          MaxLag         \* bound: ticks between reading the clock and the lock

ASSUME RateAssumption == /\ MaxAttempts \in Nat \ {0}
                         /\ Window \in Nat \ {0}
                         /\ MaxOrigins \in Nat \ {0}
                         /\ MaxLag \in Nat
                         /\ IsFiniteSet(Origins)

VARIABLES attempts,      \* _attempts of each limiter
          tries          \* history: the attempts of the last window that were
                         \* admitted, since the last success of the origin

limiterVars == <<attempts, tries>>

Oldest == Window + MaxLag

LimiterTypeOK == {attempts, tries} \subseteq [Limiters -> [Origins -> Seq(0..Oldest)]]

LimitersInit == /\ attempts = [l \in Limiters |-> [o \in Origins |-> <<>>]]
                /\ tries = attempts

Stored(table) == {o \in Origins : table[o] # <<>>}

(* Mutation: the time that was decided first counts. *)
StaleFirst(ages, lag) == ages # <<>> /\ ages[1] - lag >= Window

(* expired_keys, for a clock read lag ticks ago: only the time decided     *)
(* last counts.                                                            *)
Stale(ages, lag) == ages # <<>> /\ ages[Len(ages)] - lag >= Window

(* The dictionary once the expired keys are popped. *)
Swept(l, lag) ==
  [o \in Origins |-> IF Stale(attempts[l][o], lag) THEN <<>> ELSE attempts[l][o]]

(* The attempts that are in the window still, in their order. *)
Recent(ages, lag) ==
  LET kept[i \in 0..Len(ages)] ==
        IF i = 0 THEN <<>>
        ELSE IF ages[i] - lag < Window THEN Append(kept[i - 1], ages[i])
        ELSE kept[i - 1]
  IN  kept[Len(ages)]

(* Mutation: one origin too many. *)
NoRoomLate(table, o) ==
  o \notin Stored(table) /\ Cardinality(Stored(table)) > MaxOrigins

NoRoom(table, o) == o \notin Stored(table) /\ Cardinality(Stored(table)) >= MaxOrigins

Admits(l, o, lag) ==
  LET table == Swept(l, lag)
  IN  ~NoRoom(table, o) /\ Len(Recent(table[o], lag)) < MaxAttempts

(* allow, from the lock on: sweep, refuse a new origin when the dictionary *)
(* is full, forget the old attempts of this one, and count this attempt    *)
(* unless there are too many.                                              *)
Allow(l, o, lag) ==
  LET table  == Swept(l, lag)
      recent == Recent(table[o], lag)
      ages   == IF NoRoom(table, o) THEN table[o]
                ELSE IF Admits(l, o, lag) THEN Append(recent, lag)
                ELSE recent
  IN  /\ attempts' = [attempts EXCEPT ![l] = [table EXCEPT ![o] = ages]]
      /\ tries' = IF Admits(l, o, lag)
                    THEN [tries EXCEPT ![l][o] = Append(@, lag)] ELSE tries

(* reset, after an attempt that succeeded. *)
Reset(l, o) == /\ attempts' = [attempts EXCEPT ![l][o] = <<>>]
               /\ tries' = [tries EXCEPT ![l][o] = <<>>]

Older(ages) == [i \in DOMAIN ages |-> IF ages[i] < Oldest THEN ages[i] + 1 ELSE Oldest]

AttemptsAge ==
  /\ attempts' = [l \in Limiters |-> [o \in Origins |-> Older(attempts[l][o])]]
  /\ tries' = [l \in Limiters |-> [o \in Origins |-> Recent(Older(tries[l][o]), 0)]]

(* The memory of a limiter is bounded, in whatever order the threads that  *)
(* read the clock get the lock (rate_limit.py:33, :42): no origin has more *)
(* than max_attempts times, and no more than max_origins have any.         *)
TablesBounded ==
  \A l \in Limiters :
    /\ \A o \in Origins : Len(attempts[l][o]) <= MaxAttempts
    /\ Cardinality(Stored(attempts[l])) <= MaxOrigins

(* Five wrong answers a minute: of the attempts of the last window, as many *)
(* as max_attempts at most were admitted since the origin last succeeded.   *)
WindowHolds(l) == \A o \in Origins : Len(tries[l][o]) <= MaxAttempts
=============================================================================
