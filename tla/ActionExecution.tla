-------------------------- MODULE ActionExecution --------------------------
(***************************************************************************)
(* What the worker threads that execute actions share: the keyboard of the *)
(* PC, the slots of WindowsSystemInfoAdapter and the locks of the graphics *)
(* libraries (src/server/app/actions.py, gpu_telemetry.py).                *)
(*                                                                         *)
(* Every session executes one action at a time, in a thread of its own, so *)
(* a worker stands for a session.  A chord is the sequence of keys a       *)
(* hotkey presses, its modifiers first; a key or media action is a chord   *)
(* of one key.  An action that is rejected before it touches anything (a   *)
(* key outside the map, an application outside the catalogue) and one that *)
(* is a single call of Windows (text, url, application) share nothing and  *)
(* have no step here.                                                      *)
(***************************************************************************)
EXTENDS Integers, Sequences, FiniteSets

CONSTANTS Workers,     \* the threads, one for each session
          Keys,        \* virtual keys
          Chords,      \* what the profiles' buttons press
          MaxSlots,    \* max_concurrent_executions
          MaxLeaks     \* bound: how many shutdowns of NVML fail

KeysOf(c) == {c[i] : i \in DOMAIN c}

Primary(c) == c[Len(c)]

(* The schema refuses a modifier that is named twice, and no key of the    *)
(* map is a modifier (schemas.py:110, actions.py:32).                      *)
ASSUME ExecutionAssumption ==
  /\ IsFiniteSet(Workers)
  /\ MaxSlots \in Nat \ {0}
  /\ MaxLeaks \in Nat
  /\ Chords \subseteq Seq(Keys) \ {<<>>}
  /\ \A c \in Chords : \A i, j \in DOMAIN c : c[i] = c[j] => i = j

(* Where a worker is while it holds a slot: between the two readings of    *)
(* the processor's times; before, and inside, each graphics library; and   *)
(* on its way out.                                                         *)
Telemetry == {"sampling", "nvidia", "nvml", "amd", "bridge", "answering"}

Stages == {"idle", "pressing", "releasing"} \cup Telemetry

(* Where the lock of a library is held. *)
Inside == [nvidia |-> "nvml", amd |-> "bridge"]

VARIABLES stage,     \* where each worker is
          chord,     \* the chord of the action it executes
          held,      \* the keys it has pressed and not released, in that order
          down,      \* the keys that Windows takes to be down
          slots,     \* _execution_slots: free ones
          locks,     \* _NVIDIA_LOCK and _AMD_LOCK: who holds them
          nvml,      \* how often NVML is initialised and not shut down
          stuck,     \* history: keys left down by a failed release or an ended process
          met,       \* history: the keys of chords that were executed at the same time
          leaks      \* history: shutdowns of NVML that failed

keyboard == <<chord, held, down, stuck, met>>
telemetry == <<slots, locks, nvml, leaks>>
vars == <<stage, keyboard, telemetry>>

Typing == {w \in Workers : stage[w] \in {"pressing", "releasing"}}

Reading == {w \in Workers : stage[w] \in Telemetry}

ExecutionTypeOK ==
  /\ stage \in [Workers -> Stages]
  /\ chord \in [Workers -> Chords \cup {<<>>}]
  /\ held \in [Workers -> Seq(Keys)]
  /\ down \subseteq Keys
  /\ slots \in Nat
  /\ locks \in [DOMAIN Inside -> SUBSET Workers]
  /\ nvml \in Nat
  /\ stuck \subseteq Keys
  /\ met \in [Workers -> SUBSET Keys]
  /\ leaks \in 0..MaxLeaks

Init ==
  /\ stage = [w \in Workers |-> "idle"]
  /\ chord = [w \in Workers |-> <<>>]
  /\ held = [w \in Workers |-> <<>>]
  /\ slots = MaxSlots
  /\ locks = [l \in DOMAIN Inside |-> {}]
  /\ nvml = 0
  /\ met = [w \in Workers |-> {}]
  /\ leaks = 0
  /\ down = {}
  /\ stuck = {}

MoveTo(w, s) == stage' = [stage EXCEPT ![w] = s]

-----------------------------------------------------------------------------
(* Keys.                                                                   *)

(* A worker takes up a hotkey, key or media action. *)
StartTyping(w, c) ==
  /\ stage[w] = "idle"
  /\ MoveTo(w, "pressing")
  /\ chord' = [chord EXCEPT ![w] = c]
  /\ met' = [v \in Workers |-> IF v = w THEN UNION {KeysOf(chord[u]) : u \in Typing}
                               ELSE IF v \in Typing THEN met[v] \cup KeysOf(c)
                               ELSE met[v]]
  /\ UNCHANGED <<held, down, stuck, telemetry>>

(* The next key goes down, whether it was down already or not. *)
Press(w) ==
  /\ stage[w] = "pressing"
  /\ LET k == chord[w][Len(held[w]) + 1]
     IN  /\ held' = [held EXCEPT ![w] = Append(@, k)]
         /\ down' = down \cup {k}
         /\ MoveTo(w, IF k = Primary(chord[w]) THEN "releasing" ELSE "pressing")
  /\ UNCHANGED <<chord, stuck, met, telemetry>>

(* emit_key raises: nothing more is pressed, and the finally clause runs. *)
PressFails(w) ==
  /\ stage[w] = "pressing"
  /\ MoveTo(w, "releasing")
  /\ UNCHANGED <<keyboard, telemetry>>

(* Mutation: keys go up in the order in which they went down. *)
ReleaseFirst(w) ==
  /\ stage[w] = "releasing" /\ held[w] # <<>>
  /\ held' = [held EXCEPT ![w] = Tail(@)]
  /\ down' = down \ {Head(held[w])}
  /\ stuck' = stuck \ {Head(held[w])}
  /\ UNCHANGED <<stage, chord, met, telemetry>>

(* The last key pressed is next to go up: for Windows it is up then,       *)
(* whoever else has pressed it.                                            *)
Release(w) ==
  /\ stage[w] = "releasing" /\ held[w] # <<>>
  /\ LET n == Len(held[w])
     IN  /\ held' = [held EXCEPT ![w] = SubSeq(@, 1, n - 1)]
         /\ down' = down \ {held[w][n]}
         /\ stuck' = stuck \ {held[w][n]}
  /\ UNCHANGED <<stage, chord, met, telemetry>>

(* Mutation: what a failed release raises leaves the finally clause. *)
ReleaseRaises(w) ==
  /\ stage[w] = "releasing" /\ held[w] # <<>>
  /\ held' = [held EXCEPT ![w] = <<>>]
  /\ stuck' = stuck \cup ({held[w][Len(held[w])]} \cap down)
  /\ UNCHANGED <<stage, chord, down, met, telemetry>>

(* A release that raises is swallowed, and the next key's turn comes. *)
ReleaseFails(w) ==
  /\ stage[w] = "releasing" /\ held[w] # <<>>
  /\ LET n == Len(held[w])
     IN  /\ held' = [held EXCEPT ![w] = SubSeq(@, 1, n - 1)]
         /\ stuck' = stuck \cup ({held[w][n]} \cap down)
  /\ UNCHANGED <<stage, chord, down, met, telemetry>>

EndTyping(w) ==
  /\ stage[w] = "releasing" /\ held[w] = <<>>
  /\ MoveTo(w, "idle")
  /\ chord' = [chord EXCEPT ![w] = <<>>]
  /\ met' = [met EXCEPT ![w] = {}]
  /\ UNCHANGED <<held, down, stuck, telemetry>>

-----------------------------------------------------------------------------
(* System information.                                                     *)

(* The semaphore is asked without waiting; memory is a single reading. *)
StartReading(w, first) ==
  /\ stage[w] = "idle" /\ slots > 0
  /\ slots' = slots - 1
  /\ MoveTo(w, first)
  /\ UNCHANGED <<keyboard, locks, nvml, leaks>>

(* Mutation: the semaphore is taken inside the try, so a busy call returns *)
(* a slot that it never had.                                               *)
BusyReturns(w) ==
  /\ stage[w] = "idle" /\ slots = 0
  /\ slots' = slots + 1
  /\ UNCHANGED <<stage, keyboard, locks, nvml, leaks>>

(* Refused: "System information is busy". *)
Busy(w) ==
  /\ stage[w] = "idle" /\ slots = 0
  /\ UNCHANGED vars

(* The second reading and the temperature, or an exception of either. *)
Sample(w) ==
  /\ stage[w] = "sampling"
  /\ MoveTo(w, "answering")
  /\ UNCHANGED <<keyboard, telemetry>>

(* A provider without its library, or (nvidia) whose nvmlInit fails under  *)
(* the lock, gives no candidates.                                          *)
Absent(w, l) ==
  /\ stage[w] = l
  /\ MoveTo(w, IF l = "nvidia" THEN "amd" ELSE "answering")
  /\ UNCHANGED <<keyboard, telemetry>>

(* The lock is free and taken; nvmlInit succeeds or the bridge is loaded. *)
Enter(w, l) ==
  /\ stage[w] = l /\ locks[l] = {}
  /\ locks' = [locks EXCEPT ![l] = {w}]
  /\ nvml' = IF l = "nvidia" THEN nvml + 1 ELSE nvml
  /\ MoveTo(w, Inside[l])
  /\ UNCHANGED <<keyboard, slots, leaks>>

(* The readings succeed or raise; NVML is shut down, and the lock is       *)
(* released, either way.                                                   *)
Leave(w, l) ==
  /\ stage[w] = Inside[l]
  /\ locks' = [locks EXCEPT ![l] = @ \ {w}]
  /\ nvml' = IF l = "nvidia" THEN nvml - 1 ELSE nvml
  /\ MoveTo(w, IF l = "nvidia" THEN "amd" ELSE "answering")
  /\ UNCHANGED <<keyboard, slots, leaks>>

(* nvmlShutdown raises, which is swallowed. *)
ShutdownFails(w) ==
  /\ stage[w] = "nvml" /\ leaks < MaxLeaks
  /\ locks' = [locks EXCEPT !["nvidia"] = @ \ {w}]
  /\ leaks' = leaks + 1
  /\ MoveTo(w, "amd")
  /\ UNCHANGED <<keyboard, slots, nvml>>

(* The finally clause returns the slot, whatever the readings gave. *)
EndReading(w) ==
  /\ stage[w] = "answering"
  /\ slots' = slots + 1
  /\ MoveTo(w, "idle")
  /\ UNCHANGED <<keyboard, locks, nvml, leaks>>

-----------------------------------------------------------------------------
(* The process ends, by taskkill /F when the tray stops it, wherever its   *)
(* threads are, and another is started: what was down stays down, and no   *)
(* process knows of it.                                                    *)
Restart ==
  /\ stage' = [w \in Workers |-> "idle"]
  /\ chord' = [w \in Workers |-> <<>>]
  /\ held' = [w \in Workers |-> <<>>]
  /\ slots' = MaxSlots
  /\ locks' = [l \in DOMAIN Inside |-> {}]
  /\ nvml' = 0
  /\ met' = [w \in Workers |-> {}]
  /\ leaks' = 0
  /\ stuck' = down
  /\ UNCHANGED down

Type(w) == \/ \E c \in Chords : StartTyping(w, c)
           \/ Press(w) \/ PressFails(w)
           \/ Release(w) \/ ReleaseFails(w)
           \/ EndTyping(w)

Inform(w) == \/ \E first \in {"sampling", "nvidia", "answering"} : StartReading(w, first)
             \/ Busy(w) \/ Sample(w)
             \/ \E l \in DOMAIN Inside : Absent(w, l) \/ Enter(w, l) \/ Leave(w, l)
             \/ ShutdownFails(w)
             \/ EndReading(w)

Next == \/ \E w \in Workers : Type(w) \/ Inform(w)
        \/ Restart

Spec == Init /\ [][Next]_vars

-----------------------------------------------------------------------------
(* What must hold.                                                         *)

(* A key that is down is still to be released by some worker, unless a     *)
(* release of it has failed or the process that pressed it has ended: a    *)
(* press that fails in the middle of a chord, and another chord with the   *)
(* same keys, leave none behind (actions.py:161).                          *)
KeysAreOwed ==
  \A k \in down : k \in stuck \/ \E w \in Workers : k \in KeysOf(held[w])

(* While the primary key of a worker's chord is held, so are its           *)
(* modifiers, and Windows agrees, but for keys of chords executed at the   *)
(* same time: "s" is never typed for Ctrl+S, before or after the modifier, *)
(* unless another chord has the same modifier (actions.py:170).            *)
ChordsAreWhole ==
  \A w \in Typing :
    Primary(chord[w]) \in KeysOf(held[w]) =>
      /\ KeysOf(held[w]) = KeysOf(chord[w])
      /\ KeysOf(chord[w]) \subseteq down \cup met[w]

(* Every slot and lock belongs to a worker that will return it, none is    *)
(* returned twice, and NVML is initialised for the one reader it has and   *)
(* for the shutdowns that failed (actions.py:277, gpu_telemetry.py:64).    *)
SlotsAreReturned ==
  /\ slots + Cardinality(Reading) = MaxSlots
  /\ \A l \in DOMAIN Inside : locks[l] = {w \in Workers : stage[w] = Inside[l]}
  /\ nvml = leaks + Cardinality(locks.nvidia)
  /\ Cardinality(locks.nvidia) <= 1
=============================================================================
