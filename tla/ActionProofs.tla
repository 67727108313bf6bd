---------------------------- MODULE ActionProofs ----------------------------
(***************************************************************************)
(* Proofs about ActionExecution: what threads that share the keyboard and  *)
(* the telemetry leave behind, for any number of threads, keys, chords and *)
(* slots.                                                                  *)
(***************************************************************************)
EXTENDS ActionExecution, FiniteSetTheorems, SequenceTheorems, TLAPS

-----------------------------------------------------------------------------
(* Sequences of keys.                                                      *)

(* What is left when the last key of a sequence is taken away. *)
LEMMA FrontOf ==
  ASSUME NEW q \in Seq(Keys), q # <<>>
  PROVE  /\ Len(q) \in Nat \ {0}
         /\ SubSeq(q, 1, Len(q) - 1) \in Seq(Keys)
         /\ Len(SubSeq(q, 1, Len(q) - 1)) = Len(q) - 1
         /\ \A i \in 1..(Len(q) - 1) : SubSeq(q, 1, Len(q) - 1)[i] = q[i]
  <1>1. Len(q) \in Nat \ {0}
    OBVIOUS
  <1>2. \A i \in 1..(Len(q) - 1) : q[i] \in Keys
    BY <1>1
  <1>3. PICK n \in Nat : n = Len(q) - 1
    BY <1>1
  <1>4. /\ SubSeq(q, 1, n) \in Seq(Keys)
        /\ Len(SubSeq(q, 1, n)) = IF 1 <= n THEN n - 1 + 1 ELSE 0
        /\ \A i \in 1..(n - 1 + 1) : SubSeq(q, 1, n)[i] = q[1 + i - 1]
    BY <1>2, <1>3, SubSeqProperties
  <1>5. Len(SubSeq(q, 1, n)) = n
    BY <1>4
  <1>6. \A i \in 1..n : SubSeq(q, 1, n)[i] = q[i]
    BY <1>4
  <1> QED BY <1>1, <1>3, <1>4, <1>5, <1>6

LEMMA AppendTo ==
  ASSUME NEW q \in Seq(Keys), NEW k \in Keys
  PROVE  /\ Append(q, k) \in Seq(Keys)
         /\ Len(Append(q, k)) = Len(q) + 1
         /\ Len(q) \in Nat
         /\ \A i \in 1..Len(q) : Append(q, k)[i] = q[i]
         /\ Append(q, k)[Len(q) + 1] = k
  OBVIOUS

LEMMA KeysByIndex ==
  ASSUME NEW q \in Seq(Keys)
  PROVE  /\ KeysOf(q) = {q[i] : i \in 1..Len(q)}
         /\ KeysOf(q) \subseteq Keys
  BY DEF KeysOf

LEMMA KeysOfFront ==
  ASSUME NEW q \in Seq(Keys), q # <<>>
  PROVE  /\ KeysOf(SubSeq(q, 1, Len(q) - 1)) \subseteq KeysOf(q)
         /\ KeysOf(q) \subseteq KeysOf(SubSeq(q, 1, Len(q) - 1)) \cup {q[Len(q)]}
         /\ q[Len(q)] \in Keys
  <1> DEFINE f == SubSeq(q, 1, Len(q) - 1)
  <1>1. /\ Len(q) \in Nat \ {0} /\ f \in Seq(Keys) /\ Len(f) = Len(q) - 1
        /\ \A i \in 1..(Len(q) - 1) : f[i] = q[i]
    BY FrontOf
  <1>2. /\ KeysOf(q) = {q[i] : i \in 1..Len(q)}
        /\ KeysOf(f) = {f[i] : i \in 1..Len(f)}
    BY <1>1, KeysByIndex
  <1> HIDE DEF f
  <1>3. KeysOf(f) \subseteq KeysOf(q) /\ KeysOf(q) \subseteq KeysOf(f) \cup {q[Len(q)]}
    BY <1>1, <1>2
  <1>4. q[Len(q)] \in Keys
    BY <1>1
  <1> QED BY <1>3, <1>4 DEF f

LEMMA KeysOfAppend ==
  ASSUME NEW q \in Seq(Keys), NEW k \in Keys
  PROVE  KeysOf(Append(q, k)) = KeysOf(q) \cup {k}
  <1> DEFINE a == Append(q, k)
  <1>1. /\ a \in Seq(Keys) /\ Len(a) = Len(q) + 1 /\ Len(q) \in Nat
        /\ \A i \in 1..Len(q) : a[i] = q[i]
        /\ a[Len(q) + 1] = k
    BY AppendTo
  <1>2. /\ KeysOf(q) = {q[i] : i \in 1..Len(q)}
        /\ KeysOf(a) = {a[i] : i \in 1..Len(a)}
    BY <1>1, KeysByIndex
  <1> HIDE DEF a
  <1>3. KeysOf(a) = KeysOf(q) \cup {k}
    BY <1>1, <1>2
  <1> QED BY <1>3 DEF a

(* A chord has a first and a last key, and no key twice. *)
LEMMA ChordFacts ==
  ASSUME NEW c \in Chords
  PROVE  /\ c \in Seq(Keys)
         /\ Len(c) \in Nat \ {0}
         /\ Primary(c) = c[Len(c)]
         /\ \A i, j \in 1..Len(c) : c[i] = c[j] => i = j
         /\ \A i \in 1..Len(c) : c[i] \in Keys
  <1>1. c \in Seq(Keys) /\ c # <<>>
    BY ExecutionAssumption
  <1>2. DOMAIN c = 1..Len(c) /\ Len(c) \in Nat \ {0}
    BY <1>1
  <1>3. \A i, j \in 1..Len(c) : c[i] = c[j] => i = j
    BY <1>2, ExecutionAssumption
  <1> QED BY <1>1, <1>2, <1>3 DEF Primary

-----------------------------------------------------------------------------
(* The types.                                                              *)

LEMMA StageNames ==
  /\ "idle" \in Stages /\ "pressing" \in Stages /\ "releasing" \in Stages
  /\ Telemetry \subseteq Stages
  /\ DOMAIN Inside = {"nvidia", "amd"}
  /\ Inside["nvidia"] = "nvml" /\ Inside["amd"] = "bridge"
  BY DEF Stages, Telemetry, Inside

(* What a worker holds are the first keys of its chord, each of which is   *)
(* down unless a chord executed at the same time has it, too.              *)
Prefix(w) ==
  /\ chord[w] \in Chords
  /\ Len(held[w]) <= Len(chord[w])
  /\ stage[w] = "pressing" => Len(held[w]) < Len(chord[w])
  /\ \A i \in 1..Len(held[w]) : held[w][i] = chord[w][i]

KeyInv ==
  /\ \A w \in Workers \ Typing : chord[w] = <<>> /\ held[w] = <<>>
  /\ \A w \in Typing :
       /\ Prefix(w)
       /\ KeysOf(held[w]) \subseteq down \cup met[w]
       /\ \A v \in Typing : v # w => KeysOf(chord[v]) \subseteq met[w]

LEMMA Initially == Init => ExecutionTypeOK /\ KeyInv /\ KeysAreOwed
  BY ExecutionAssumption, StageNames
  DEF Init, ExecutionTypeOK, KeyInv, Typing, KeysAreOwed

(* The next key of a chord. *)
LEMMA NextKey ==
  ASSUME ExecutionTypeOK, KeyInv, NEW w \in Workers, stage[w] = "pressing"
  PROVE  /\ Len(held[w]) \in Nat
         /\ Len(held[w]) + 1 \in 1..Len(chord[w])
         /\ chord[w][Len(held[w]) + 1] \in Keys
  <1>1. w \in Typing /\ Prefix(w)
    BY DEF Typing, KeyInv
  <1>2. Len(held[w]) \in Nat /\ Len(held[w]) < Len(chord[w])
    BY <1>1 DEF Prefix, ExecutionTypeOK
  <1> QED BY <1>1, <1>2, ChordFacts DEF Prefix

LEMMA TypeOfTyping ==
  ASSUME ExecutionTypeOK, KeyInv, NEW w \in Workers, Type(w)
  PROVE  ExecutionTypeOK'
  <1> USE DEF ExecutionTypeOK
  <1>1. ASSUME NEW c \in Chords, StartTyping(w, c)
        PROVE  ExecutionTypeOK'
    <2>1. KeysOf(c) \subseteq Keys
      BY ChordFacts, KeysByIndex
    <2>2. ASSUME NEW u \in Typing PROVE KeysOf(chord[u]) \subseteq Keys
      BY <2>2, ChordFacts, KeysByIndex DEF KeyInv, Prefix
    <2>3. UNION {KeysOf(chord[u]) : u \in Typing} \subseteq Keys
      BY <2>2
    <2>4. met' \in [Workers -> SUBSET Keys]
      BY <1>1, <2>1, <2>3 DEF StartTyping
    <2>5. stage' \in [Workers -> Stages] /\ chord' \in [Workers -> Chords \cup {<<>>}]
      BY <1>1, StageNames DEF StartTyping, MoveTo
    <2> QED BY <1>1, <2>4, <2>5 DEF StartTyping, telemetry
  <1>2. CASE Press(w)
    <2> DEFINE k == chord[w][Len(held[w]) + 1]
    <2>1. k \in Keys
      BY <1>2, NextKey DEF Press
    <2>2. Append(held[w], k) \in Seq(Keys)
      BY <2>1, AppendTo
    <2> HIDE DEF k
    <2>3. held' \in [Workers -> Seq(Keys)] /\ down' \subseteq Keys
      BY <1>2, <2>1, <2>2 DEF Press, k
    <2>4. stage' \in [Workers -> Stages]
      BY <1>2, StageNames DEF Press, MoveTo
    <2> QED BY <1>2, <2>3, <2>4 DEF Press, telemetry
  <1>3. CASE PressFails(w)
    BY <1>3, StageNames DEF PressFails, MoveTo, keyboard, telemetry
  <1>4. ASSUME Release(w) \/ ReleaseFails(w)
        PROVE  ExecutionTypeOK'
    <2>1. held[w] \in Seq(Keys) /\ held[w] # <<>>
      BY <1>4 DEF Release, ReleaseFails
    <2>2. SubSeq(held[w], 1, Len(held[w]) - 1) \in Seq(Keys) /\ held[w][Len(held[w])] \in Keys
      BY <2>1, FrontOf, KeysOfFront
    <2>3. held' \in [Workers -> Seq(Keys)]
      BY <1>4, <2>2 DEF Release, ReleaseFails
    <2>4. down' \subseteq Keys /\ stuck' \subseteq Keys
      BY <1>4, <2>2 DEF Release, ReleaseFails
    <2> QED BY <1>4, <2>3, <2>4 DEF Release, ReleaseFails, telemetry
  <1>5. CASE EndTyping(w)
    BY <1>5, StageNames DEF EndTyping, MoveTo, telemetry
  <1> QED BY <1>1, <1>2, <1>3, <1>4, <1>5 DEF Type

-----------------------------------------------------------------------------
(* The keyboard.                                                           *)

LEMMA KeysOfStart ==
  ASSUME ExecutionTypeOK, KeyInv, KeysAreOwed,
         NEW w \in Workers, NEW c \in Chords, StartTyping(w, c)
  PROVE  KeyInv' /\ KeysAreOwed'
  <1> USE DEF ExecutionTypeOK
  <1>1. /\ w \notin Typing /\ Typing' = Typing \cup {w}
        /\ \A v \in Workers : v # w => stage'[v] = stage[v] /\ chord'[v] = chord[v]
        /\ stage'[w] = "pressing" /\ chord'[w] = c
        /\ held' = held /\ down' = down /\ stuck' = stuck
    BY DEF StartTyping, Typing, MoveTo
  <1>2. held[w] = <<>>
    BY <1>1 DEF KeyInv
  <1>3. Typing \subseteq Workers
    BY DEF Typing
  <1>4. /\ met'[w] = UNION {KeysOf(chord[u]) : u \in Typing}
        /\ \A v \in Typing : met'[v] = met[v] \cup KeysOf(c)
    BY <1>1, <1>3 DEF StartTyping
  <1>5. ASSUME NEW v \in Workers \ Typing'
        PROVE  chord'[v] = <<>> /\ held'[v] = <<>>
    BY <1>1, <1>5 DEF KeyInv
  <1>6. Prefix(w)' /\ KeysOf(held'[w]) = {}
    <2>1. Len(c) \in Nat \ {0}
      BY ChordFacts
    <2>2. Len(held'[w]) = 0 /\ KeysOf(held'[w]) = {}
      BY <1>1, <1>2 DEF KeysOf
    <2> QED BY <1>1, <2>1, <2>2 DEF Prefix
  <1>7. ASSUME NEW v \in Typing
        PROVE  Prefix(v)' /\ KeysOf(held'[v]) \subseteq down' \cup met'[v]
    <2>1. v # w /\ v \in Workers /\ Prefix(v) /\ KeysOf(held[v]) \subseteq down \cup met[v]
      BY <1>1, <1>3, <1>7 DEF KeyInv
    <2>2. Prefix(v)'
      BY <1>1, <2>1 DEF Prefix
    <2> QED BY <1>1, <1>4, <1>7, <2>1, <2>2
  <1>8. ASSUME NEW u \in Typing', NEW v \in Typing', v # u
        PROVE  KeysOf(chord'[v]) \subseteq met'[u]
    <2>1. CASE u = w
      BY <1>1, <1>3, <1>4, <1>8, <2>1
    <2>2. CASE u # w /\ v = w
      BY <1>1, <1>3, <1>4, <1>8, <2>2
    <2>3. CASE u # w /\ v # w
      BY <1>1, <1>3, <1>4, <1>8, <2>3 DEF KeyInv
    <2> QED BY <2>1, <2>2, <2>3
  <1>9. KeyInv'
    BY <1>1, <1>5, <1>6, <1>7, <1>8 DEF KeyInv
  <1>10. KeysAreOwed'
    BY <1>1 DEF KeysAreOwed
  <1> QED BY <1>9, <1>10

LEMMA KeysOfPress ==
  ASSUME ExecutionTypeOK, KeyInv, KeysAreOwed, NEW w \in Workers, Press(w)
  PROVE  KeyInv' /\ KeysAreOwed'
  <1> USE DEF ExecutionTypeOK
  <1> DEFINE n == Len(held[w])
             k == chord[w][n + 1]
  <1>1. /\ n \in Nat /\ n + 1 \in 1..Len(chord[w]) /\ k \in Keys
        /\ w \in Typing /\ Prefix(w)
    BY NextKey DEF Press, Typing, KeyInv
  <1>2. /\ \A v \in Workers : v # w => stage'[v] = stage[v] /\ held'[v] = held[v]
        /\ stage'[w] = (IF k = Primary(chord[w]) THEN "releasing" ELSE "pressing")
        /\ held'[w] = Append(held[w], k)
        /\ down' = down \cup {k}
        /\ chord' = chord /\ stuck' = stuck /\ met' = met
    BY DEF Press, MoveTo
  <1>3. Typing' = Typing
    BY <1>1, <1>2 DEF Typing
  <1>4. /\ Len(held'[w]) = n + 1
        /\ \A i \in 1..n : held'[w][i] = held[w][i]
        /\ held'[w][n + 1] = k
        /\ KeysOf(held'[w]) = KeysOf(held[w]) \cup {k}
    BY <1>1, <1>2, AppendTo, KeysOfAppend
  <1>5. Prefix(w)'
    <2>1. /\ chord[w] \in Chords
          /\ \A i \in 1..n : held[w][i] = chord[w][i]
      BY <1>1 DEF Prefix
    <2>2. Len(chord[w]) \in Nat \ {0} /\ Primary(chord[w]) = chord[w][Len(chord[w])]
      BY <2>1, ChordFacts
    <2>3. stage'[w] = "pressing" => n + 1 < Len(chord[w])
      <3>1. n + 1 = Len(chord[w]) => k = Primary(chord[w])
        BY <2>2
      <3> QED BY <1>1, <1>2, <2>2, <3>1
    <2>4. ASSUME NEW i \in 1..(n + 1)
          PROVE  held'[w][i] = chord[w][i]
      <3>1. CASE i = n + 1
        BY <1>4, <3>1
      <3>2. CASE i \in 1..n
        BY <1>4, <2>1, <3>2
      <3> QED BY <1>1, <3>1, <3>2
    <2> QED BY <1>1, <1>2, <1>4, <2>1, <2>2, <2>3, <2>4 DEF Prefix
  <1> HIDE DEF n, k
  <1>6. ASSUME NEW v \in Typing, v # w
        PROVE  Prefix(v)' /\ KeysOf(held'[v]) \subseteq down' \cup met'[v]
    <2>1. v \in Workers /\ Prefix(v) /\ KeysOf(held[v]) \subseteq down \cup met[v]
      BY <1>6 DEF KeyInv, Typing
    <2>2. Prefix(v)'
      BY <1>2, <1>6, <2>1 DEF Prefix
    <2> QED BY <1>2, <1>6, <2>1, <2>2
  <1>7. KeysOf(held'[w]) \subseteq down' \cup met'[w]
    BY <1>1, <1>2, <1>4 DEF KeyInv
  <1>8. \A u, v \in Typing' : v # u => KeysOf(chord'[v]) \subseteq met'[u]
    BY <1>2, <1>3 DEF KeyInv
  <1>9. \A v \in Workers \ Typing' : chord'[v] = <<>> /\ held'[v] = <<>>
    BY <1>1, <1>2, <1>3 DEF KeyInv
  <1>10. KeyInv'
    BY <1>3, <1>5, <1>6, <1>7, <1>8, <1>9 DEF KeyInv
  <1>11. \A v \in Workers : KeysOf(held[v]) \subseteq KeysOf(held'[v])
    BY <1>2, <1>4
  <1>12. KeysAreOwed'
    BY <1>2, <1>4, <1>11 DEF KeysAreOwed
  <1> QED BY <1>10, <1>12

LEMMA KeysOfRelease ==
  ASSUME ExecutionTypeOK, KeyInv, KeysAreOwed, NEW w \in Workers,
         Release(w) \/ ReleaseFails(w)
  PROVE  KeyInv' /\ KeysAreOwed'
  <1> USE DEF ExecutionTypeOK
  <1> DEFINE n == Len(held[w])
             k == held[w][n]
             front == SubSeq(held[w], 1, n - 1)
  <1>1. /\ held[w] \in Seq(Keys) /\ held[w] # <<>> /\ stage[w] = "releasing"
        /\ w \in Typing
    BY DEF Release, ReleaseFails, Typing
  <1>2. /\ n \in Nat \ {0} /\ Len(front) = n - 1
        /\ \A i \in 1..(n - 1) : front[i] = held[w][i]
        /\ KeysOf(front) \subseteq KeysOf(held[w])
        /\ KeysOf(held[w]) \subseteq KeysOf(front) \cup {k}
    BY <1>1, FrontOf, KeysOfFront
  <1>3. /\ stage' = stage /\ chord' = chord /\ met' = met
        /\ held' = [held EXCEPT ![w] = front]
        /\ \/ down' = down \ {k} /\ stuck' = stuck \ {k}
           \/ down' = down /\ stuck' = stuck \cup ({k} \cap down)
    BY DEF Release, ReleaseFails
  <1>4. Typing' = Typing /\ Typing \subseteq Workers
    BY <1>3 DEF Typing
  <1>5. Prefix(w) /\ chord[w] \in Chords
    BY <1>1 DEF KeyInv, Prefix
  <1>6. Len(chord[w]) \in Nat \ {0} /\ chord[w] \in Seq(Keys)
        /\ \A i, j \in 1..Len(chord[w]) : chord[w][i] = chord[w][j] => i = j
    BY <1>5, ChordFacts
  <1>7. n \in 1..Len(chord[w]) /\ k = chord[w][n]
    BY <1>2, <1>5, <1>6 DEF Prefix
  <1>8. k \in KeysOf(chord[w])
    BY <1>6, <1>7, KeysByIndex
  <1>9. k \notin KeysOf(front)
    <2>1. SUFFICES ASSUME k \in KeysOf(front) PROVE FALSE
      OBVIOUS
    <2>2. KeysOf(front) = {front[i] : i \in 1..Len(front)}
      BY <1>1, FrontOf, KeysByIndex
    <2> HIDE DEF front, k
    <2>3. PICK i \in 1..(n - 1) : front[i] = k
      BY <1>2, <2>1, <2>2
    <2>4. chord[w][i] = chord[w][n] /\ i \in 1..Len(chord[w])
      BY <1>2, <1>5, <1>6, <1>7, <2>3 DEF Prefix
    <2> QED BY <1>2, <1>6, <1>7, <2>3, <2>4
  <1>10. /\ held'[w] = front
         /\ \A v \in Workers : v # w => held'[v] = held[v]
    BY <1>3
  <1>11. Prefix(w)'
    <2>1. /\ Len(held'[w]) = n - 1 /\ n - 1 <= Len(chord[w])
          /\ \A i \in 1..(n - 1) : held'[w][i] = held[w][i]
      BY <1>2, <1>6, <1>7, <1>10
    <2>2. \A i \in 1..(n - 1) : held[w][i] = chord[w][i]
      BY <1>2, <1>5 DEF Prefix
    <2>3. stage'[w] # "pressing" /\ chord'[w] = chord[w]
      BY <1>1, <1>3
    <2> QED BY <1>5, <2>1, <2>2, <2>3 DEF Prefix
  <1> HIDE DEF n, k, front
  <1>12. KeysOf(held'[w]) \subseteq down' \cup met'[w]
    <2>1. KeysOf(held[w]) \subseteq down \cup met[w]
      BY <1>1 DEF KeyInv
    <2>2. KeysOf(held'[w]) \subseteq KeysOf(held[w]) /\ k \notin KeysOf(held'[w])
      BY <1>2, <1>9, <1>10
    <2> QED BY <1>3, <2>1, <2>2
  <1>13. ASSUME NEW v \in Typing, v # w
         PROVE  Prefix(v)' /\ KeysOf(held'[v]) \subseteq down' \cup met'[v]
    <2>1. /\ Prefix(v) /\ KeysOf(held[v]) \subseteq down \cup met[v]
          /\ KeysOf(chord[w]) \subseteq met[v]
      BY <1>1, <1>13 DEF KeyInv
    <2>2. Prefix(v)'
      BY <1>3, <1>4, <1>10, <1>13, <2>1 DEF Prefix
    <2> QED BY <1>3, <1>4, <1>8, <1>10, <1>13, <2>1, <2>2
  <1>14. KeyInv'
    <2>1. \A u, v \in Typing' : v # u => KeysOf(chord'[v]) \subseteq met'[u]
      BY <1>3, <1>4 DEF KeyInv
    <2>2. \A v \in Workers \ Typing' : chord'[v] = <<>> /\ held'[v] = <<>>
      BY <1>1, <1>3, <1>4, <1>10 DEF KeyInv
    <2> QED BY <1>4, <1>11, <1>12, <1>13, <2>1, <2>2 DEF KeyInv
  <1>15. KeysAreOwed'
    <2>1. ASSUME NEW j \in down', j \notin stuck'
          PROVE  \E v \in Workers : j \in KeysOf(held'[v])
      <3>1. j # k /\ j \in down /\ j \notin stuck
        BY <1>3, <2>1
      <3>2. PICK v \in Workers : j \in KeysOf(held[v])
        BY <3>1 DEF KeysAreOwed
      <3>3. CASE v = w
        BY <1>2, <1>10, <3>1, <3>2, <3>3
      <3>4. CASE v # w
        BY <1>10, <3>2, <3>4
      <3> QED BY <3>3, <3>4
    <2> QED BY <2>1 DEF KeysAreOwed
  <1> QED BY <1>14, <1>15

LEMMA KeysOfTyping ==
  ASSUME ExecutionTypeOK, KeyInv, KeysAreOwed, NEW w \in Workers, Type(w)
  PROVE  KeyInv' /\ KeysAreOwed'
  <1> USE DEF ExecutionTypeOK
  <1>1. ASSUME NEW c \in Chords, StartTyping(w, c)
        PROVE  KeyInv' /\ KeysAreOwed'
    BY <1>1, KeysOfStart
  <1>2. CASE Press(w)
    BY <1>2, KeysOfPress
  <1>3. CASE PressFails(w)
    <2>1. /\ Typing' = Typing /\ Typing \subseteq Workers
          /\ chord' = chord /\ held' = held /\ down' = down /\ stuck' = stuck /\ met' = met
      BY <1>3 DEF PressFails, MoveTo, Typing, keyboard
    <2>2. \A v \in Typing : stage'[v] = "pressing" => stage[v] = "pressing"
      BY <1>3 DEF PressFails, MoveTo, Typing
    <2>3. \A v \in Typing : Prefix(v) => Prefix(v)'
      BY <2>1, <2>2 DEF Prefix
    <2> QED BY <2>1, <2>3 DEF KeyInv, KeysAreOwed
  <1>4. CASE Release(w) \/ ReleaseFails(w)
    BY <1>4, KeysOfRelease
  <1>5. CASE EndTyping(w)
    <2>1. /\ Typing' = Typing \ {w} /\ Typing \subseteq Workers
          /\ held' = held /\ down' = down /\ stuck' = stuck /\ held[w] = <<>>
          /\ chord'[w] = <<>>
          /\ \A v \in Workers : v # w => /\ stage'[v] = stage[v]
                                       /\ chord'[v] = chord[v] /\ met'[v] = met[v]
      BY <1>5 DEF EndTyping, MoveTo, Typing
    <2>2. \A v \in Typing' : Prefix(v) => Prefix(v)'
      BY <2>1 DEF Prefix
    <2>3. KeyInv'
      BY <2>1, <2>2 DEF KeyInv
    <2> QED BY <2>1, <2>3 DEF KeysAreOwed
  <1> QED BY <1>1, <1>2, <1>3, <1>4, <1>5 DEF Type

-----------------------------------------------------------------------------
(* The telemetry.                                                          *)

(* Who holds a lock, and how often NVML is initialised. *)
LockInv ==
  /\ \A l \in DOMAIN Inside : locks[l] = {w \in Workers : stage[w] = Inside[l]}
  /\ nvml = leaks + Cardinality(locks.nvidia)
  /\ Cardinality(locks.nvidia) <= 1

LEMMA SlotParts == SlotsAreReturned <=> slots + Cardinality(Reading) = MaxSlots /\ LockInv
  BY DEF SlotsAreReturned, LockInv

LEMMA SlotsInitially == Init => SlotsAreReturned
  <1> SUFFICES ASSUME Init PROVE SlotsAreReturned
    OBVIOUS
  <1>1. /\ slots = MaxSlots /\ nvml = 0 /\ leaks = 0
        /\ \A w \in Workers : stage[w] = "idle"
        /\ \A l \in DOMAIN Inside : locks[l] = {}
    BY DEF Init
  <1>2. Reading = {} /\ \A l \in DOMAIN Inside : {w \in Workers : stage[w] = Inside[l]} = {}
    BY <1>1, StageNames DEF Reading, Telemetry
  <1>3. locks.nvidia = {} /\ Cardinality({}) = 0
    BY <1>1, StageNames, FS_EmptySet
  <1> QED BY <1>1, <1>2, <1>3, ExecutionAssumption DEF SlotsAreReturned

(* What changes hands is one slot, or one lock. *)
LEMMA FiniteReading ==
  /\ IsFiniteSet(Reading)
  /\ Cardinality(Reading) \in Nat
  BY ExecutionAssumption, FS_Subset, FS_CardinalityType DEF Reading

LEMMA SlotTaken ==
  ASSUME ExecutionTypeOK, NEW w \in Workers, NEW s \in Telemetry,
         stage[w] \notin Telemetry, stage' = [stage EXCEPT ![w] = s]
  PROVE  Cardinality(Reading') = Cardinality(Reading) + 1
  <1>1. Reading' = Reading \cup {w} /\ w \notin Reading
    BY DEF Reading, ExecutionTypeOK
  <1> QED BY <1>1, FiniteReading, FS_AddElement

LEMMA SlotGiven ==
  ASSUME ExecutionTypeOK, NEW w \in Workers, NEW s,
         s \notin Telemetry, stage[w] \in Telemetry, stage' = [stage EXCEPT ![w] = s]
  PROVE  Cardinality(Reading') = Cardinality(Reading) - 1
  <1>1. Reading' = Reading \ {w} /\ w \in Reading
    BY DEF Reading, ExecutionTypeOK
  <1> QED BY <1>1, FiniteReading, FS_RemoveElement

LEMMA SlotKept ==
  ASSUME ExecutionTypeOK, NEW w \in Workers, NEW s,
         s \in Telemetry <=> stage[w] \in Telemetry, stage' = [stage EXCEPT ![w] = s]
  PROVE  Reading' = Reading
  BY DEF Reading, ExecutionTypeOK

(* A worker that moves without entering or leaving a lock. *)
LEMMA LocksKept ==
  ASSUME ExecutionTypeOK, LockInv, NEW w \in Workers, NEW s,
         s \notin {"nvml", "bridge"}, stage[w] \notin {"nvml", "bridge"},
         stage' = [stage EXCEPT ![w] = s], UNCHANGED <<locks, nvml, leaks>>
  PROVE  LockInv'
  <1>1. \A l \in DOMAIN Inside : Inside[l] \in {"nvml", "bridge"}
    BY StageNames
  <1>2. \A l \in DOMAIN Inside : {v \in Workers : stage'[v] = Inside[l]}
                                = {v \in Workers : stage[v] = Inside[l]}
    BY <1>1 DEF ExecutionTypeOK
  <1> QED BY <1>2 DEF LockInv

LEMMA LocksOfEnter ==
  ASSUME ExecutionTypeOK, LockInv, NEW w \in Workers, NEW l \in DOMAIN Inside, Enter(w, l)
  PROVE  LockInv'
  <1> USE DEF ExecutionTypeOK
  <1>1. /\ stage[w] = l /\ locks[l] = {} /\ locks' = [locks EXCEPT ![l] = {w}]
        /\ nvml' = (IF l = "nvidia" THEN nvml + 1 ELSE nvml)
        /\ stage' = [stage EXCEPT ![w] = Inside[l]] /\ leaks' = leaks
    BY DEF Enter, MoveTo
  <1>2. ASSUME NEW m \in DOMAIN Inside
        PROVE  locks'[m] = {v \in Workers : stage'[v] = Inside[m]}
    <2>1. locks[m] = {v \in Workers : stage[v] = Inside[m]} /\ stage[w] # Inside[m]
      BY <1>1, StageNames DEF LockInv
    <2>2. m # l => Inside[m] # Inside[l]
      BY StageNames
    <2> QED BY <1>1, <2>1, <2>2
  <1>3. nvml' = leaks' + Cardinality(locks'.nvidia) /\ Cardinality(locks'.nvidia) <= 1
    <2>1. CASE l = "nvidia"
      <3>1. locks.nvidia = {} /\ locks'.nvidia = {w}
        BY <1>1, <2>1, StageNames
      <3>2. Cardinality({}) = 0 /\ Cardinality({w}) = 1
        BY FS_EmptySet, FS_Singleton
      <3> QED BY <1>1, <2>1, <3>1, <3>2 DEF LockInv
    <2>2. CASE l # "nvidia"
      <3>1. locks'.nvidia = locks.nvidia
        BY <1>1, <2>2, StageNames
      <3> QED BY <1>1, <2>2, <3>1 DEF LockInv
    <2> QED BY <2>1, <2>2
  <1> QED BY <1>2, <1>3 DEF LockInv

LEMMA LocksOfLeave ==
  ASSUME ExecutionTypeOK, LockInv, NEW w \in Workers, NEW l \in DOMAIN Inside,
         NEW s \in Stages, s \notin {"nvml", "bridge"}, stage[w] = Inside[l],
         locks' = [locks EXCEPT ![l] = @ \ {w}], stage' = [stage EXCEPT ![w] = s],
         IF l = "nvidia" THEN \/ nvml' = nvml - 1 /\ leaks' = leaks
                              \/ nvml' = nvml /\ leaks' = leaks + 1
                         ELSE nvml' = nvml /\ leaks' = leaks
  PROVE  LockInv'
  <1> USE DEF ExecutionTypeOK
  <1>1. ASSUME NEW m \in DOMAIN Inside
        PROVE  locks'[m] = {v \in Workers : stage'[v] = Inside[m]}
    <2>1. locks[m] = {v \in Workers : stage[v] = Inside[m]} /\ s # Inside[m]
      BY StageNames DEF LockInv
    <2>2. m # l => Inside[m] # Inside[l]
      BY StageNames
    <2> QED BY <2>1, <2>2
  <1>2. nvml' = leaks' + Cardinality(locks'.nvidia) /\ Cardinality(locks'.nvidia) <= 1
    <2>1. CASE l = "nvidia"
      <3>1. w \in locks.nvidia /\ locks'.nvidia = locks.nvidia \ {w}
        BY <2>1, StageNames DEF LockInv
      <3>2. locks.nvidia \subseteq Workers
        BY StageNames
      <3>3. IsFiniteSet(locks.nvidia) /\ Cardinality(locks.nvidia) \in Nat
        BY <3>2, ExecutionAssumption, FS_Subset, FS_CardinalityType
      <3>4. ASSUME NEW S, IsFiniteSet(S), w \in S
            PROVE  Cardinality(S \ {w}) = Cardinality(S) - 1
        BY <3>4, FS_RemoveElement
      <3>6. Cardinality(locks'.nvidia) = Cardinality(locks.nvidia) - 1
        BY <3>1, <3>3, <3>4
      <3>5. leaks \in Int /\ nvml \in Int
        BY ExecutionAssumption
      <3> QED BY <2>1, <3>3, <3>5, <3>6 DEF LockInv
    <2>2. CASE l # "nvidia"
      <3>1. locks'.nvidia = locks.nvidia
        BY <2>2, StageNames
      <3> QED BY <2>2, <3>1 DEF LockInv
    <2> QED BY <2>1, <2>2
  <1> QED BY <1>1, <1>2 DEF LockInv

LEMMA SlotsOfInform ==
  ASSUME ExecutionTypeOK, SlotsAreReturned, NEW w \in Workers, Inform(w)
  PROVE  SlotsAreReturned'
  <1> DEFINE Held == slots + Cardinality(Reading) = MaxSlots
  <1>1. /\ Held /\ LockInv
        /\ slots \in Nat /\ Cardinality(Reading) \in Nat /\ MaxSlots \in Nat
    BY SlotParts, FiniteReading, ExecutionAssumption DEF ExecutionTypeOK
  <1>2. ASSUME NEW first \in {"sampling", "nvidia", "answering"}, StartReading(w, first)
        PROVE  Held' /\ LockInv'
    <2>1. /\ stage[w] = "idle" /\ slots' = slots - 1
          /\ stage' = [stage EXCEPT ![w] = first]
          /\ UNCHANGED <<locks, nvml, leaks>>
      BY <1>2 DEF StartReading, MoveTo
    <2>2. Cardinality(Reading') = Cardinality(Reading) + 1
      BY <2>1, SlotTaken DEF Telemetry
    <2>3. LockInv'
      BY <1>1, <2>1, LocksKept
    <2> QED BY <1>1, <2>1, <2>2, <2>3
  <1>3. ASSUME Busy(w) PROVE Held' /\ LockInv'
    <2>1. UNCHANGED <<stage, slots, locks, nvml, leaks>>
      BY <1>3 DEF Busy, vars, telemetry
    <2> QED BY <1>1, <2>1 DEF LockInv, Reading
  <1>4. ASSUME Sample(w) PROVE Held' /\ LockInv'
    <2>1. /\ stage[w] = "sampling" /\ slots' = slots
          /\ stage' = [stage EXCEPT ![w] = "answering"]
          /\ UNCHANGED <<locks, nvml, leaks>>
      BY <1>4 DEF Sample, MoveTo, telemetry
    <2>2. Reading' = Reading
      BY <2>1, SlotKept DEF Telemetry
    <2>3. LockInv'
      BY <1>1, <2>1, LocksKept
    <2> QED BY <1>1, <2>1, <2>2, <2>3
  <1>5. ASSUME NEW l \in DOMAIN Inside, Absent(w, l)
        PROVE  Held' /\ LockInv'
    <2> DEFINE s == IF l = "nvidia" THEN "amd" ELSE "answering"
    <2>1. /\ stage[w] = l /\ slots' = slots /\ stage' = [stage EXCEPT ![w] = s]
          /\ UNCHANGED <<locks, nvml, leaks>>
      BY <1>5 DEF Absent, MoveTo, telemetry
    <2>2. l \in {"nvidia", "amd"} /\ s \in {"amd", "answering"}
      BY StageNames
    <2> HIDE DEF s
    <2>3. Reading' = Reading
      BY <2>1, <2>2, SlotKept DEF Telemetry
    <2>4. LockInv'
      BY <1>1, <2>1, <2>2, LocksKept
    <2> QED BY <1>1, <2>1, <2>3, <2>4
  <1>6. ASSUME NEW l \in DOMAIN Inside, Enter(w, l)
        PROVE  Held' /\ LockInv'
    <2>1. /\ stage[w] = l /\ slots' = slots /\ stage' = [stage EXCEPT ![w] = Inside[l]]
      BY <1>6 DEF Enter, MoveTo
    <2>2. Reading' = Reading
      BY <2>1, StageNames, SlotKept DEF Telemetry
    <2>3. LockInv'
      BY <1>1, <1>6, LocksOfEnter
    <2> QED BY <1>1, <2>1, <2>2, <2>3
  <1>7. ASSUME NEW l \in DOMAIN Inside, Leave(w, l)
        PROVE  Held' /\ LockInv'
    <2> DEFINE s == IF l = "nvidia" THEN "amd" ELSE "answering"
    <2>1. /\ stage[w] = Inside[l] /\ slots' = slots /\ leaks' = leaks
          /\ locks' = [locks EXCEPT ![l] = @ \ {w}]
          /\ stage' = [stage EXCEPT ![w] = s]
          /\ nvml' = (IF l = "nvidia" THEN nvml - 1 ELSE nvml)
      BY <1>7 DEF Leave, MoveTo
    <2>2. s \in {"amd", "answering"}
      OBVIOUS
    <2> HIDE DEF s
    <2>3. Reading' = Reading
      BY <2>1, <2>2, StageNames, SlotKept DEF Telemetry
    <2>4. s \in Stages /\ s \notin {"nvml", "bridge"}
      BY <2>2, StageNames DEF Telemetry
    <2>5. LockInv'
      BY <1>1, <2>1, <2>4, LocksOfLeave
    <2> QED BY <1>1, <2>1, <2>3, <2>5
  <1>8. ASSUME ShutdownFails(w) PROVE Held' /\ LockInv'
    <2>1. /\ stage[w] = Inside["nvidia"] /\ "nvidia" \in DOMAIN Inside
          /\ slots' = slots /\ leaks' = leaks + 1 /\ nvml' = nvml
          /\ locks' = [locks EXCEPT !["nvidia"] = @ \ {w}]
          /\ stage' = [stage EXCEPT ![w] = "amd"]
      BY <1>8, StageNames DEF ShutdownFails, MoveTo
    <2>2. Reading' = Reading
      BY <2>1, StageNames, SlotKept DEF Telemetry
    <2>3. "amd" \in Stages
      BY StageNames DEF Telemetry
    <2>4. LockInv'
      BY <1>1, <2>1, <2>3, LocksOfLeave
    <2> QED BY <1>1, <2>1, <2>2, <2>4
  <1>9. ASSUME EndReading(w) PROVE Held' /\ LockInv'
    <2>1. /\ stage[w] = "answering" /\ slots' = slots + 1
          /\ stage' = [stage EXCEPT ![w] = "idle"]
          /\ UNCHANGED <<locks, nvml, leaks>>
      BY <1>9 DEF EndReading, MoveTo
    <2>2. Cardinality(Reading') = Cardinality(Reading) - 1
      BY <2>1, SlotGiven DEF Telemetry
    <2>3. LockInv'
      BY <1>1, <2>1, LocksKept
    <2> QED BY <1>1, <2>1, <2>2, <2>3
  <1>10. Held' /\ LockInv'
    BY <1>2, <1>3, <1>4, <1>5, <1>6, <1>7, <1>8, <1>9 DEF Inform
  <1> QED BY <1>10 DEF SlotsAreReturned, LockInv

(* Reading leaves the keyboard, and whoever types, alone. *)
LEMMA TypeOfInform ==
  ASSUME ExecutionTypeOK, SlotsAreReturned, NEW w \in Workers, Inform(w)
  PROVE  /\ UNCHANGED keyboard
         /\ ExecutionTypeOK'
         /\ \A v \in Typing' : v \in Typing /\ stage'[v] = stage[v]
         /\ Typing' = Typing
  <1> USE DEF ExecutionTypeOK
  <1>1. UNCHANGED keyboard
    BY DEF Inform, StartReading, Busy, Sample, Absent, Enter, Leave, ShutdownFails,
           EndReading, vars
  <1>2. \E s \in Stages \ {"pressing", "releasing"} :
          stage[w] \notin {"pressing", "releasing"} /\ stage' = [stage EXCEPT ![w] = s]
    BY StageNames DEF Inform, StartReading, Busy, Sample, Absent, Enter, Leave,
       ShutdownFails, EndReading, vars, MoveTo, Telemetry
  <1>3. /\ Typing' = Typing /\ stage' \in [Workers -> Stages]
        /\ \A v \in Typing' : v \in Typing /\ stage'[v] = stage[v]
    BY <1>2 DEF Typing
  <1>4. slots' \in Nat
    BY DEF Inform, StartReading, Busy, Sample, Absent, Enter, Leave, ShutdownFails,
           EndReading, vars, telemetry
  <1>5. locks' \in [DOMAIN Inside -> SUBSET Workers]
    <2>1. ASSUME NEW l \in DOMAIN Inside, Enter(w, l)
          PROVE  locks' \in [DOMAIN Inside -> SUBSET Workers]
      BY <2>1 DEF Enter
    <2>2. ASSUME NEW l \in DOMAIN Inside, Leave(w, l)
          PROVE  locks' \in [DOMAIN Inside -> SUBSET Workers]
      BY <2>2 DEF Leave
    <2>3. ASSUME ShutdownFails(w)
          PROVE  locks' \in [DOMAIN Inside -> SUBSET Workers]
      BY <2>3, StageNames DEF ShutdownFails
    <2>4. \/ locks' = locks
          \/ \E l \in DOMAIN Inside : Enter(w, l) \/ Leave(w, l)
          \/ ShutdownFails(w)
      BY DEF Inform, StartReading, Busy, Sample, Absent, EndReading, vars, telemetry
    <2> QED BY <2>1, <2>2, <2>3, <2>4
  <1>6. leaks' \in 0..MaxLeaks
    BY ExecutionAssumption DEF Inform, StartReading, Busy, Sample, Absent, Enter, Leave,
       ShutdownFails, EndReading, vars, telemetry
  <1>7. nvml' \in Nat
    <2>1. locks'["nvidia"] \subseteq Workers
      BY <1>5, StageNames
    <2>2. Cardinality(locks'.nvidia) \in Nat
      BY <2>1, ExecutionAssumption, FS_Subset, FS_CardinalityType
    <2>3. nvml' = leaks' + Cardinality(locks'.nvidia)
      BY SlotsOfInform DEF SlotsAreReturned
    <2> QED BY <1>6, <2>2, <2>3, ExecutionAssumption
  <1> QED BY <1>1, <1>3, <1>4, <1>5, <1>6, <1>7 DEF keyboard

-----------------------------------------------------------------------------
(* Every step.                                                             *)

ExecutionInv == ExecutionTypeOK /\ KeyInv /\ KeysAreOwed /\ SlotsAreReturned

LEMMA InvOfTyping ==
  ASSUME ExecutionInv, NEW w \in Workers, Type(w)
  PROVE  ExecutionInv'
  <1>1. ExecutionTypeOK' /\ KeyInv' /\ KeysAreOwed'
    BY TypeOfTyping, KeysOfTyping DEF ExecutionInv
  <1>2. UNCHANGED telemetry
    BY DEF Type, StartTyping, Press, PressFails, Release, ReleaseFails, EndTyping
  <1>3. \A v \in Workers :
          stage'[v] = stage[v] \/ (stage[v] \notin Telemetry /\ stage'[v] \notin Telemetry)
    BY StageNames DEF ExecutionInv, ExecutionTypeOK, Type, StartTyping, Press, PressFails,
       Release, ReleaseFails, EndTyping, MoveTo, Telemetry
  <1>4. Reading' = Reading
    BY <1>3 DEF Reading
  <1>5. \A l \in DOMAIN Inside : Inside[l] \in Telemetry
    BY StageNames DEF Telemetry
  <1>6. \A l \in DOMAIN Inside : {v \in Workers : stage'[v] = Inside[l]}
                                = {v \in Workers : stage[v] = Inside[l]}
    BY <1>3, <1>5
  <1>7. SlotsAreReturned'
    BY <1>2, <1>4, <1>6 DEF ExecutionInv, SlotsAreReturned, telemetry
  <1> QED BY <1>1, <1>7 DEF ExecutionInv

LEMMA InvOfInform ==
  ASSUME ExecutionInv, NEW w \in Workers, Inform(w)
  PROVE  ExecutionInv'
  <1>1. /\ ExecutionTypeOK' /\ Typing' = Typing /\ SlotsAreReturned'
        /\ \A v \in Typing' : stage'[v] = stage[v]
        /\ chord' = chord /\ held' = held /\ down' = down /\ stuck' = stuck /\ met' = met
    BY TypeOfInform, SlotsOfInform DEF ExecutionInv, keyboard
  <1>2. \A v \in Typing' : Prefix(v) => Prefix(v)'
    BY <1>1 DEF Prefix
  <1>3. KeyInv' /\ KeysAreOwed'
    BY <1>1, <1>2 DEF ExecutionInv, KeyInv, KeysAreOwed
  <1> QED BY <1>1, <1>3 DEF ExecutionInv

LEMMA InvOfRestart ==
  ASSUME ExecutionInv, Restart
  PROVE  ExecutionInv'
  <1>1. Typing' = {} /\ Reading' = {}
    BY DEF Restart, Typing, Reading, Telemetry
  <1>2. KeyInv' /\ KeysAreOwed'
    BY <1>1 DEF Restart, KeyInv, KeysAreOwed
  <1>3. ExecutionTypeOK'
    BY ExecutionAssumption, StageNames DEF Restart, ExecutionInv, ExecutionTypeOK
  <1>4. \A l \in DOMAIN Inside : {v \in Workers : stage'[v] = Inside[l]} = {}
    BY StageNames DEF Restart
  <1>5. locks'.nvidia = {} /\ Cardinality({}) = 0
    BY StageNames, FS_EmptySet DEF Restart
  <1>6. /\ slots' = MaxSlots /\ nvml' = 0 /\ leaks' = 0
        /\ \A l \in DOMAIN Inside : locks'[l] = {}
        /\ Cardinality(Reading') = 0
    BY <1>1, <1>5 DEF Restart
  <1>7. SlotsAreReturned'
    BY <1>4, <1>5, <1>6, ExecutionAssumption DEF SlotsAreReturned
  <1> QED BY <1>2, <1>3, <1>7 DEF ExecutionInv

LEMMA Invariance == Spec => []ExecutionInv
  <1>1. Init => ExecutionInv
    BY Initially, SlotsInitially DEF ExecutionInv
  <1>2. ExecutionInv /\ [Next]_vars => ExecutionInv'
    <2> SUFFICES ASSUME ExecutionInv, [Next]_vars PROVE ExecutionInv'
      OBVIOUS
    <2>1. ASSUME NEW w \in Workers, Type(w) PROVE ExecutionInv'
      BY <2>1, InvOfTyping
    <2>2. ASSUME NEW w \in Workers, Inform(w) PROVE ExecutionInv'
      BY <2>2, InvOfInform
    <2>3. CASE Restart
      BY <2>3, InvOfRestart
    <2>4. CASE UNCHANGED vars
      BY <2>4 DEF vars, keyboard, telemetry, ExecutionInv, ExecutionTypeOK, KeyInv, Prefix,
                  Typing, Reading, KeysAreOwed, SlotsAreReturned
    <2> QED BY <2>1, <2>2, <2>3, <2>4 DEF Next
  <1> QED BY <1>1, <1>2, PTL DEF Spec

(* Every variable of ActionExecution keeps its type. *)
THEOREM ExecutionTypeCorrect == Spec => []ExecutionTypeOK
  <1>1. ExecutionInv => ExecutionTypeOK
    BY DEF ExecutionInv
  <1> QED BY <1>1, Invariance, PTL

(* Whatever presses and releases fail, whichever chords cross and wherever *)
(* the process ends, a key that is down is owed a release, or its release  *)
(* failed, or its process has ended (actions.py:161).                      *)
THEOREM NoKeyIsForgotten == Spec => []KeysAreOwed
  <1>1. ExecutionInv => KeysAreOwed
    BY DEF ExecutionInv
  <1> QED BY <1>1, Invariance, PTL

(* A chord's primary key is held beneath all of its modifiers, which only  *)
(* a chord that was executed at the same time and has the same key can     *)
(* have taken away (actions.py:170).                                       *)
THEOREM ChordsStayWhole == Spec => []ChordsAreWhole
  <1>1. ASSUME ExecutionTypeOK, KeyInv PROVE ChordsAreWhole
    <2> SUFFICES ASSUME NEW w \in Typing, Primary(chord[w]) \in KeysOf(held[w])
                 PROVE  /\ KeysOf(held[w]) = KeysOf(chord[w])
                        /\ KeysOf(chord[w]) \subseteq down \cup met[w]
      BY DEF ChordsAreWhole
    <2>1. w \in Workers /\ Prefix(w) /\ KeysOf(held[w]) \subseteq down \cup met[w]
      BY <1>1 DEF KeyInv, Typing
    <2>2. /\ chord[w] \in Seq(Keys) /\ Len(chord[w]) \in Nat \ {0}
          /\ Primary(chord[w]) = chord[w][Len(chord[w])]
          /\ \A i, j \in 1..Len(chord[w]) : chord[w][i] = chord[w][j] => i = j
      BY <2>1, ChordFacts DEF Prefix
    <2>3. held[w] \in Seq(Keys) /\ Len(held[w]) \in Nat /\ Len(held[w]) <= Len(chord[w])
          /\ \A i \in 1..Len(held[w]) : held[w][i] = chord[w][i]
      BY <1>1, <2>1 DEF ExecutionTypeOK, Prefix
    <2>4. /\ KeysOf(held[w]) = {held[w][i] : i \in 1..Len(held[w])}
          /\ KeysOf(chord[w]) = {chord[w][i] : i \in 1..Len(chord[w])}
      BY <2>2, <2>3, KeysByIndex
    <2>5. PICK i \in 1..Len(held[w]) : held[w][i] = Primary(chord[w])
      BY <2>4
    <2>6. Len(held[w]) = Len(chord[w])
      BY <2>2, <2>3, <2>5
    <2> QED BY <2>1, <2>3, <2>4, <2>6
  <1>2. ExecutionInv => ChordsAreWhole
    BY <1>1 DEF ExecutionInv
  <1> QED BY <1>2, Invariance, PTL

(* No slot or lock is lost or returned twice, and NVML is shut down as     *)
(* often as it is initialised, but for shutdowns that failed               *)
(* (actions.py:277, gpu_telemetry.py:64).                                  *)
THEOREM SlotsComeBack == Spec => []SlotsAreReturned
  <1>1. ExecutionInv => SlotsAreReturned
    BY DEF ExecutionInv
  <1> QED BY <1>1, Invariance, PTL
=============================================================================
