---------------------------- MODULE LimiterProofs ----------------------------
(***************************************************************************)
(* Proofs about RateLimiter as PairingRoutes uses it: the tables stay      *)
(* bounded in whatever order the lock is taken, and no origin gets more    *)
(* claims admitted in a window than max_attempts, for every number of      *)
(* requests and origins and every limit, window and lag.                   *)
(*                                                                         *)
(* Recent is defined by recursion over the attempts of an origin.  What it *)
(* returns is proved by induction on the length of the prefix, stated for  *)
(* sets of numbers and derived from the well-foundedness of <.             *)
(***************************************************************************)
EXTENDS PairingProofs, FiniteSetTheorems, WellFoundedInduction

-----------------------------------------------------------------------------
(* Induction over the natural numbers. *)
LEMMA Induction ==
  ASSUME NEW S, 0 \in S, \A n \in Nat : n \in S => n + 1 \in S
  PROVE  Nat \subseteq S
<1> DEFINE Out == Nat \ S
           R == OpToRel(<, Nat)
<1>1. IsWellFoundedOn(R, Nat)
  BY NatLessThanWellFounded
<1>2. \A n, m \in Nat : m < n => <<m, n>> \in R
  BY DEF OpToRel
<1>3. ASSUME Out # {} PROVE FALSE
  <2> HIDE DEF R
  <2>1. Out \subseteq Nat
    OBVIOUS
  <2> HIDE DEF Out
  <2>2. PICK n \in Out : \A m \in Out : ~(<<m, n>> \in R)
    BY <1>1, <1>3, <2>1, WFMin
  <2>3. n \in Nat /\ n # 0 /\ n \notin S
    BY <2>1 DEF Out
  <2>4. n - 1 \in Nat /\ n - 1 < n /\ n = (n - 1) + 1
    BY <2>3
  <2>5. n - 1 \notin Out
    BY <1>2, <2>2, <2>3, <2>4
  <2>6. n - 1 \in S
    BY <2>4, <2>5 DEF Out
  <2>7. QED BY <2>3, <2>4, <2>6
<1>4. QED BY <1>3

-----------------------------------------------------------------------------
(* What Recent returns.                                                    *)

(* kept[i] is the first i attempts filtered. *)
Filters(ages, lag, n, kept) ==
  kept = [i \in 0..n |->
            IF i = 0 THEN <<>>
            ELSE IF ages[i] - lag < Window THEN Append(kept[i - 1], ages[i])
            ELSE kept[i - 1]]

(* The recursion of Recent has a solution. *)
LEMMA RecentFilters ==
  ASSUME NEW T, NEW ages \in Seq(T), NEW lag
  PROVE  \E kept : Filters(ages, lag, Len(ages), kept) /\ Recent(ages, lag) = kept[Len(ages)]
<1> DEFINE S == {n \in Nat : \E kept : Filters(ages, lag, n, kept)}
<1>1. 0 \in S
  <2> DEFINE kept == [i \in 0..0 |-> <<>>]
  <2>1. Filters(ages, lag, 0, kept)
    BY DEF Filters
  <2>2. QED BY <2>1
<1>2. ASSUME NEW n \in Nat, n \in S PROVE n + 1 \in S
  <2>1. PICK kept : Filters(ages, lag, n, kept)
    BY <1>2
  <2> DEFINE next == IF ages[n + 1] - lag < Window THEN Append(kept[n], ages[n + 1]) ELSE kept[n]
             more == [i \in 0..(n + 1) |-> IF i = n + 1 THEN next ELSE kept[i]]
  <2>2. \A i \in 0..n : kept[i] = IF i = 0 THEN <<>>
                          ELSE IF ages[i] - lag < Window THEN Append(kept[i - 1], ages[i])
                          ELSE kept[i - 1]
    BY <2>1 DEF Filters
  <2>3. /\ more[n + 1] = next
        /\ \A i \in 0..n : more[i] = kept[i]
    OBVIOUS
  <2> HIDE DEF next
  <2>4. \A i \in 0..(n + 1) :
          more[i] = IF i = 0 THEN <<>>
                    ELSE IF ages[i] - lag < Window THEN Append(more[i - 1], ages[i])
                    ELSE more[i - 1]
    <3> SUFFICES ASSUME NEW i \in 0..(n + 1)
                 PROVE  more[i] = IF i = 0 THEN <<>>
                                  ELSE IF ages[i] - lag < Window THEN Append(more[i - 1], ages[i])
                                  ELSE more[i - 1]
      OBVIOUS
    <3> HIDE DEF more
    <3>1. CASE i = n + 1
      BY <2>3, <3>1 DEF next
    <3>2. CASE i \in 0..n
      <4>1. i # 0 => i - 1 \in 0..n
        BY <3>2
      <4>2. QED BY <2>2, <2>3, <3>2, <4>1
    <3>3. QED BY <3>1, <3>2
  <2>5. Filters(ages, lag, n + 1, more)
    BY <2>4 DEF Filters
  <2>6. QED BY <2>5
<1>3. Len(ages) \in S
  <2> HIDE DEF S
  <2>1. QED BY <1>1, <1>2, Induction
<1>4. QED BY <1>3 DEF Recent, Filters

LEMMA Members ==
  ASSUME NEW S, NEW list \in Seq(S)
  PROVE  Len(list) \in Nat /\ \A i \in 1..Len(list) : list[i] \in S
OBVIOUS

(* How many of the first n ages are below a bound, and how many of all. *)
BelowTo(ages, n, b) == Cardinality({i \in 1..n : ages[i] < b})
Below(ages, b) == BelowTo(ages, Len(ages), b)

(* The times were decided in their order. *)
Descends(ages) == \A i, j \in 1..Len(ages) : i < j => ages[j] <= ages[i]

LEMMA BelowNone ==
  ASSUME NEW ages, NEW b, NEW n \in Nat, \A i \in 1..n : ~(ages[i] < b)
  PROVE  BelowTo(ages, n, b) = 0
<1>1. {i \in 1..n : ages[i] < b} = {}
  OBVIOUS
<1>2. QED BY <1>1, FS_EmptySet DEF BelowTo

LEMMA BelowAll ==
  ASSUME NEW ages, NEW b, NEW n \in Nat, \A i \in 1..n : ages[i] < b
  PROVE  BelowTo(ages, n, b) = n
<1>1. {i \in 1..n : ages[i] < b} = 1..n
  OBVIOUS
<1>2. Cardinality(1..n) = n
  BY FS_Interval
<1>3. QED BY <1>1, <1>2 DEF BelowTo

LEMMA BelowSame ==
  ASSUME NEW ages, NEW more, NEW b, NEW n \in Nat, \A i \in 1..n : more[i] = ages[i]
  PROVE  BelowTo(more, n, b) = BelowTo(ages, n, b)
<1>1. {i \in 1..n : more[i] < b} = {i \in 1..n : ages[i] < b}
  OBVIOUS
<1>2. QED BY <1>1 DEF BelowTo

(* One age more. *)
LEMMA BelowNext ==
  ASSUME NEW ages, NEW b, NEW n \in Nat
  PROVE  /\ BelowTo(ages, n, b) \in Nat
         /\ BelowTo(ages, n + 1, b) = BelowTo(ages, n, b) + (IF ages[n + 1] < b THEN 1 ELSE 0)
<1> DEFINE old == {i \in 1..n : ages[i] < b}
           new == {i \in 1..(n + 1) : ages[i] < b}
<1>1. IsFiniteSet(old) /\ Cardinality(old) \in Nat
  <2>1. IsFiniteSet(1..n) /\ old \in SUBSET (1..n)
    BY FS_Interval
  <2> HIDE DEF old
  <2>2. QED BY <2>1, FS_Subset, FS_CardinalityType
<1>2. n + 1 \notin old
  OBVIOUS
<1>3. CASE ages[n + 1] < b
  <2>1. new = old \union {n + 1}
    BY <1>3
  <2>2. BelowTo(ages, n, b) = Cardinality(old) /\ BelowTo(ages, n + 1, b) = Cardinality(new)
    BY DEF BelowTo
  <2> HIDE DEF old, new
  <2>3. Cardinality(new) = Cardinality(old) + 1
    BY <1>1, <1>2, <2>1, FS_AddElement
  <2>4. QED BY <1>1, <1>3, <2>2, <2>3
<1>4. CASE ~(ages[n + 1] < b)
  <2>1. new = old
    BY <1>4
  <2>2. BelowTo(ages, n, b) = Cardinality(old) /\ BelowTo(ages, n + 1, b) = Cardinality(old)
    BY <2>1 DEF BelowTo
  <2> HIDE DEF old
  <2>3. QED BY <1>1, <1>4, <2>2
<1>5. QED BY <1>3, <1>4

(* The attempts Recent keeps: those in the window, no more than there were, *)
(* in their order, none of them lost.                                      *)
LEMMA RecentKeeps ==
  ASSUME NEW T \in SUBSET Int, NEW ages \in Seq(T), NEW lag \in Int
  PROVE  /\ Recent(ages, lag) \in Seq(T)
         /\ Len(Recent(ages, lag)) <= Len(ages)
         /\ \A i \in 1..Len(Recent(ages, lag)) : Recent(ages, lag)[i] - lag < Window
         /\ Descends(ages) => Descends(Recent(ages, lag))
         /\ \A b \in Int : b <= Window + lag => Below(Recent(ages, lag), b) = Below(ages, b)
<1>0. Window \in Nat
  BY RateAssumption
<1>1. PICK kept : Filters(ages, lag, Len(ages), kept) /\ Recent(ages, lag) = kept[Len(ages)]
  BY RecentFilters
<1> DEFINE N == Len(ages)
           Shape(n) ==
             /\ kept[n] \in Seq(T)
             /\ Len(kept[n]) <= n
             /\ \A i \in 1..Len(kept[n]) : /\ kept[n][i] - lag < Window
                                          /\ \E k \in 1..n : kept[n][i] = ages[k]
           Order(n) == Descends(ages) => Descends(kept[n])
           Count(n) == \A b \in Int : b <= Window + lag
                         => Below(kept[n], b) = BelowTo(ages, n, b)
           S == {n \in Nat : n <= N => Shape(n) /\ Order(n) /\ Count(n)}
<1>2. /\ kept[0] = <<>>
      /\ \A n \in 1..N : kept[n] = IF ages[n] - lag < Window THEN Append(kept[n - 1], ages[n])
                                    ELSE kept[n - 1]
  <2>1. N \in Nat /\ 0 \in 0..N /\ \A n \in 1..N : n \in 0..N /\ n # 0
    OBVIOUS
  <2>2. kept = [i \in 0..N |->
                  IF i = 0 THEN <<>>
                  ELSE IF ages[i] - lag < Window THEN Append(kept[i - 1], ages[i])
                  ELSE kept[i - 1]]
    BY <1>1 DEF Filters
  <2> HIDE DEF N
  <2>3. kept[0] = <<>>
    BY <2>1, <2>2
  <2>4. ASSUME NEW n \in 1..N
        PROVE  kept[n] = IF ages[n] - lag < Window THEN Append(kept[n - 1], ages[n])
                         ELSE kept[n - 1]
    BY <2>1, <2>2
  <2>5. QED BY <2>3, <2>4
<1>3. \A n \in 1..N : ages[n] \in T
  OBVIOUS
<1>4. 0 \in S
  <2>1. Shape(0) /\ Order(0)
    BY <1>2 DEF Descends
  <2>2. Count(0)
    BY <1>2, BelowNone DEF Below
  <2>3. QED BY <2>1, <2>2
<1>5. ASSUME NEW n \in Nat, n \in S, n + 1 <= N PROVE Shape(n + 1) /\ Order(n + 1) /\ Count(n + 1)
  <2> DEFINE f == kept[n]
             a == ages[n + 1]
             g == kept[n + 1]
  <2>1. Shape(n) /\ Order(n) /\ Count(n)
    BY <1>5
  <2>2. /\ a \in T /\ a \in Int /\ f \in Seq(T) /\ Len(f) \in Nat /\ Len(f) <= n
        /\ g = IF a - lag < Window THEN Append(f, a) ELSE f
    <3>1. n + 1 \in 1..N /\ (n + 1) - 1 = n
      BY <1>5
    <3>2. g = IF a - lag < Window THEN Append(f, a) ELSE f
      BY <1>2, <3>1
    <3>3. a \in T /\ a \in Int
      BY <1>3, <3>1
    <3>4. QED BY <2>1, <3>2, <3>3
  <2>3. CASE a - lag < Window
    <3>1. /\ g \in Seq(T) /\ Len(g) = Len(f) + 1 /\ g[Len(f) + 1] = a
          /\ \A i \in 1..Len(f) : g[i] = f[i]
      BY <2>2, <2>3
    <3> HIDE DEF f, a, g
    <3>2. Shape(n + 1)
      <4>1. \A i \in 1..Len(f) : /\ g[i] - lag < Window
                                 /\ \E k \in 1..(n + 1) : g[i] = ages[k]
        <5> TAKE i \in 1..Len(f)
        <5>1. f[i] - lag < Window /\ g[i] = f[i]
          BY <2>1, <3>1 DEF f
        <5>2. PICK k \in 1..n : f[i] = ages[k]
          BY <2>1 DEF f
        <5>3. k \in 1..(n + 1)
          OBVIOUS
        <5>4. QED BY <5>1, <5>2, <5>3
      <4>2. g[Len(f) + 1] - lag < Window /\ \E k \in 1..(n + 1) : g[Len(f) + 1] = ages[k]
        BY <2>3, <3>1 DEF a
      <4>3. \A i \in 1..Len(g) : i \in 1..Len(f) \/ i = Len(f) + 1
        BY <2>2, <3>1
      <4>4. Len(g) <= n + 1
        BY <2>2, <3>1
      <4>5. QED BY <3>1, <4>1, <4>2, <4>3, <4>4 DEF g
    <3>3. Order(n + 1)
      <4> SUFFICES ASSUME Descends(ages), NEW i \in 1..Len(g), NEW j \in 1..Len(g), i < j
                   PROVE  g[j] <= g[i]
        BY DEF Descends, g
      <4>1. i \in 1..Len(f) /\ g[i] = f[i]
        BY <2>2, <3>1
      <4>2. CASE j = Len(f) + 1
        <5>1. PICK k \in 1..n : f[i] = ages[k]
          BY <2>1, <4>1 DEF f
        <5>2. ages[n + 1] <= ages[k]
          BY <1>5, <5>1 DEF Descends
        <5>3. QED BY <3>1, <4>1, <4>2, <5>1, <5>2 DEF a
      <4>3. CASE j \in 1..Len(f)
        <5>1. f[j] <= f[i]
          BY <2>1, <4>1, <4>3 DEF Descends, f
        <5>2. QED BY <3>1, <4>1, <4>3, <5>1
      <4>4. QED BY <2>2, <3>1, <4>2, <4>3
    <3>4. Count(n + 1)
      <4> SUFFICES ASSUME NEW b \in Int, b <= Window + lag
                   PROVE  Below(g, b) = BelowTo(ages, n + 1, b)
        BY DEF g
      <4>1. Below(g, b) = BelowTo(f, Len(f), b) + (IF a < b THEN 1 ELSE 0)
        <5> DEFINE k == Len(f)
        <5>1. k \in Nat /\ \A i \in 1..k : g[i] = f[i]
          BY <2>2, <3>1
        <5> HIDE DEF k
        <5>2. BelowTo(g, k + 1, b) = BelowTo(g, k, b) + (IF g[k + 1] < b THEN 1 ELSE 0)
          BY <5>1, BelowNext
        <5>3. BelowTo(g, k, b) = BelowTo(f, k, b)
          BY <5>1, BelowSame
        <5>4. QED BY <3>1, <5>2, <5>3 DEF Below, k
      <4>2. BelowTo(ages, n + 1, b) = BelowTo(ages, n, b) + (IF a < b THEN 1 ELSE 0)
        BY BelowNext DEF a
      <4>3. BelowTo(f, Len(f), b) = BelowTo(ages, n, b)
        BY <2>1 DEF Below, f
      <4>4. QED BY <4>1, <4>2, <4>3
    <3>5. QED BY <3>2, <3>3, <3>4
  <2>4. CASE ~(a - lag < Window)
    <3>1. g = f
      BY <2>2, <2>4
    <3>2. Shape(n + 1)
      BY <2>1, <2>2, <3>1
    <3>3. Order(n + 1)
      BY <2>1, <3>1
    <3>4. Count(n + 1)
      <4> SUFFICES ASSUME NEW b \in Int, b <= Window + lag
                   PROVE  Below(f, b) = BelowTo(ages, n + 1, b)
        BY <3>1
      <4>1. ~(a < b)
        BY <1>0, <2>2, <2>4
      <4>2. BelowTo(ages, n, b) \in Nat /\ BelowTo(ages, n + 1, b) = BelowTo(ages, n, b)
        <5> HIDE DEF a
        <5>1. /\ BelowTo(ages, n, b) \in Nat
              /\ BelowTo(ages, n + 1, b) = BelowTo(ages, n, b) + (IF a < b THEN 1 ELSE 0)
          BY BelowNext DEF a
        <5>2. QED BY <4>1, <5>1
      <4>3. QED BY <2>1, <4>2
    <3>5. QED BY <3>2, <3>3, <3>4
  <2>5. QED BY <2>3, <2>4
<1>6. \A n \in Nat : n \in S => n + 1 \in S
  <2> SUFFICES ASSUME NEW n \in Nat, n \in S PROVE n + 1 \in S
    OBVIOUS
  <2>1. n + 1 <= N => Shape(n + 1) /\ Order(n + 1) /\ Count(n + 1)
    BY <1>5
  <2> HIDE DEF Shape, Order, Count
  <2>2. QED BY <2>1
<1>7. N \in S
  <2> HIDE DEF S
  <2>1. QED BY <1>4, <1>6, Induction
<1>8. Shape(N) /\ Order(N) /\ Count(N)
  <2> HIDE DEF Shape, Order, Count
  <2>1. QED BY <1>7
<1>9. QED BY <1>1, <1>8 DEF Below

-----------------------------------------------------------------------------
(* What the passing of time does to the attempts of an origin.             *)
LEMMA OlderKeeps ==
  ASSUME NEW ages \in Seq(0..Oldest)
  PROVE  /\ Older(ages) \in Seq(0..Oldest)
         /\ Len(Older(ages)) = Len(ages)
         /\ Older(ages) = <<>> <=> ages = <<>>
         /\ Descends(ages) => Descends(Older(ages))
         /\ \A b \in 1..Window : Below(Older(ages), b) = Below(ages, b - 1)
         /\ Below(Older(ages), 0) = 0
<1>0. Oldest \in Nat /\ Window \in Nat /\ Window <= Oldest
  BY RateAssumption DEF Oldest
<1> DEFINE older == Older(ages)
<1>1. /\ older = [i \in 1..Len(ages) |-> IF ages[i] < Oldest THEN ages[i] + 1 ELSE Oldest]
      /\ Len(ages) \in Nat /\ \A i \in 1..Len(ages) : ages[i] \in 0..Oldest
  <2>1. DOMAIN ages = 1..Len(ages)
    OBVIOUS
  <2>2. older = [i \in 1..Len(ages) |-> IF ages[i] < Oldest THEN ages[i] + 1 ELSE Oldest]
    BY <2>1, Zenon DEF Older
  <2>3. Len(ages) \in Nat /\ \A i \in 1..Len(ages) : ages[i] \in 0..Oldest
    BY Members
  <2>4. QED BY <2>2, <2>3
<1>2. \A i \in 1..Len(ages) : /\ older[i] \in 0..Oldest
                              /\ older[i] = IF ages[i] < Oldest THEN ages[i] + 1 ELSE Oldest
  BY <1>0, <1>1
<1>3. older \in Seq(0..Oldest) /\ Len(older) = Len(ages)
  BY <1>1, <1>2
<1>4. older = <<>> <=> ages = <<>>
  BY <1>3
<1> HIDE DEF older
<1>5. Descends(ages) => Descends(older)
  BY <1>0, <1>1, <1>2, <1>3 DEF Descends
<1>6. ASSUME NEW b \in 1..Window PROVE Below(older, b) = Below(ages, b - 1)
  <2>1. \A i \in 1..Len(ages) : older[i] < b <=> ages[i] < b - 1
    BY <1>0, <1>1, <1>2
  <2>2. {i \in 1..Len(ages) : older[i] < b} = {i \in 1..Len(ages) : ages[i] < b - 1}
    BY <2>1
  <2>3. QED BY <1>3, <2>2 DEF Below, BelowTo
<1>7. Below(older, 0) = 0
  <2>1. \A i \in 1..Len(ages) : ~(older[i] < 0)
    BY <1>0, <1>2
  <2>2. QED BY <1>1, <1>3, <2>1, BelowNone DEF Below
<1>8. QED BY <1>3, <1>4, <1>5, <1>6, <1>7 DEF older

-----------------------------------------------------------------------------
(* The table of an origin against its history: in the order they were      *)
(* decided, and as many of every age below the window.                     *)
Matches(table, admitted) ==
  /\ Descends(table)
  /\ \A i \in 1..Len(admitted) : admitted[i] < Window
  /\ \A b \in 0..Window : Below(admitted, b) = Below(table, b)
  /\ Len(admitted) <= MaxAttempts

LEMMA MatchesNothing == Matches(<<>>, <<>>)
<1>1. \A b \in 0..Window : Below(<<>>, b) = Below(<<>>, b)
  OBVIOUS
<1>2. QED BY <1>1, RateAssumption DEF Matches, Descends

(* The last attempt expired: with it all others did. *)
LEMMA MatchesSwept ==
  ASSUME NEW table \in Seq(0..Oldest), NEW admitted, Matches(table, admitted), Stale(table, 0)
  PROVE  Matches(<<>>, admitted)
<1>0. Oldest \in Nat /\ Window \in Nat
  BY RateAssumption DEF Oldest
<1>1. \A i \in 1..Len(table) : table[i] \in Nat /\ table[i] >= Window
  <2>1. /\ Len(table) \in 1..Len(table) /\ table[Len(table)] >= Window
        /\ \A i \in 1..Len(table) : table[i] \in Nat /\ (i < Len(table) \/ i = Len(table))
    BY <1>0 DEF Stale
  <2>2. QED BY <1>0, <2>1 DEF Matches, Descends
<1>2. ASSUME NEW b \in 0..Window PROVE Below(admitted, b) = Below(<<>>, b)
  <2>1. \A i \in 1..Len(table) : ~(table[i] < b)
    BY <1>0, <1>1
  <2>2. Below(table, b) = 0
    BY <2>1, BelowNone DEF Below
  <2>3. Below(<<>>, b) = 0
    BY BelowNone DEF Below
  <2>4. QED BY <2>2, <2>3 DEF Matches
<1>3. Descends(<<>>)
  BY DEF Descends
<1>4. QED BY <1>2, <1>3 DEF Matches

LEMMA MatchesRecent ==
  ASSUME NEW table \in Seq(0..Oldest), NEW admitted, Matches(table, admitted)
  PROVE  Matches(Recent(table, 0), admitted)
<1>1. 0..Oldest \in SUBSET Int /\ Window \in Nat
  BY RateAssumption DEF Oldest
<1>2. /\ Descends(table) => Descends(Recent(table, 0))
      /\ \A b \in 0..Window : Below(Recent(table, 0), b) = Below(table, b)
  BY <1>1, RecentKeeps
<1>3. QED BY <1>2 DEF Matches

(* An attempt is admitted while the table has room. *)
LEMMA MatchesAdmitted ==
  ASSUME NEW table \in Seq(0..Oldest), NEW admitted \in Seq(0..Oldest),
         Matches(table, admitted), Len(Recent(table, 0)) < MaxAttempts
  PROVE  Matches(Append(Recent(table, 0), 0), Append(admitted, 0))
<1>0. /\ 0..Oldest \in SUBSET Int /\ Oldest \in Nat
      /\ Window \in Nat \ {0} /\ MaxAttempts \in Nat
  BY RateAssumption DEF Oldest
<1> DEFINE recent == Recent(table, 0)
           more == Append(recent, 0)
           also == Append(admitted, 0)
<1>1. /\ recent \in Seq(0..Oldest)
      /\ \A i \in 1..Len(recent) : recent[i] - 0 < Window
  BY <1>0, RecentKeeps
<1>2. Matches(recent, admitted)
  BY MatchesRecent
<1>3. /\ Len(recent) \in Nat /\ Len(admitted) \in Nat
      /\ \A i \in 1..Len(recent) : recent[i] \in Nat /\ recent[i] < Window
      /\ Len(more) = Len(recent) + 1 /\ more[Len(recent) + 1] = 0
      /\ \A i \in 1..Len(recent) : more[i] = recent[i]
      /\ Len(also) = Len(admitted) + 1 /\ also[Len(admitted) + 1] = 0
      /\ \A i \in 1..Len(admitted) : also[i] = admitted[i]
  <2> HIDE DEF recent
  <2>1. \A i \in 1..Len(recent) : recent[i] \in 0..Oldest
    BY <1>1, Members
  <2>2. \A i \in 1..Len(recent) : recent[i] \in Nat /\ recent[i] < Window
    BY <1>0, <1>1, <2>1
  <2>3. /\ Len(recent) \in Nat /\ Len(more) = Len(recent) + 1 /\ more[Len(recent) + 1] = 0
        /\ \A i \in 1..Len(recent) : more[i] = recent[i]
    BY <1>1
  <2>4. /\ Len(admitted) \in Nat /\ Len(also) = Len(admitted) + 1 /\ also[Len(admitted) + 1] = 0
        /\ \A i \in 1..Len(admitted) : also[i] = admitted[i]
    OBVIOUS
  <2>5. QED BY <2>2, <2>3, <2>4
<1> HIDE DEF recent, more, also
<1>4. Len(admitted) = Len(recent)
  <2>1. Below(admitted, Window) = Len(admitted)
    BY <1>2, <1>3, BelowAll DEF Below, Matches
  <2>2. Below(recent, Window) = Len(recent)
    BY <1>3, BelowAll DEF Below
  <2>3. QED BY <1>0, <1>2, <2>1, <2>2 DEF Matches
<1>5. Descends(more)
  <2> SUFFICES ASSUME NEW i \in 1..Len(more), NEW j \in 1..Len(more), i < j
               PROVE  more[j] <= more[i]
    BY DEF Descends
  <2>1. i \in 1..Len(recent) /\ (j \in 1..Len(recent) \/ j = Len(recent) + 1)
    BY <1>3
  <2>2. QED BY <1>2, <1>3, <2>1 DEF Matches, Descends
<1>6. \A i \in 1..Len(also) : also[i] < Window
  <2>1. \A i \in 1..Len(also) : i \in 1..Len(admitted) \/ i = Len(admitted) + 1
    BY <1>3
  <2>2. \A i \in 1..Len(admitted) : admitted[i] < Window
    BY <1>2 DEF Matches
  <2>3. also[Len(admitted) + 1] = 0 /\ 0 < Window
    BY <1>0, <1>3
  <2>4. \A i \in 1..Len(admitted) : also[i] = admitted[i]
    BY <1>3
  <2>5. \A i \in 1..Len(admitted) : also[i] < Window
    BY <2>2, <2>4
  <2>6. QED BY <2>1, <2>3, <2>5
<1>7. ASSUME NEW b \in 0..Window PROVE Below(also, b) = Below(more, b)
  <2> DEFINE one == IF 0 < b THEN 1 ELSE 0
             k == Len(recent)
  <2>1. /\ k \in Nat /\ more[k + 1] = 0 /\ also[k + 1] = 0
        /\ Len(more) = k + 1 /\ Len(also) = k + 1
        /\ \A i \in 1..k : more[i] = recent[i]
        /\ \A i \in 1..k : also[i] = admitted[i]
    BY <1>3, <1>4
  <2>2. BelowTo(recent, k, b) = BelowTo(admitted, k, b)
    BY <1>2, <1>4 DEF Matches, Below
  <2> HIDE DEF k
  <2>3. BelowTo(more, k + 1, b) = BelowTo(more, k, b) + one
    BY <2>1, BelowNext
  <2>4. BelowTo(also, k + 1, b) = BelowTo(also, k, b) + one
    BY <2>1, BelowNext
  <2>5. BelowTo(more, k, b) = BelowTo(recent, k, b)
    BY <2>1, BelowSame
  <2>6. BelowTo(also, k, b) = BelowTo(admitted, k, b)
    BY <2>1, BelowSame
  <2>7. QED BY <2>1, <2>2, <2>3, <2>4, <2>5, <2>6 DEF Below
<1>8. Len(also) <= MaxAttempts
  BY <1>0, <1>3, <1>4 DEF recent
<1>9. QED BY <1>5, <1>6, <1>7, <1>8 DEF Matches, more, also, recent

(* Time passes for both. *)
LEMMA MatchesOlder ==
  ASSUME NEW table \in Seq(0..Oldest), NEW admitted \in Seq(0..Oldest),
         Matches(table, admitted)
  PROVE  Matches(Older(table), Recent(Older(admitted), 0))
<1>0. /\ 0..Oldest \in SUBSET Int /\ Oldest \in Nat
      /\ Window \in Nat \ {0} /\ MaxAttempts \in Nat
  BY RateAssumption DEF Oldest
<1> DEFINE older == Older(admitted)
           kept == Recent(older, 0)
<1>1. /\ older \in Seq(0..Oldest) /\ Len(older) = Len(admitted)
      /\ \A b \in 1..Window : Below(older, b) = Below(admitted, b - 1)
      /\ Below(older, 0) = 0
  BY OlderKeeps
<1>2. /\ Descends(Older(table))
      /\ \A b \in 1..Window : Below(Older(table), b) = Below(table, b - 1)
      /\ Below(Older(table), 0) = 0
  BY OlderKeeps DEF Matches
<1> HIDE DEF older
<1>3. /\ kept \in Seq(0..Oldest) /\ Len(kept) <= Len(older)
      /\ \A i \in 1..Len(kept) : kept[i] - 0 < Window
      /\ \A b \in 0..Window : Below(kept, b) = Below(older, b)
  BY <1>0, <1>1, RecentKeeps
<1> HIDE DEF kept
<1>4. \A i \in 1..Len(kept) : kept[i] < Window
  <2>1. \A i \in 1..Len(kept) : kept[i] \in Int
    BY <1>0, <1>3
  <2>2. QED BY <1>0, <1>3, <2>1
<1>5. ASSUME NEW b \in 0..Window PROVE Below(kept, b) = Below(Older(table), b)
  <2>1. CASE b = 0
    BY <1>0, <1>1, <1>2, <1>3, <2>1
  <2>2. CASE b # 0
    <3>1. b \in 1..Window /\ b - 1 \in 0..Window
      BY <1>0, <2>2
    <3>2. QED BY <1>1, <1>2, <1>3, <3>1 DEF Matches
  <2>3. QED BY <2>1, <2>2
<1>6. Len(kept) <= MaxAttempts
  BY <1>0, <1>1, <1>3 DEF Matches
<1>7. QED BY <1>2, <1>4, <1>5, <1>6 DEF Matches, kept, older

-----------------------------------------------------------------------------
(* What the routes ask of the limiters: one decision or one reset in a     *)
(* step, and decisions about claims by the present clock.                  *)
LimiterStep ==
  \/ \E l \in Limiters, o \in Origins, lag \in 0..MaxLag :
        Allow(l, o, lag) /\ (l = "claims" => lag = 0)
  \/ \E l \in Limiters, o \in Origins : Reset(l, o)
  \/ AttemptsAge
  \/ UNCHANGED limiterVars

(* Only the synchronous handlers decide with a clock read before. *)
Decides == \A c \in Calls : calls[c].step = "decide" => calls[c].kind \in {"create", "bootstrap"}

LEMMA Asked ==
  ASSUME RoutesTypeOK, NEW l, NEW c \in Calls
  PROVE  /\ calls[c].origin \in Origins /\ calls[c].lag \in 0..MaxLag
         /\ Forgotten(l, calls[c].origin) => LimiterStep
BY DEF RoutesTypeOK, CallRecords, Forgotten, LimiterStep

(* A step of one request that leaves the others alone. *)
LEMMA DecidesKept ==
  ASSUME RoutesTypeOK, Decides, NEW c \in Calls, NEW call,
         calls' = [calls EXCEPT ![c] = call],
         call.step = "decide" => call.kind \in {"create", "bootstrap"}
  PROVE  Decides'
BY DEF RoutesTypeOK, Decides

LEMMA AnswerKeepsDecides ==
  ASSUME RoutesTypeOK, Decides, NEW c \in Calls, Answer(c)
  PROVE  Decides'
BY DecidesKept DEF Answer, Idle

LEMMA GoKeepsDecides ==
  ASSUME RoutesTypeOK, Decides, NEW c \in Calls, NEW step \in Steps \ {"decide"}, Go(c, step)
  PROVE  Decides'
<1>1. calls' = [calls EXCEPT ![c] = [calls[c] EXCEPT !.step = step]]
  BY DEF Go
<1>2. [calls[c] EXCEPT !.step = step].step = step
  BY DEF RoutesTypeOK, CallRecords
<1>3. QED BY <1>1, <1>2, DecidesKept

LEMMA StartAsks ==
  ASSUME RoutesTypeOK, Decides, NEW c \in Calls, Start(c)
  PROVE  LimiterStep /\ Decides'
<1> DEFINE Goal == LimiterStep /\ Decides'
<1> SUFFICES Goal
  OBVIOUS
<1>1. ASSUME NEW o \in Origins, NEW right \in BOOLEAN, StartCreate(c, o, right) PROVE Goal
  <2> DEFINE call == [Started("create", "decide", o) EXCEPT !.right = right]
  <2>1. call.kind = "create"
    BY DEF Started, Idle
  <2> HIDE DEF call
  <2>2. QED BY <1>1, <2>1, DecidesKept DEF StartCreate, LimiterStep, call
<1>2. ASSUME NEW o \in Origins, NEW s \in SessionIds, StartBootstrap(c, o, s) PROVE Goal
  <2> DEFINE call == [Started("bootstrap", "decide", o) EXCEPT !.session = s]
  <2>1. call.kind = "bootstrap"
    BY DEF Started, Idle
  <2> HIDE DEF call
  <2>2. QED BY <1>2, <2>1, DecidesKept DEF StartBootstrap, LimiterStep, call
<1>3. ASSUME NEW o \in Origins, NEW kind \in {"claim", "code"}, NEW d \in Clients,
             NEW s \in SessionIds \cup {NoSession}, NEW right \in BOOLEAN,
             StartClaim(c, kind, o, d, s, right)
      PROVE  Goal
  <2> DEFINE call == [Started(kind, IF kind = "claim" THEN "claim" ELSE "issue", o)
                        EXCEPT !.device = d, !.session = s, !.right = right]
  <2>1. call.step # "decide"
    BY DEF Started, Idle
  <2> HIDE DEF call
  <2>2. 0 \in 0..MaxLag
    BY RateAssumption
  <2>3. LimiterStep
    BY <1>3, <2>2 DEF StartClaim, Counted, LimiterStep
  <2>4. CASE calls' = [calls EXCEPT ![c] = call]
    BY <2>1, <2>3, <2>4, DecidesKept
  <2>5. CASE UNCHANGED calls
    BY <2>3, <2>5 DEF Decides
  <2>6. QED BY <1>3, <2>4, <2>5 DEF StartClaim, call
<1>4. QED BY <1>1, <1>2, <1>3 DEF Start

LEMMA StepAsks ==
  ASSUME RoutesTypeOK, Decides, NEW c \in Calls, Step(c)
  PROVE  LimiterStep /\ Decides'
<1> DEFINE Goal == LimiterStep /\ Decides'
<1> SUFFICES Goal
  OBVIOUS
<1>0. UNCHANGED limiterVars => LimiterStep
  BY DEF LimiterStep
<1>1. CASE DecideCall(c)
  <2>1. Limiter(calls[c].kind) # "claims"
    BY <1>1 DEF DecideCall, Decides, Limiter
  <2>2. LimiterStep
    BY <1>1, <2>1, Asked DEF DecideCall, Counted, LimiterStep
  <2>3. CASE calls' = [calls EXCEPT ![c].step = "work", ![c].lag = 0]
    <3> DEFINE call == [calls[c] EXCEPT !.step = "work", !.lag = 0]
    <3>1. calls' = [calls EXCEPT ![c] = call] /\ call.step = "work"
      BY <2>3 DEF RoutesTypeOK, CallRecords
    <3> HIDE DEF call
    <3>2. QED BY <2>2, <3>1, DecidesKept
  <2>4. CASE Answer(c)
    BY <2>2, <2>4, AnswerKeepsDecides
  <2>5. QED BY <1>1, <2>3, <2>4 DEF DecideCall
<1>2. CASE CreateDraws(c)
  <2> DEFINE call == [calls[c] EXCEPT !.step = "install", !.session = drawn + 1]
  <2>1. calls' = [calls EXCEPT ![c] = call] /\ call.step = "install"
    BY <1>2 DEF CreateDraws, RoutesTypeOK, CallRecords
  <2> HIDE DEF call
  <2>2. QED BY <1>2, <2>1, Asked, DecidesKept DEF CreateDraws
<1>3. CASE CreateUnavailable(c) \/ BootstrapFinishes(c) \/ ClaimFinishes(c)
  BY <1>3, Asked, AnswerKeepsDecides DEF CreateUnavailable, BootstrapFinishes, ClaimFinishes
<1>4. CASE CreateInstalls(c) \/ ClaimFails(c)
  BY <1>0, <1>4, AnswerKeepsDecides DEF CreateInstalls, ClaimFails
<1>5. CASE BootstrapLooksUp(c) \/ ClaimLooksUp(c) \/ ClaimIssues(c)
  <2>1. {"finish", "issue"} \subseteq Steps \ {"decide"}
    BY DEF Steps
  <2>2. UNCHANGED limiterVars /\ (Answer(c) \/ Go(c, "finish") \/ Go(c, "issue"))
    BY <1>5 DEF BootstrapLooksUp, ClaimLooksUp, ClaimIssues
  <2>3. QED BY <1>0, <2>1, <2>2, AnswerKeepsDecides, GoKeepsDecides
<1>6. QED BY <1>1, <1>2, <1>3, <1>4, <1>5 DEF Step

LEMMA NextAsks ==
  ASSUME RoutesTypeOK, Decides, [Next]_vars
  PROVE  LimiterStep /\ Decides'
<1>1. CASE Tick
  <2>1. Decides'
    BY <1>1 DEF Tick, Decides, RoutesTypeOK, CallRecords
  <2>2. QED BY <1>1, <2>1 DEF Tick, LimiterStep
<1>2. ASSUME NEW s \in SessionIds, Timer(s) PROVE LimiterStep /\ Decides'
  BY <1>2 DEF Timer, LimiterStep, Decides
<1>3. CASE UNCHANGED vars
  BY <1>3 DEF vars, LimiterStep, Decides
<1>4. QED BY <1>1, <1>2, <1>3, StartAsks, StepAsks DEF Next

-----------------------------------------------------------------------------
(* What a decision does to the tables. *)
LEMMA AllowRows ==
  ASSUME LimiterTypeOK, NEW l \in Limiters, NEW o \in Origins, NEW lag \in 0..MaxLag,
         Allow(l, o, lag)
  PROVE  LET table  == Swept(l, lag)
             recent == Recent(table[o], lag)
         IN  /\ table \in [Origins -> Seq(0..Oldest)]
             /\ \A p \in Origins : \/ table[p] = attempts[l][p]
                                   \/ table[p] = <<>> /\ Stale(attempts[l][p], lag)
             /\ recent \in Seq(0..Oldest) /\ Len(recent) <= Len(table[o])
             /\ lag \in 0..Oldest
             /\ LimiterTypeOK'
             /\ \A k \in Limiters \ {l} : attempts'[k] = attempts[k] /\ tries'[k] = tries[k]
             /\ \A p \in Origins \ {o} : attempts'[l][p] = table[p] /\ tries'[l][p] = tries[l][p]
             /\ \/ /\ NoRoom(table, o)
                   /\ attempts'[l][o] = table[o] /\ tries'[l][o] = tries[l][o]
                \/ /\ ~NoRoom(table, o) /\ Len(recent) < MaxAttempts
                   /\ attempts'[l][o] = Append(recent, lag)
                   /\ tries'[l][o] = Append(tries[l][o], lag)
                \/ /\ ~NoRoom(table, o)
                   /\ attempts'[l][o] = recent /\ tries'[l][o] = tries[l][o]
<1> DEFINE table  == Swept(l, lag)
           recent == Recent(table[o], lag)
           ages   == IF NoRoom(table, o) THEN table[o]
                     ELSE IF Admits(l, o, lag) THEN Append(recent, lag)
                     ELSE recent
<1>0. lag \in 0..Oldest /\ lag \in Int /\ 0..Oldest \in SUBSET Int
  BY RateAssumption DEF Oldest
<1>1. /\ attempts \in [Limiters -> [Origins -> Seq(0..Oldest)]]
      /\ tries \in [Limiters -> [Origins -> Seq(0..Oldest)]]
  BY DEF LimiterTypeOK
<1>2. /\ table \in [Origins -> Seq(0..Oldest)]
      /\ \A p \in Origins : \/ table[p] = attempts[l][p]
                            \/ table[p] = <<>> /\ Stale(attempts[l][p], lag)
  <2>1. \A p \in Origins : table[p] = IF Stale(attempts[l][p], lag) THEN <<>> ELSE attempts[l][p]
    BY DEF Swept
  <2>2. \A p \in Origins : attempts[l][p] \in Seq(0..Oldest) /\ <<>> \in Seq(0..Oldest)
    BY <1>1
  <2>3. table = [p \in Origins |-> table[p]]
    BY DEF Swept
  <2> HIDE DEF table
  <2>4. QED BY <2>1, <2>2, <2>3
<1>5. /\ attempts' = [attempts EXCEPT ![l] = [table EXCEPT ![o] = ages]]
      /\ tries' = IF Admits(l, o, lag)
                    THEN [tries EXCEPT ![l][o] = Append(@, lag)] ELSE tries
  <2> SUFFICES /\ attempts' = [attempts EXCEPT ![l] = [Swept(l, lag) EXCEPT ![o] =
                    IF NoRoom(Swept(l, lag), o) THEN Swept(l, lag)[o]
                    ELSE IF Admits(l, o, lag) THEN Append(Recent(Swept(l, lag)[o], lag), lag)
                    ELSE Recent(Swept(l, lag)[o], lag)]]
               /\ tries' = IF Admits(l, o, lag)
                             THEN [tries EXCEPT ![l][o] = Append(@, lag)] ELSE tries
    OBVIOUS
  <2>1. QED BY DEF Allow
<1> HIDE DEF table
<1>3. recent \in Seq(0..Oldest) /\ Len(recent) <= Len(table[o])
  BY <1>0, <1>2, RecentKeeps
<1>4. Admits(l, o, lag) <=> ~NoRoom(table, o) /\ Len(recent) < MaxAttempts
  BY DEF Admits, table
<1> HIDE DEF recent
<1>6. ages \in Seq(0..Oldest)
  <2>1. Append(recent, lag) \in Seq(0..Oldest)
    BY <1>0, <1>3
  <2>2. table[o] \in Seq(0..Oldest)
    BY <1>2
  <2>3. QED BY <1>3, <2>1, <2>2, Zenon
<1> HIDE DEF ages
<1>7. /\ attempts' \in [Limiters -> [Origins -> Seq(0..Oldest)]]
      /\ attempts'[l][o] = ages
      /\ \A p \in Origins \ {o} : attempts'[l][p] = table[p]
      /\ \A k \in Limiters \ {l} : attempts'[k] = attempts[k]
  BY <1>1, <1>2, <1>5, <1>6
<1>8. CASE Admits(l, o, lag)
  <2>1. tries' = [tries EXCEPT ![l][o] = Append(@, lag)]
    BY <1>5, <1>8
  <2>2. Append(tries[l][o], lag) \in Seq(0..Oldest)
    BY <1>0, <1>1
  <2>3. /\ tries' \in [Limiters -> [Origins -> Seq(0..Oldest)]]
        /\ tries'[l][o] = Append(tries[l][o], lag)
        /\ \A p \in Origins \ {o} : tries'[l][p] = tries[l][p]
        /\ \A k \in Limiters \ {l} : tries'[k] = tries[k]
    BY <1>1, <2>1, <2>2
  <2>4. ages = Append(recent, lag)
    BY <1>4, <1>8 DEF ages
  <2>5. QED BY <1>0, <1>2, <1>3, <1>4, <1>7, <1>8, <2>3, <2>4 DEF LimiterTypeOK, table, recent
<1>9. CASE ~Admits(l, o, lag)
  <2>1. tries' = tries
    BY <1>5, <1>9
  <2>2. ages = IF NoRoom(table, o) THEN table[o] ELSE recent
    BY <1>9 DEF ages
  <2>3. QED BY <1>0, <1>1, <1>2, <1>3, <1>7, <2>1, <2>2 DEF LimiterTypeOK, table, recent
<1>10. QED BY <1>8, <1>9

LEMMA ResetRows ==
  ASSUME LimiterTypeOK, NEW l \in Limiters, NEW o \in Origins, Reset(l, o)
  PROVE  /\ LimiterTypeOK'
         /\ attempts'[l][o] = <<>> /\ tries'[l][o] = <<>>
         /\ \A k \in Limiters, p \in Origins : k # l \/ p # o =>
              attempts'[k][p] = attempts[k][p] /\ tries'[k][p] = tries[k][p]
<1>1. /\ attempts \in [Limiters -> [Origins -> Seq(0..Oldest)]]
      /\ tries \in [Limiters -> [Origins -> Seq(0..Oldest)]]
      /\ <<>> \in Seq(0..Oldest)
  BY DEF LimiterTypeOK
<1>2. /\ attempts' = [attempts EXCEPT ![l][o] = <<>>]
      /\ tries' = [tries EXCEPT ![l][o] = <<>>]
  BY DEF Reset
<1>3. /\ attempts' \in [Limiters -> [Origins -> Seq(0..Oldest)]]
      /\ tries' \in [Limiters -> [Origins -> Seq(0..Oldest)]]
  BY <1>1, <1>2
<1>4. QED BY <1>1, <1>2, <1>3 DEF LimiterTypeOK

LEMMA AgeRows ==
  ASSUME LimiterTypeOK, AttemptsAge
  PROVE  /\ LimiterTypeOK'
         /\ \A l \in Limiters, o \in Origins :
              /\ attempts'[l][o] = Older(attempts[l][o])
              /\ tries'[l][o] = Recent(Older(tries[l][o]), 0)
<1>0. 0..Oldest \in SUBSET Int
  BY RateAssumption DEF Oldest
<1>1. \A l \in Limiters, o \in Origins :
        attempts[l][o] \in Seq(0..Oldest) /\ tries[l][o] \in Seq(0..Oldest)
  BY DEF LimiterTypeOK
<1>2. \A l \in Limiters, o \in Origins :
        /\ Older(attempts[l][o]) \in Seq(0..Oldest)
        /\ Older(tries[l][o]) \in Seq(0..Oldest)
  BY <1>1, OlderKeeps
<1>3. \A l \in Limiters, o \in Origins : Recent(Older(tries[l][o]), 0) \in Seq(0..Oldest)
  BY <1>0, <1>2, RecentKeeps
<1>4. QED BY <1>2, <1>3 DEF AttemptsAge, LimiterTypeOK

-----------------------------------------------------------------------------
(* The tables stay bounded. *)
TableInv == LimiterTypeOK /\ TablesBounded

LEMMA FewerStored ==
  ASSUME NEW table, NEW other, \A o \in Origins : table[o] # <<>> => other[o] # <<>>
  PROVE  /\ IsFiniteSet(Stored(table)) /\ Cardinality(Stored(table)) \in Nat
         /\ IsFiniteSet(Stored(other)) /\ Cardinality(Stored(other)) \in Nat
         /\ Cardinality(Stored(table)) <= Cardinality(Stored(other))
<1>1. Stored(table) \in SUBSET Stored(other) /\ Stored(other) \in SUBSET Origins
  BY DEF Stored
<1>2. IsFiniteSet(Stored(other))
  BY <1>1, RateAssumption, FS_Subset
<1>3. IsFiniteSet(Stored(table)) /\ Cardinality(Stored(table)) <= Cardinality(Stored(other))
  BY <1>1, <1>2, FS_Subset
<1>4. QED BY <1>2, <1>3, FS_CardinalityType

LEMMA TableInvKept ==
  ASSUME TableInv, LimiterStep
  PROVE  TableInv'
<1>0. /\ LimiterTypeOK /\ TablesBounded
      /\ MaxAttempts \in Nat \ {0} /\ MaxOrigins \in Nat \ {0}
      /\ \A l \in Limiters, o \in Origins : /\ attempts[l][o] \in Seq(0..Oldest)
                                            /\ Len(attempts[l][o]) \in Nat
  BY RateAssumption DEF TableInv, LimiterTypeOK
<1> DEFINE Rows(l) == /\ \A o \in Origins : Len(attempts'[l][o]) <= MaxAttempts
                      /\ Cardinality(Stored(attempts'[l])) <= MaxOrigins
<1> SUFFICES LimiterTypeOK' /\ \A l \in Limiters : Rows(l)
  BY DEF TableInv, TablesBounded
<1>1. ASSUME NEW l \in Limiters, NEW o \in Origins, NEW lag \in 0..MaxLag, Allow(l, o, lag)
      PROVE  LimiterTypeOK' /\ \A k \in Limiters : Rows(k)
  <2> DEFINE table  == Swept(l, lag)
             recent == Recent(table[o], lag)
  <2>1. /\ table \in [Origins -> Seq(0..Oldest)]
        /\ \A p \in Origins : table[p] = attempts[l][p] \/ table[p] = <<>>
        /\ recent \in Seq(0..Oldest) /\ Len(recent) <= Len(table[o])
        /\ lag \in 0..Oldest
        /\ LimiterTypeOK'
        /\ \A k \in Limiters \ {l} : attempts'[k] = attempts[k]
        /\ \A p \in Origins \ {o} : attempts'[l][p] = table[p]
        /\ \/ NoRoom(table, o) /\ attempts'[l][o] = table[o]
           \/ /\ ~NoRoom(table, o) /\ Len(recent) < MaxAttempts
              /\ attempts'[l][o] = Append(recent, lag)
           \/ ~NoRoom(table, o) /\ attempts'[l][o] = recent
    BY <1>0, <1>1, AllowRows
  <2> HIDE DEF table, recent
  <2>2. \A k \in Limiters \ {l} : Rows(k)
    BY <1>0, <2>1 DEF TablesBounded
  <2>3. \A p \in Origins : Len(table[p]) \in Nat /\ Len(table[p]) <= MaxAttempts
    <3>1. Len(<<>>) = 0 /\ 0 <= MaxAttempts
      BY <1>0
    <3>2. \A p \in Origins : Len(attempts[l][p]) \in Nat /\ Len(attempts[l][p]) <= MaxAttempts
      BY <1>0 DEF TablesBounded
    <3>3. QED BY <2>1, <3>1, <3>2
  <2>4. \A p \in Origins : Len(attempts'[l][p]) <= MaxAttempts
    <3>1. Len(attempts'[l][o]) <= MaxAttempts
      <4>1. Len(recent) \in Nat /\ Len(Append(recent, lag)) = Len(recent) + 1
        BY <2>1
      <4>2. QED BY <1>0, <2>1, <2>3, <4>1
    <3>2. QED BY <2>1, <2>3, <3>1
  <2>5. /\ Cardinality(Stored(table)) <= MaxOrigins
        /\ IsFiniteSet(Stored(table)) /\ Cardinality(Stored(table)) \in Nat
    <3>1. \A p \in Origins : table[p] # <<>> => attempts[l][p] # <<>>
      BY <2>1
    <3>2. Cardinality(Stored(attempts[l])) <= MaxOrigins /\ MaxOrigins \in Nat
      BY <1>0 DEF TablesBounded
    <3>3. /\ IsFiniteSet(Stored(table)) /\ Cardinality(Stored(table)) \in Nat
          /\ Cardinality(Stored(attempts[l])) \in Nat
          /\ Cardinality(Stored(table)) <= Cardinality(Stored(attempts[l]))
      BY <3>1, FewerStored
    <3>4. QED BY <3>2, <3>3
  <2>6. CASE NoRoom(table, o) \/ o \in Stored(table)
    <3>1. \A p \in Origins : attempts'[l][p] # <<>> => table[p] # <<>>
      BY <2>1, <2>6 DEF NoRoom, Stored
    <3>2. Cardinality(Stored(attempts'[l])) <= MaxOrigins
      BY <1>0, <2>5, <3>1, FewerStored
    <3>3. QED BY <2>1, <2>2, <2>4, <3>2
  <2>7. CASE ~NoRoom(table, o) /\ o \notin Stored(table)
    <3> DEFINE wider == [table EXCEPT ![o] = <<0>>]
    <3>1. Cardinality(Stored(table)) < MaxOrigins
      BY <1>0, <2>5, <2>7 DEF NoRoom
    <3>2. Stored(wider) = Stored(table) \cup {o}
      BY <2>1 DEF Stored
    <3>3. Cardinality(Stored(wider)) = Cardinality(Stored(table)) + 1
      BY <2>5, <2>7, <3>2, FS_AddElement
    <3>4. \A p \in Origins : attempts'[l][p] # <<>> => wider[p] # <<>>
      BY <2>1
    <3> HIDE DEF wider
    <3>5. Cardinality(Stored(attempts'[l])) <= MaxOrigins
      BY <1>0, <2>5, <3>1, <3>3, <3>4, FewerStored
    <3>6. QED BY <2>1, <2>2, <2>4, <3>5
  <2>8. QED BY <2>6, <2>7
<1>2. ASSUME NEW l \in Limiters, NEW o \in Origins, Reset(l, o)
      PROVE  LimiterTypeOK' /\ \A k \in Limiters : Rows(k)
  <2>1. /\ LimiterTypeOK'
        /\ \A k \in Limiters, p \in Origins :
             attempts'[k][p] = attempts[k][p] \/ attempts'[k][p] = <<>>
    BY <1>0, <1>2, ResetRows
  <2>2. ASSUME NEW k \in Limiters PROVE Rows(k)
    <3>1. \A p \in Origins : Len(attempts'[k][p]) <= MaxAttempts
      <4>1. Len(<<>>) = 0
        OBVIOUS
      <4>2. QED BY <1>0, <2>1, <4>1 DEF TablesBounded
    <3>2. \A p \in Origins : attempts'[k][p] # <<>> => attempts[k][p] # <<>>
      BY <2>1
    <3>3. Cardinality(Stored(attempts'[k])) <= MaxOrigins
      <4>1. Cardinality(Stored(attempts[k])) <= MaxOrigins /\ MaxOrigins \in Nat
        BY <1>0 DEF TablesBounded
      <4>2. /\ Cardinality(Stored(attempts'[k])) \in Nat
            /\ Cardinality(Stored(attempts[k])) \in Nat
            /\ Cardinality(Stored(attempts'[k])) <= Cardinality(Stored(attempts[k]))
        BY <3>2, FewerStored
      <4>3. QED BY <4>1, <4>2
    <3>4. QED BY <3>1, <3>3
  <2>3. QED BY <2>1, <2>2
<1>3. CASE AttemptsAge
  <2>1. /\ LimiterTypeOK'
        /\ \A k \in Limiters, p \in Origins : attempts'[k][p] = Older(attempts[k][p])
    BY <1>0, <1>3, AgeRows
  <2>2. \A k \in Limiters, p \in Origins :
          /\ Len(attempts'[k][p]) = Len(attempts[k][p])
          /\ attempts'[k][p] # <<>> => attempts[k][p] # <<>>
    BY <1>0, <2>1, OlderKeeps
  <2>3. ASSUME NEW k \in Limiters PROVE Rows(k)
    <3>1. \A p \in Origins : Len(attempts'[k][p]) <= MaxAttempts
      BY <1>0, <2>2 DEF TablesBounded
    <3>2. Cardinality(Stored(attempts'[k])) <= MaxOrigins
      BY <1>0, <2>2, FewerStored DEF TablesBounded
    <3>3. QED BY <3>1, <3>2
  <2>4. QED BY <2>1, <2>3
<1>4. CASE UNCHANGED limiterVars
  BY <1>0, <1>4 DEF limiterVars, LimiterTypeOK, TablesBounded
<1>5. QED BY <1>1, <1>2, <1>3, <1>4 DEF LimiterStep

(* No origin has more than max_attempts times in a limiter and no more     *)
(* than max_origins have any, in whatever order the threads that read the  *)
(* clock get the lock (rate_limit.py:33, :42).                             *)
THEOREM LimitersStayBounded == Spec => []TablesBounded
<1> DEFINE Inv == TableInv /\ Decides
<1>1. Init => Inv
  <2> SUFFICES ASSUME Init PROVE Inv
    OBVIOUS
  <2>1. Decides
    BY DEF Init, Decides, Idle
  <2>2. /\ attempts = [l \in Limiters |-> [o \in Origins |-> <<>>]]
        /\ tries = attempts /\ <<>> \in Seq(0..Oldest)
    BY DEF Init, LimitersInit
  <2>3. LimiterTypeOK
    BY <2>2 DEF LimiterTypeOK
  <2>4. ASSUME NEW l \in Limiters
        PROVE  /\ \A o \in Origins : Len(attempts[l][o]) <= MaxAttempts
               /\ Cardinality(Stored(attempts[l])) <= MaxOrigins
    <3>1. Stored(attempts[l]) = {}
      BY <2>2 DEF Stored
    <3>2. Cardinality({}) = 0 /\ Len(<<>>) = 0
      BY FS_EmptySet
    <3>3. QED BY <2>2, <3>1, <3>2, RateAssumption
  <2>5. QED BY <2>1, <2>3, <2>4 DEF TableInv, TablesBounded
<1>2. RoutesTypeOK /\ Inv /\ [Next]_vars => Inv'
  BY NextAsks, TableInvKept
<1>3. Inv => TablesBounded
  BY DEF TableInv
<1>4. QED BY <1>1, <1>2, <1>3, RoutesTypeCorrect, PTL DEF Spec

-----------------------------------------------------------------------------
(* Claims are decided by the present clock, so that their table keeps the  *)
(* order of the times: it holds what the history holds.                    *)
ClaimsInv ==
  "claims" \in Limiters => \A o \in Origins : Matches(attempts["claims"][o], tries["claims"][o])

LEMMA ClaimsInvKept ==
  ASSUME LimiterTypeOK, ClaimsInv, LimiterStep
  PROVE  ClaimsInv'
<1> SUFFICES ASSUME "claims" \in Limiters
             PROVE  \A p \in Origins : Matches(attempts'["claims"][p], tries'["claims"][p])
  BY DEF ClaimsInv
<1>0. \A p \in Origins : /\ attempts["claims"][p] \in Seq(0..Oldest)
                         /\ tries["claims"][p] \in Seq(0..Oldest)
                         /\ Matches(attempts["claims"][p], tries["claims"][p])
  BY DEF LimiterTypeOK, ClaimsInv
<1>1. ASSUME NEW l \in Limiters, NEW o \in Origins, NEW lag \in 0..MaxLag, Allow(l, o, lag),
             l = "claims" => lag = 0
      PROVE  \A p \in Origins : Matches(attempts'["claims"][p], tries'["claims"][p])
  <2> DEFINE table  == Swept(l, lag)
             recent == Recent(table[o], lag)
  <2>0. /\ table \in [Origins -> Seq(0..Oldest)]
        /\ \A p \in Origins : \/ table[p] = attempts[l][p]
                              \/ table[p] = <<>> /\ Stale(attempts[l][p], lag)
        /\ \A k \in Limiters \ {l} : attempts'[k] = attempts[k] /\ tries'[k] = tries[k]
        /\ \A p \in Origins \ {o} : attempts'[l][p] = table[p] /\ tries'[l][p] = tries[l][p]
        /\ \/ attempts'[l][o] = table[o] /\ tries'[l][o] = tries[l][o]
           \/ /\ Len(recent) < MaxAttempts
              /\ attempts'[l][o] = Append(recent, lag)
              /\ tries'[l][o] = Append(tries[l][o], lag)
           \/ attempts'[l][o] = recent /\ tries'[l][o] = tries[l][o]
    BY <1>1, AllowRows
  <2> HIDE DEF table
  <2>1. CASE l # "claims"
    BY <1>0, <2>0, <2>1
  <2>2. CASE l = "claims"
    <3>0. lag = 0
      BY <1>1, <2>2
    <3>1. recent = Recent(table[o], 0)
      BY <3>0
    <3>2. \A p \in Origins : Matches(table[p], tries[l][p])
      BY <1>0, <2>0, <2>2, <3>0, MatchesSwept
    <3> HIDE DEF recent
    <3>3. Matches(recent, tries[l][o])
      BY <2>0, <3>1, <3>2, MatchesRecent
    <3>4. Len(recent) < MaxAttempts => Matches(Append(recent, 0), Append(tries[l][o], 0))
      BY <1>0, <2>0, <2>2, <3>1, <3>2, MatchesAdmitted
    <3>5. QED BY <2>0, <2>2, <3>0, <3>2, <3>3, <3>4
  <2>3. QED BY <2>1, <2>2
<1>2. ASSUME NEW l \in Limiters, NEW o \in Origins, Reset(l, o)
      PROVE  \A p \in Origins : Matches(attempts'["claims"][p], tries'["claims"][p])
  BY <1>0, <1>2, ResetRows, MatchesNothing
<1>3. CASE AttemptsAge
  BY <1>0, <1>3, AgeRows, MatchesOlder
<1>4. CASE UNCHANGED limiterVars
  BY <1>0, <1>4 DEF limiterVars
<1>5. QED BY <1>1, <1>2, <1>3, <1>4 DEF LimiterStep

(* Of the claims of one origin, with a code or for a session, no more than *)
(* max_attempts are admitted in a window without a success (api.py:859).   *)
THEOREM ClaimsStayBounded == Spec => []ClaimsBounded
<1> DEFINE Inv == LimiterTypeOK /\ ClaimsInv /\ Decides
<1>1. Init => Inv
  <2> SUFFICES ASSUME Init PROVE Inv
    OBVIOUS
  <2>1. Decides
    BY DEF Init, Decides, Idle
  <2>2. /\ attempts = [l \in Limiters |-> [o \in Origins |-> <<>>]]
        /\ tries = attempts /\ <<>> \in Seq(0..Oldest)
    BY DEF Init, LimitersInit
  <2>3. QED BY <2>1, <2>2, MatchesNothing DEF LimiterTypeOK, ClaimsInv
<1>2. RoutesTypeOK /\ Inv /\ [Next]_vars => Inv'
  <2> SUFFICES ASSUME RoutesTypeOK, Inv, [Next]_vars PROVE Inv'
    OBVIOUS
  <2>1. LimiterStep /\ Decides'
    BY NextAsks
  <2>2. LimiterTypeOK'
    BY <2>1, AllowRows, ResetRows, AgeRows DEF LimiterStep, limiterVars, LimiterTypeOK
  <2>3. QED BY <2>1, <2>2, ClaimsInvKept
<1>3. Inv => ClaimsBounded
  BY DEF ClaimsInv, ClaimsBounded, WindowHolds, Matches
<1>4. QED BY <1>1, <1>2, <1>3, RoutesTypeCorrect, PTL DEF Spec

-----------------------------------------------------------------------------
(* The pairing routes change credentials only by issuing a token: nothing  *)
(* that fails, expires or is refused touches them (api.py:858-913).        *)
THEOREM PairingUsesCredentials == Spec => CredentialSpec
<1>1. RoutesTypeOK => CredentialTypeOK
  BY DEF RoutesTypeOK
<1>2. RoutesTypeOK /\ [Next]_vars => [CredentialNext]_credentialVars
  <2> SUFFICES ASSUME RoutesTypeOK, [Next]_vars PROVE [CredentialNext]_credentialVars
    OBVIOUS
  <2>1. ASSUME NEW c \in Calls, Start(c) PROVE UNCHANGED credentialVars
    BY <2>1 DEF Start, StartCreate, StartBootstrap, StartClaim
  <2>2. ASSUME NEW c \in Calls, Step(c) PROVE [CredentialNext]_credentialVars
    <3>1. CASE ClaimIssues(c)
      BY <3>1, Records DEF ClaimIssues, CredentialNext, CallRecords
    <3>2. CASE ~ClaimIssues(c)
      BY <2>2, <3>2
         DEF Step, DecideCall, CreateDraws, CreateUnavailable, CreateInstalls,
             BootstrapLooksUp, BootstrapFinishes, ClaimLooksUp, ClaimFails, ClaimFinishes
    <3>3. QED BY <3>1, <3>2
  <2>3. CASE (\E s \in SessionIds : Timer(s)) \/ Tick \/ UNCHANGED vars
    BY <2>3 DEF Timer, Tick, vars
  <2>4. QED BY <2>1, <2>2, <2>3 DEF Next
<1>3. QED BY <1>1, <1>2, RoutesTypeCorrect, PTL DEF Spec, CredentialSpec

=============================================================================
