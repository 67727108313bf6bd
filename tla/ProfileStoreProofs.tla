------------------------- MODULE ProfileStoreProofs -------------------------
(***************************************************************************)
(* Proofs about ProfileStore for every set of profiles, pages and editors, *)
(* and every bound.                                                        *)
(***************************************************************************)
EXTENDS ProfileStore, FiniteSetTheorems, TLAPS

-----------------------------------------------------------------------------
(* Page numbering.                                                         *)

LEMMA SomePagesFinite ==
  ASSUME NEW S \in SUBSET Pages
  PROVE  IsFiniteSet(S) /\ Cardinality(S) \in Nat
BY StoreConstants, FS_Subset, FS_CardinalityType

LEMMA OrdersAreNumbers ==
  ASSUME NEW d \in Contents, NEW g \in Pages
  PROVE  /\ d.orders[g] \in Int
         /\ d.orders[g] >= Absent
         /\ g \in PagesOf(d) <=> d.orders[g] >= 0
<1>1. MaxOrder \in Nat
  BY StoreConstants
<1>2. d.orders \in [Pages -> Absent..MaxOrder]
  BY DEF Contents
<1>3. d.orders[g] \in -1..MaxOrder
  BY <1>2 DEF Absent
<1>4. g \in PagesOf(d) <=> d.orders[g] # -1
  BY DEF PagesOf, Absent
<1>5. QED BY <1>1, <1>3, <1>4 DEF Absent

(* The index of a page in a sorted list is an index of that list. *)
LEMMA PositionType ==
  ASSUME NEW d \in Contents, NEW S \in SUBSET Pages, NEW g \in S
  PROVE  /\ Position(d, S, g) \in 0..(Cardinality(S) - 1)
         /\ Position(d, S, g) \in Int
<1> DEFINE before == {x \in S : d.orders[x] < d.orders[g]}
<1>1. IsFiniteSet(S) /\ Cardinality(S) \in Nat
  BY SomePagesFinite
<1>2. g \notin before
  BY OrdersAreNumbers
<1>3. before \in SUBSET (S \ {g})
  BY <1>2
<1>4. IsFiniteSet(S \ {g}) /\ Cardinality(S \ {g}) = Cardinality(S) - 1
  BY <1>1, FS_RemoveElement
<1>5. IsFiniteSet(before) /\ Cardinality(before) <= Cardinality(S) - 1
  BY <1>3, <1>4, FS_Subset
<1>6. Cardinality(before) \in Nat
  BY <1>5, FS_CardinalityType
<1>7. Position(d, S, g) = Cardinality(before)
  BY DEF Position
<1> HIDE DEF before
<1>8. QED BY <1>1, <1>5, <1>6, <1>7

LEMMA PositionAscends ==
  ASSUME NEW d \in Contents, NEW S \in SUBSET Pages, NEW g \in S, NEW h \in S,
         d.orders[g] < d.orders[h]
  PROVE  Position(d, S, g) < Position(d, S, h)
<1> DEFINE before(x) == {y \in S : d.orders[y] < d.orders[x]}
<1>1. IsFiniteSet(before(h)) /\ Cardinality(before(h)) \in Nat
  BY SomePagesFinite
<1>2. g \in before(h) /\ g \notin before(g)
  BY OrdersAreNumbers
<1>3. before(g) \in SUBSET (before(h) \ {g})
  BY <1>2, OrdersAreNumbers
<1>4. IsFiniteSet(before(h) \ {g}) /\ Cardinality(before(h) \ {g}) = Cardinality(before(h)) - 1
  BY <1>1, <1>2, FS_RemoveElement
<1>5. Cardinality(before(g)) <= Cardinality(before(h)) - 1 /\ IsFiniteSet(before(g))
  BY <1>3, <1>4, FS_Subset
<1>6. Cardinality(before(g)) \in Nat
  BY <1>5, FS_CardinalityType
<1>7. Position(d, S, g) = Cardinality(before(g)) /\ Position(d, S, h) = Cardinality(before(h))
  BY DEF Position
<1> HIDE DEF before
<1>8. QED BY <1>1, <1>5, <1>6, <1>7

(* Sorting keeps the order of pages and tells any two apart. *)
LEMMA PositionOrders ==
  ASSUME NEW d \in Contents, Valid(d), NEW S \in SUBSET PagesOf(d), NEW g \in S, NEW h \in S
  PROVE  /\ d.orders[g] < d.orders[h] <=> Position(d, S, g) < Position(d, S, h)
         /\ Position(d, S, g) = Position(d, S, h) => g = h
<1>1. g \in PagesOf(d) /\ h \in PagesOf(d) /\ g \in Pages /\ h \in Pages /\ S \in SUBSET Pages
  BY DEF PagesOf
<1>2. d.orders[g] \in Int /\ d.orders[h] \in Int
  BY <1>1, OrdersAreNumbers
<1>3. d.orders[g] < d.orders[h] => Position(d, S, g) < Position(d, S, h)
  BY <1>1, PositionAscends
<1>4. d.orders[h] < d.orders[g] => Position(d, S, h) < Position(d, S, g)
  BY <1>1, PositionAscends
<1>5. Position(d, S, g) \in Int /\ Position(d, S, h) \in Int
  BY <1>1, PositionType
<1>6. d.orders[g] = d.orders[h] => g = h
  BY <1>1 DEF Valid
<1>7. QED BY <1>2, <1>3, <1>4, <1>5, <1>6

(* Every index of the sorted list is some page's. *)
LEMMA PositionsDense ==
  ASSUME NEW d \in Contents, Valid(d), NEW S \in SUBSET PagesOf(d)
  PROVE  \A i \in 0..(Cardinality(S) - 1) : \E g \in S : Position(d, S, g) = i
<1> DEFINE f == [g \in S |-> Position(d, S, g)]
           T == {f[g] : g \in S}
           U == 0..(Cardinality(S) - 1)
<1>1. S \in SUBSET Pages
  BY DEF PagesOf
<1>2. IsFiniteSet(S) /\ Cardinality(S) \in Nat
  BY <1>1, SomePagesFinite
<1>3. f \in Bijection(S, T)
  <2>1. f \in [S -> T]
    OBVIOUS
  <2>2. \A g, h \in S : f[g] = f[h] => g = h
    BY PositionOrders
  <2>3. \A t \in T : \E g \in S : f[g] = t
    OBVIOUS
  <2> HIDE DEF f, T
  <2>4. QED BY <2>1, <2>2, <2>3 DEF Bijection, Injection, Surjection, IsInjective
<1>4. IsFiniteSet(T) /\ Cardinality(T) = Cardinality(S)
  BY <1>2, <1>3, FS_Bijection DEF ExistsBijection
<1>5. T \in SUBSET U
  BY <1>1, PositionType
<1>6. IsFiniteSet(U) /\ Cardinality(U) = Cardinality(S)
  BY <1>2, FS_Interval
<1>7. T = U
  BY <1>4, <1>5, <1>6, FS_Subset
<1>8. \A i \in U : \E g \in S : f[g] = i
  BY <1>7
<1>9. QED BY <1>8

(* create_page: whatever the numbering, gaps included, the new page finds  *)
(* its order free and the others keep theirs apart and in sequence; the    *)
(* result is valid if no other page has one of its buttons.                *)
LEMMA InsertedSound ==
  ASSUME NEW d \in Contents, Valid(d), NEW g \in Pages, NEW n \in Nat, g \notin PagesOf(d),
         NEW some \in SUBSET Buttons, some # {}
  PROVE  LET f == Inserted(d, g, n, some)
         IN  /\ Valid(f) <=> ButtonsFree(d, some)
             /\ f.orders[g] = n
             /\ SameSequence(d, f, PagesOf(d) \ {g})
<1> DEFINE f == Inserted(d, g, n, some)
<1>1. /\ f.activePage = d.activePage
      /\ \A x \in Pages : f.buttons[x] = IF x = g THEN some ELSE d.buttons[x]
      /\ \A x \in Pages : f.orders[x] = IF x = g THEN n
                                        ELSE IF d.orders[x] >= n THEN d.orders[x] + 1
                                        ELSE d.orders[x]
  BY DEF Inserted, Contents
<1>2. \A x \in Pages : x \in PagesOf(f) <=> x = g \/ x \in PagesOf(d)
  BY <1>1, OrdersAreNumbers DEF PagesOf, Absent
<1>3. \A x \in PagesOf(d) : x \in Pages
  BY DEF PagesOf
<1>4. \A x, y \in PagesOf(f) : x \in Pages /\ y \in Pages
  BY DEF PagesOf
<1>5. \A x \in PagesOf(d) \ {g} : f.orders[x] \in Int /\ f.orders[x] # n
  BY <1>1, <1>3, OrdersAreNumbers
<1>6. \A x, y \in PagesOf(d) \ {g} :
         /\ d.orders[x] < d.orders[y] <=> f.orders[x] < f.orders[y]
         /\ f.orders[x] = f.orders[y] => d.orders[x] = d.orders[y]
  BY <1>1, <1>3, OrdersAreNumbers
<1>7. \A x, y \in PagesOf(f) : f.orders[x] = f.orders[y] => x = y
  <2> SUFFICES ASSUME NEW x \in PagesOf(f), NEW y \in PagesOf(f), f.orders[x] = f.orders[y]
               PROVE  x = y
    OBVIOUS
  <2>1. (x = g \/ x \in PagesOf(d) \ {g}) /\ (y = g \/ y \in PagesOf(d) \ {g})
    BY <1>2, <1>4
  <2>2. f.orders[g] = n
    BY <1>1
  <2> HIDE DEF f
  <2>3. CASE x = g
    BY <1>5, <2>1, <2>2, <2>3
  <2>4. CASE y = g
    BY <1>5, <2>1, <2>2, <2>4
  <2>5. CASE x \in PagesOf(d) \ {g} /\ y \in PagesOf(d) \ {g}
    BY <1>6, <2>5 DEF Valid
  <2>6. QED BY <2>1, <2>3, <2>4, <2>5
<1>8. f.activePage \in PagesOf(f)
  BY <1>1, <1>2, <1>3 DEF Valid
<1> HIDE DEF f
<1>9. Valid(f) <=> ButtonsFree(d, some)
  <2>1. \A x \in Pages : x \in PagesOf(f) <=> f.buttons[x] # {}
    BY <1>1, <1>2 DEF Valid
  <2>2. ASSUME Valid(f), NEW h \in PagesOf(d) PROVE d.buttons[h] \intersect some = {}
    <3>1. h \in PagesOf(f) /\ g \in PagesOf(f) /\ h # g
      BY <1>2, <1>3
    <3>2. f.buttons[h] \intersect f.buttons[g] = {}
      BY <2>2, <3>1 DEF Valid
    <3>3. QED BY <1>1, <1>3, <3>1, <3>2
  <2>3. ASSUME ButtonsFree(d, some), NEW x \in PagesOf(f), NEW y \in PagesOf(f), x # y
        PROVE  f.buttons[x] \intersect f.buttons[y] = {}
    <3>1. /\ x \in Pages /\ y \in Pages
          /\ x = g \/ x \in PagesOf(d)
          /\ y = g \/ y \in PagesOf(d)
      BY <1>2, <1>4
    <3>2. CASE x = g
      BY <1>1, <2>3, <3>1, <3>2 DEF ButtonsFree
    <3>3. CASE y = g
      BY <1>1, <2>3, <3>1, <3>3 DEF ButtonsFree
    <3>4. CASE x # g /\ y # g
      BY <1>1, <2>3, <3>1, <3>4 DEF Valid
    <3>5. QED BY <3>2, <3>3, <3>4
  <2>4. ButtonsFree(d, some) => Valid(f)
    BY <1>7, <1>8, <2>1, <2>3 DEF Valid
  <2>5. Valid(f) => ButtonsFree(d, some)
    BY <2>2 DEF ButtonsFree
  <2>6. QED BY <2>4, <2>5
<1>10. SameSequence(d, f, PagesOf(d) \ {g})
  BY <1>6 DEF SameSequence
<1>11. QED BY <1>1, <1>9, <1>10 DEF f

(* delete_page: the remaining pages are numbered anew, without a gap. *)
LEMMA RemovedSound ==
  ASSUME NEW d \in Contents, Valid(d), NEW g \in Pages, NEW h \in Pages, MayRemove(d, g, h)
  PROVE  LET f == Removed(d, g, h)
         IN  Valid(f) /\ SameSequence(d, f, PagesOf(d) \ {g}) /\ Dense(f)
<1> DEFINE f == Removed(d, g, h)
           others == PagesOf(d) \ {g}
<1>1. /\ f.activePage = h
      /\ \A x \in Pages : f.buttons[x] = IF x = g THEN {} ELSE d.buttons[x]
      /\ \A x \in Pages : f.orders[x] = IF x \in others THEN Position(d, others, x) ELSE Absent
  BY DEF Removed, Contents
<1>2. others \in SUBSET PagesOf(d) /\ others \in SUBSET Pages
  BY DEF PagesOf
<1>3. \A x \in others : f.orders[x] = Position(d, others, x)
  BY <1>1, <1>2
<1>4. \A x \in others : f.orders[x] \in 0..(Cardinality(others) - 1)
  BY <1>2, <1>3, PositionType
<1>5. Cardinality(others) \in Nat
  BY <1>2, SomePagesFinite
<1>6. PagesOf(f) = others
  <2>1. \A x \in others : f.orders[x] # Absent
    BY <1>4, <1>5 DEF Absent
  <2>2. QED BY <1>1, <1>2, <2>1 DEF PagesOf
<1>7. h \in others
  BY DEF MayRemove, Valid
<1>8. \A x, y \in others : f.orders[x] = f.orders[y] => x = y
  BY <1>2, <1>3, PositionOrders
<1>9. SameSequence(d, f, others)
  <2>1. \A x, y \in others : d.orders[x] < d.orders[y] <=> f.orders[x] < f.orders[y]
    BY <1>2, <1>3, PositionOrders
  <2>2. QED BY <2>1 DEF SameSequence
<1>10. \A i \in 0..(Cardinality(others) - 1) : \E x \in others : f.orders[x] = i
  BY <1>2, <1>3, PositionsDense
<1>11. /\ \A x \in Pages : x \in others <=> f.buttons[x] # {}
       /\ \A x, y \in others : x # y => f.buttons[x] \intersect f.buttons[y] = {}
  <2>1. g \notin others /\ \A x \in Pages : x # g => (x \in others <=> x \in PagesOf(d))
    OBVIOUS
  <2> HIDE DEF f, others
  <2>2. \A x \in others : x \in PagesOf(d) /\ x \in Pages /\ x # g
    BY <1>2, <2>1
  <2>3. QED BY <1>1, <2>1, <2>2 DEF Valid
<1> HIDE DEF f, others
<1>14. Valid(f)
  BY <1>1, <1>6, <1>7, <1>8, <1>11 DEF Valid
<1>12. Dense(f)
  BY <1>4, <1>6, <1>10 DEF Dense
<1>13. QED BY <1>9, <1>12, <1>14 DEF f, others

(* reorder_page: the page is where it was asked to be, the others follow   *)
(* each other as before, and there is no gap.                              *)
LEMMA MovedSound ==
  ASSUME NEW d \in Contents, Valid(d), NEW g \in Pages, NEW n \in Int, MayMove(d, g, n)
  PROVE  LET f == Moved(d, g, n)
         IN  /\ Valid(f)
             /\ f.orders[g] = n
             /\ SameSequence(d, f, PagesOf(d) \ {g})
             /\ Dense(f)
<1> DEFINE f == Moved(d, g, n)
           others == PagesOf(d) \ {g}
           k == Cardinality(others)
           pos(x) == Position(d, others, x)
<1>1. /\ f.activePage = d.activePage
      /\ f.buttons = d.buttons
      /\ \A x \in Pages : f.orders[x] = IF x = g THEN n
                                        ELSE IF x \in others
                                          THEN IF pos(x) < n THEN pos(x) ELSE pos(x) + 1
                                        ELSE Absent
  BY DEF Moved, Contents
<1>2. others \in SUBSET PagesOf(d) /\ others \in SUBSET Pages /\ PagesOf(d) \in SUBSET Pages
  BY DEF PagesOf
<1>3. /\ k \in Nat /\ Cardinality(PagesOf(d)) = k + 1
      /\ g \in PagesOf(d) /\ n \in 0..k
  <2>1. IsFiniteSet(PagesOf(d)) /\ Cardinality(PagesOf(d)) \in Nat /\ k \in Nat
    BY <1>2, SomePagesFinite
  <2>2. g \in PagesOf(d) /\ n \in 0..(Cardinality(PagesOf(d)) - 1)
    BY DEF MayMove
  <2>3. k = Cardinality(PagesOf(d)) - 1
    BY <2>1, <2>2, FS_RemoveElement
  <2> HIDE DEF k
  <2>4. QED BY <2>1, <2>2, <2>3
<1>4. \A x \in others : pos(x) \in 0..(k - 1)
  BY <1>2, PositionType
<1>5. \A x \in others : f.orders[x] = IF pos(x) < n THEN pos(x) ELSE pos(x) + 1
  BY <1>1, <1>2
<1>6. f.orders[g] = n
  BY <1>1
<1>7. \A x, y \in others :
        /\ d.orders[x] < d.orders[y] <=> pos(x) < pos(y)
        /\ pos(x) = pos(y) => x = y
  BY <1>2, PositionOrders
<1>8. \A i \in 0..(k - 1) : \E x \in others : pos(x) = i
  BY <1>2, PositionsDense
<1>9. \A x \in Pages : x = g \/ x \in others \/ f.orders[x] = Absent
  BY <1>1
<1>10. d.activePage \in PagesOf(d)
  BY DEF Valid
<1>11. PagesOf(d) = others \union {g} /\ g \notin others
  BY <1>3
<1> HIDE DEF f, pos, k, others
<1>12. \A x \in others : f.orders[x] \in 0..k /\ f.orders[x] # n
  BY <1>3, <1>4, <1>5
<1>13. PagesOf(f) = PagesOf(d)
  <2>1. \A x \in others : f.orders[x] # Absent
    BY <1>3, <1>12 DEF Absent
  <2>2. f.orders[g] # Absent
    BY <1>3, <1>6 DEF Absent
  <2>3. QED BY <1>2, <1>9, <1>11, <2>1, <2>2 DEF PagesOf
<1>14. ASSUME NEW x \in others, NEW y \in others
       PROVE  /\ d.orders[x] < d.orders[y] <=> f.orders[x] < f.orders[y]
              /\ f.orders[x] = f.orders[y] => x = y
  <2>1. pos(x) \in Int /\ pos(y) \in Int /\ n \in Int
    BY <1>3, <1>4
  <2>2. /\ f.orders[x] = IF pos(x) < n THEN pos(x) ELSE pos(x) + 1
        /\ f.orders[y] = IF pos(y) < n THEN pos(y) ELSE pos(y) + 1
    BY <1>5
  <2>3. /\ pos(x) < pos(y) <=> f.orders[x] < f.orders[y]
        /\ f.orders[x] = f.orders[y] => pos(x) = pos(y)
    BY <2>1, <2>2
  <2>4. d.orders[x] < d.orders[y] <=> pos(x) < pos(y)
    BY <1>7
  <2>5. pos(x) = pos(y) => x = y
    BY <1>7
  <2>6. QED BY <2>3, <2>4, <2>5
<1>15. \A x, y \in PagesOf(f) : f.orders[x] = f.orders[y] => x = y
  <2> SUFFICES ASSUME NEW x \in PagesOf(f), NEW y \in PagesOf(f), f.orders[x] = f.orders[y]
               PROVE  x = y
    OBVIOUS
  <2>1. (x = g \/ x \in others) /\ (y = g \/ y \in others)
    BY <1>11, <1>13
  <2>2. CASE x = g
    BY <1>6, <1>12, <2>1, <2>2
  <2>3. CASE y = g
    BY <1>6, <1>12, <2>1, <2>3
  <2>4. CASE x \in others /\ y \in others
    BY <1>14, <2>4
  <2>5. QED BY <2>1, <2>2, <2>3, <2>4
<1>16. Valid(f)
  <2>1. f.activePage \in PagesOf(f)
    BY <1>1, <1>10, <1>13
  <2>2. \A x, y \in PagesOf(f) : x # y => f.buttons[x] \intersect f.buttons[y] = {}
    BY <1>1, <1>13 DEF Valid
  <2>3. \A x \in Pages : x \in PagesOf(f) <=> f.buttons[x] # {}
    BY <1>1, <1>13 DEF Valid
  <2>4. QED BY <1>15, <2>1, <2>2, <2>3 DEF Valid
<1>17. SameSequence(d, f, others)
  BY <1>14 DEF SameSequence
<1>18. \A i \in 0..k : \E x \in PagesOf(f) : f.orders[x] = i
  <2> SUFFICES ASSUME NEW i \in 0..k PROVE \E x \in PagesOf(f) : f.orders[x] = i
    OBVIOUS
  <2>1. CASE i = n
    BY <1>6, <1>11, <1>13, <2>1
  <2>2. CASE i < n
    <3>1. i \in 0..(k - 1)
      BY <1>3, <2>2
    <3>2. PICK x \in others : pos(x) = i
      BY <1>8, <3>1
    <3>3. QED BY <1>5, <1>11, <1>13, <2>2, <3>2
  <2>3. CASE i > n
    <3>1. i - 1 \in 0..(k - 1) /\ ~(i - 1 < n)
      BY <1>3, <2>3
    <3>2. PICK x \in others : pos(x) = i - 1
      BY <1>8, <3>1
    <3>3. QED BY <1>5, <1>11, <1>13, <3>1, <3>2
  <2>4. QED BY <1>3, <2>1, <2>2, <2>3
<1>19. \A x \in PagesOf(f) : f.orders[x] \in 0..k
  BY <1>3, <1>6, <1>11, <1>12, <1>13
<1>20. Dense(f)
  <2>1. {f.orders[x] : x \in PagesOf(f)} = 0..k
    BY <1>18, <1>19
  <2>2. Cardinality(PagesOf(f)) - 1 = k
    BY <1>3, <1>13
  <2>3. QED BY <2>1, <2>2 DEF Dense
<1>21. QED BY <1>6, <1>16, <1>17, <1>20 DEF f, others

-----------------------------------------------------------------------------
(* Rows and snapshots.                                                     *)

(* What the store holds is valid, as its clients rely on. *)
CurrentValid == \A p \in Existing : Valid(Current(p))

RowInv == ProfileTypeOK /\ HistoryComplete /\ OneSelected /\ CurrentValid

(* create_profile and duplicate_profile, as far as the store is concerned. *)
Inserting(e, p, d) ==
  /\ Started /\ d \in Contents /\ Valid(d)
  /\ Insert(p, d)
  /\ Answer(e, p, 1, d)
  /\ Chose(p, d)
  /\ UNCHANGED <<marker, lost>>

(* The read join finds a snapshot for every existing profile. *)
LEMMA CurrentKnown ==
  ASSUME ProfileTypeOK, HistoryComplete, NEW p \in Existing
  PROVE  /\ p \in Profiles
         /\ revision[p] \in 1..MaxRevision
         /\ Current(p) \in Contents
<1>1. p \in Profiles /\ revision[p] > 0
  BY DEF Existing
<1>2. revision[p] \in 0..MaxRevision /\ MaxRevision \in Nat
  BY <1>1, StoreConstants DEF ProfileTypeOK
<1>3. revision[p] \in 1..MaxRevision
  BY <1>1, <1>2
<1>4. history[p][revision[p]] # NoContent
  BY <1>1, <1>2, <1>3 DEF HistoryComplete
<1>5. history[p][revision[p]] \in Contents \union {NoContent}
  BY <1>1, <1>3 DEF ProfileTypeOK
<1>6. QED BY <1>1, <1>3, <1>4, <1>5 DEF Current

(* The steps of the store: page operations and saves are commits, creation *)
(* and duplication are insertions of a valid content.                      *)
LEMMA Steps ==
  ASSUME RowInv, Next
  PROVE  \/ Start
         \/ \E p \in Profiles : SetActiveProfile(p)
         \/ \E e \in Editors, p \in Profiles :
              \/ Read(e, p)
              \/ \E d \in Contents : Commit(e, p, d)
              \/ \E q \in Profiles, d \in Contents : Inserting(e, q, d)
              \/ ActivateProfile(e, p)
              \/ DeleteInactiveProfile(e, p)
              \/ \E q \in Profiles : DeleteActiveProfile(e, p, q)
<1>1. ASSUME NEW e \in Editors, NEW p \in Profiles, EditPages(e, p)
      PROVE  \E d \in Contents : Commit(e, p, d)
  <2>1. ASSUME NEW d, Commit(e, p, d) PROVE d \in Contents
    BY <2>1 DEF Commit
  <2>2. QED BY <1>1, <2>1 DEF EditPages, RenamePage, CreatePage, ReorderPage, DeletePage
<1>2. ASSUME NEW e \in Editors, NEW p \in Profiles, NEW d \in Drafts, SaveProfile(e, p, d)
      PROVE  \E f \in Contents : Commit(e, p, f)
  BY <1>2 DEF SaveProfile, Commit
<1>3. ASSUME NEW e \in Editors, NEW p \in Profiles, NEW t \in Texts, RenameProfile(e, p, t)
      PROVE  \E f \in Contents : Commit(e, p, f)
  BY <1>3 DEF RenameProfile, Commit
<1>4. ASSUME NEW e \in Editors, NEW p \in Profiles, NEW d \in Drafts, CreateProfile(e, p, d)
      PROVE  d \in Contents /\ Inserting(e, p, d)
  <2>1. d \in Contents /\ Valid(d)
    BY StoreConstants
  <2>2. QED BY <1>4, <2>1 DEF CreateProfile, Inserting
<1>5. ASSUME NEW e \in Editors, NEW p \in Profiles, NEW q \in Profiles, NEW t \in Texts,
             DuplicateProfile(e, p, q, t)
      PROVE  \E d \in Contents : Inserting(e, q, d)
  <2> DEFINE d == Retitled(Current(p), t)
  <2>1. p \in Existing /\ Started
    BY <1>5 DEF DuplicateProfile, Holds
  <2>2. Current(p) \in Contents /\ Valid(Current(p))
    BY <2>1, CurrentKnown DEF RowInv, CurrentValid
  <2>3. /\ d \in Contents /\ d.orders = Current(p).orders
        /\ d.activePage = Current(p).activePage /\ d.buttons = Current(p).buttons
    BY <2>2 DEF Contents, Retitled
  <2>4. Valid(d)
    BY <2>2, <2>3 DEF Valid, PagesOf
  <2>5. QED BY <1>5, <2>1, <2>3, <2>4 DEF DuplicateProfile, Inserting
<1>6. ASSUME NEW e \in Editors, NEW p \in Profiles, EditProfile(e, p)
      PROVE  \/ \E d \in Contents : Commit(e, p, d)
             \/ \E q \in Profiles, d \in Contents : Inserting(e, q, d)
             \/ ActivateProfile(e, p)
             \/ DeleteInactiveProfile(e, p)
             \/ \E q \in Profiles : DeleteActiveProfile(e, p, q)
  BY <1>2, <1>3, <1>4, <1>5, <1>6 DEF EditProfile
<1>7. QED BY <1>1, <1>6 DEF Next

(* A new row: its first snapshot is its only one. *)
LEMMA InsertKeeps ==
  ASSUME RowInv, NEW p \in Profiles, NEW d \in Contents, Valid(d), Insert(p, d)
  PROVE  /\ revision' \in [Profiles -> 0..MaxRevision]
         /\ isActive' \in [Profiles -> BOOLEAN]
         /\ history' \in [Profiles -> [1..MaxRevision -> Contents \union {NoContent}]]
         /\ HistoryComplete'
         /\ OneSelected'
         /\ CurrentValid'
         /\ Existing' = Existing \union {p}
         /\ Current(p)' = d
         /\ \A q \in Existing : q # p => Current(q)' = Current(q)
<1>1. MaxRevision \in Nat /\ MaxRevision >= 1 /\ NoContent \notin Contents
  BY StoreConstants
<1> USE DEF RowInv, ProfileTypeOK
<1>2. /\ revision[p] = 0
      /\ revision' = [revision EXCEPT ![p] = 1]
      /\ history' = [history EXCEPT ![p][1] = d]
  BY DEF Insert
<1>3. revision' \in [Profiles -> 0..MaxRevision]
  BY <1>1, <1>2
<1>4. history' \in [Profiles -> [1..MaxRevision -> Contents \union {NoContent}]]
  BY <1>1, <1>2
<1>5. isActive' \in [Profiles -> BOOLEAN]
  BY DEF Insert, SelectIfNone
<1>6. HistoryComplete'
  BY <1>1, <1>2, <1>3, <1>4 DEF HistoryComplete
<1>7. Existing' = Existing \union {p}
  BY <1>1, <1>2, <1>3 DEF Existing
<1>8. OneSelected'
  BY <1>7 DEF OneSelected, Insert, SelectIfNone
<1>9. \A q \in Existing : q # p => Current(q)' = Current(q)
  BY <1>2, <1>4 DEF Current, Existing
<1>10. Current(p)' = d
  BY <1>1, <1>2 DEF Current
<1>11. CurrentValid'
  BY <1>7, <1>9, <1>10 DEF CurrentValid
<1>12. QED BY <1>3, <1>4, <1>5, <1>6, <1>7, <1>8, <1>9, <1>10, <1>11

(* The next revision of a row: the snapshots before it stay. *)
LEMMA ReplaceKeeps ==
  ASSUME RowInv, NEW p \in Existing, NEW d \in Contents, Valid(d), Replace(p, d)
  PROVE  /\ revision' \in [Profiles -> 0..MaxRevision]
         /\ history' \in [Profiles -> [1..MaxRevision -> Contents \union {NoContent}]]
         /\ HistoryComplete'
         /\ Existing' = Existing
         /\ CurrentValid'
         /\ Current(p)' = d
         /\ \A q \in Existing : q # p => Current(q)' = Current(q)
<1>1. MaxRevision \in Nat /\ MaxRevision >= 1 /\ NoContent \notin Contents
  BY StoreConstants
<1>2. p \in Profiles /\ revision[p] \in 1..MaxRevision
  BY CurrentKnown DEF RowInv
<1>0. /\ revision \in [Profiles -> 0..MaxRevision]
      /\ isActive \in [Profiles -> BOOLEAN]
      /\ history \in [Profiles -> [1..MaxRevision -> Contents \union {NoContent}]]
  BY DEF RowInv, ProfileTypeOK
<1>3. /\ revision[p] + 1 \in 1..MaxRevision
      /\ revision' = [revision EXCEPT ![p] = revision[p] + 1]
      /\ history' = [history EXCEPT ![p][revision[p] + 1] = d]
  BY <1>0, <1>1, <1>2 DEF Replace
<1>4. revision' \in [Profiles -> 0..MaxRevision]
  <2>1. revision \in [Profiles -> 0..MaxRevision]
    BY <1>0
  <2>2. revision[p] + 1 \in 0..MaxRevision
    BY <1>1, <1>2, <1>3
  <2>3. QED BY <1>3, <2>1, <2>2
<1>5. history' \in [Profiles -> [1..MaxRevision -> Contents \union {NoContent}]]
  <2> DEFINE v == revision[p] + 1
             Snapshots == Contents \union {NoContent}
  <2>1. history \in [Profiles -> [1..MaxRevision -> Snapshots]] /\ d \in Snapshots
    BY <1>0
  <2>2. v \in 1..MaxRevision /\ history' = [history EXCEPT ![p][v] = d]
    BY <1>3
  <2> HIDE DEF v, Snapshots
  <2>3. history' \in [Profiles -> [1..MaxRevision -> Snapshots]]
    BY <1>2, <2>1, <2>2
  <2>4. QED BY <2>3 DEF Snapshots
<1>6. HistoryComplete'
  BY <1>0, <1>1, <1>2, <1>3, <1>4, <1>5 DEF RowInv, HistoryComplete
<1>7. Existing' = Existing
  BY <1>0, <1>1, <1>2, <1>3, <1>4 DEF Existing
<1>8. \A q \in Existing : q # p => Current(q)' = Current(q)
  BY <1>0, <1>3, <1>5 DEF Current, Existing
<1>9. Current(p)' = d
  BY <1>0, <1>1, <1>2, <1>3, <1>5 DEF Current
<1>10. CurrentValid'
  BY <1>7, <1>8, <1>9 DEF RowInv, CurrentValid
<1>11. QED BY <1>4, <1>5, <1>6, <1>7, <1>8, <1>9, <1>10

(* A row that goes takes its snapshots with it. *)
LEMMA EraseKeeps ==
  ASSUME RowInv, NEW p \in Existing, ~isActive[p], Erase(p)
  PROVE  /\ revision' \in [Profiles -> 0..MaxRevision]
         /\ isActive' \in [Profiles -> BOOLEAN]
         /\ history' \in [Profiles -> [1..MaxRevision -> Contents \union {NoContent}]]
         /\ HistoryComplete'
         /\ Existing' = Existing \ {p}
         /\ \A q \in Profiles : isActive'[q] = isActive[q]
         /\ \A q \in Existing' : Current(q)' = Current(q)
<1>1. MaxRevision \in Nat /\ MaxRevision >= 1 /\ NoContent \notin Contents
  BY StoreConstants
<1>2. p \in Profiles
  BY DEF Existing
<1>0. /\ revision \in [Profiles -> 0..MaxRevision]
      /\ isActive \in [Profiles -> BOOLEAN]
      /\ history \in [Profiles -> [1..MaxRevision -> Contents \union {NoContent}]]
  BY DEF RowInv, ProfileTypeOK
<1>3. /\ revision' = [revision EXCEPT ![p] = 0]
      /\ isActive' = [isActive EXCEPT ![p] = FALSE]
      /\ history' = [history EXCEPT ![p] = NoHistory]
  BY DEF Erase
<1>4. NoHistory \in [1..MaxRevision -> Contents \union {NoContent}]
  BY DEF NoHistory
<1>5. revision' \in [Profiles -> 0..MaxRevision]
  <2>1. revision \in [Profiles -> 0..MaxRevision] /\ 0 \in 0..MaxRevision
    BY <1>0, <1>1
  <2>2. QED BY <1>3, <2>1
<1>6. isActive' \in [Profiles -> BOOLEAN]
  BY <1>0, <1>3
<1>7. history' \in [Profiles -> [1..MaxRevision -> Contents \union {NoContent}]]
  BY <1>0, <1>3, <1>4
<1>8. HistoryComplete'
  <2> SUFFICES ASSUME NEW q \in Profiles, NEW v \in 1..MaxRevision
               PROVE  history'[q][v] # NoContent <=> v <= revision'[q]
    BY DEF HistoryComplete
  <2>1. CASE q = p
    <3>1. history'[q][v] = NoContent /\ revision'[q] = 0
      BY <1>0, <1>2, <1>3, <2>1 DEF NoHistory
    <3>2. QED BY <1>1, <3>1
  <2>2. CASE q # p
    <3>1. history'[q] = history[q] /\ revision'[q] = revision[q]
      BY <1>0, <1>3, <2>2
    <3>2. QED BY <3>1 DEF RowInv, HistoryComplete
  <2>3. QED BY <2>1, <2>2
<1>9. Existing' = Existing \ {p}
  BY <1>0, <1>2, <1>3 DEF Existing
<1>10. \A q \in Profiles : isActive'[q] = isActive[q]
  BY <1>0, <1>2, <1>3
<1>11. \A q \in Existing' : Current(q)' = Current(q)
  BY <1>0, <1>3, <1>9 DEF Current, Existing
<1>12. QED BY <1>5, <1>6, <1>7, <1>8, <1>9, <1>10, <1>11

(* The selected row goes after its replacement has taken the selection. *)
LEMMA DeleteActiveKeeps ==
  ASSUME RowInv, NEW e \in Editors, NEW p \in Profiles, NEW q \in Profiles,
         DeleteActiveProfile(e, p, q)
  PROVE  /\ revision' \in [Profiles -> 0..MaxRevision]
         /\ isActive' \in [Profiles -> BOOLEAN]
         /\ history' \in [Profiles -> [1..MaxRevision -> Contents \union {NoContent}]]
         /\ HistoryComplete'
         /\ Existing' = Existing \ {p}
         /\ \A x \in Existing' : Current(x)' = Current(x)
<1>1. MaxRevision \in Nat /\ MaxRevision >= 1 /\ NoContent \notin Contents
  BY StoreConstants
<1>2. /\ p \in Existing /\ q \in Existing /\ q # p
      /\ revision[q] < MaxRevision
      /\ isActive' = [x \in Profiles |-> x = q]
      /\ revision' = [revision EXCEPT ![p] = 0, ![q] = @ + 1]
      /\ history' = [history EXCEPT ![p] = NoHistory, ![q][revision[q] + 1] = Current(q)]
  BY DEF DeleteActiveProfile, Holds
<1>3. revision[q] \in 1..MaxRevision /\ Current(q) \in Contents
  BY <1>2, CurrentKnown DEF RowInv
<1> DEFINE v == revision[q] + 1
           Snapshots == Contents \union {NoContent}
<1>4. v \in 1..MaxRevision /\ v = revision[q] + 1
  BY <1>1, <1>2, <1>3
<1>5. NoHistory \in [1..MaxRevision -> Snapshots]
  BY DEF NoHistory
<1>6. history \in [Profiles -> [1..MaxRevision -> Snapshots]]
  BY DEF RowInv, ProfileTypeOK
<1>7. revision \in [Profiles -> 0..MaxRevision]
  BY DEF RowInv, ProfileTypeOK
<1>8. Current(q) \in Snapshots
  BY <1>3
<1>9. history' = [history EXCEPT ![p] = NoHistory, ![q][v] = Current(q)]
  BY <1>2
<1> HIDE DEF v, Snapshots
<1>10. history' \in [Profiles -> [1..MaxRevision -> Snapshots]]
  BY <1>2, <1>4, <1>5, <1>6, <1>8, <1>9
<1>11. revision' \in [Profiles -> 0..MaxRevision]
  BY <1>1, <1>2, <1>4, <1>7
<1>12. /\ revision'[p] = 0 /\ revision'[q] = v
       /\ \A x \in Profiles \ {p, q} : revision'[x] = revision[x]
  BY <1>2, <1>4, <1>7
<1>13. /\ history'[p] = NoHistory
       /\ history'[q] = [history[q] EXCEPT ![v] = Current(q)]
       /\ \A x \in Profiles \ {p, q} : history'[x] = history[x]
  BY <1>2, <1>6, <1>9
<1>14. history'[q][v] = Current(q) /\ \A u \in 1..MaxRevision : u # v => history'[q][u] = history[q][u]
  BY <1>4, <1>6, <1>13
<1>15. HistoryComplete'
  <2> SUFFICES ASSUME NEW x \in Profiles, NEW u \in 1..MaxRevision
               PROVE  history'[x][u] # NoContent <=> u <= revision'[x]
    BY DEF HistoryComplete
  <2>1. CASE x = p
    <3>1. history'[x][u] = NoContent /\ revision'[x] = 0
      BY <1>12, <1>13, <2>1 DEF NoHistory
    <3>2. QED BY <1>1, <3>1
  <2>2. CASE x = q
    <3>1. history[q][u] # NoContent <=> u <= revision[q]
      BY DEF RowInv, HistoryComplete
    <3>2. revision'[x] = revision[q] + 1
      BY <1>4, <1>12, <2>2
    <3>3. CASE u = v
      <4>1. history'[x][u] = Current(q)
        BY <1>14, <2>2, <3>3
      <4>2. u = revision[q] + 1
        BY <1>4, <3>3
      <4>3. QED BY <1>1, <1>3, <3>2, <4>1, <4>2
    <3>4. CASE u # v
      <4>1. history'[x][u] = history[q][u]
        BY <1>14, <2>2, <3>4
      <4>2. QED BY <1>1, <1>3, <1>4, <3>1, <3>2, <3>4, <4>1
    <3>5. QED BY <3>3, <3>4
  <2>3. CASE x \notin {p, q}
    <3>1. history'[x] = history[x] /\ revision'[x] = revision[x]
      BY <1>12, <1>13, <2>3
    <3>2. QED BY <3>1 DEF RowInv, HistoryComplete
  <2>4. QED BY <2>1, <2>2, <2>3
<1>16. Existing' = Existing \ {p}
  <2>1. \A x \in Profiles : revision'[x] > 0 <=> revision[x] > 0 /\ x # p
    BY <1>3, <1>4, <1>12
  <2>2. QED BY <2>1 DEF Existing
<1>17. \A x \in Existing' : Current(x)' = Current(x)
  <2> SUFFICES ASSUME NEW x \in Existing' PROVE Current(x)' = Current(x)
    OBVIOUS
  <2>1. CASE x = q
    BY <1>12, <1>14, <2>1 DEF Current
  <2>2. CASE x # q
    BY <1>12, <1>13, <1>16, <2>2 DEF Current, Existing
  <2>3. QED BY <2>1, <2>2
<1>18. isActive' \in [Profiles -> BOOLEAN]
  BY <1>2
<1>19. QED BY <1>10, <1>11, <1>15, <1>16, <1>17, <1>18 DEF Snapshots

(* What editors hold and what is known of the user's choice, after any     *)
(* answer or deletion.                                                     *)
LEMMA AnswerType ==
  ASSUME held \in [Editors -> Readings], NEW e \in Editors, NEW p \in Profiles,
         NEW v \in 0..MaxRevision, NEW d \in Contents, Answer(e, p, v, d)
  PROVE  held' \in [Editors -> Readings]
<1>1. Reading(p, v, d) \in Readings
  BY DEF Reading, Readings
<1>2. QED BY <1>1 DEF Answer

LEMMA OutlivedType ==
  ASSUME held \in [Editors -> Readings], NEW p \in Profiles, Outlived(p)
  PROVE  held' \in [Editors -> Readings]
<1>1. SUFFICES ASSUME NEW e \in Editors
               PROVE  [held[e] EXCEPT !.fresh = @ /\ held[e].profile # p] \in Readings
  BY DEF Outlived
<1>2. held[e] \in Readings
  OBVIOUS
<1>3. (held[e].fresh /\ held[e].profile # p) \in BOOLEAN
  OBVIOUS
<1>4. QED BY <1>2, <1>3 DEF Readings

LEMMA GhostType ==
  ASSUME ProfileTypeOK, NEW p \in Profiles, NEW e \in Editors
  PROVE  /\ \A d \in Contents \union {NoContent} :
              Chose(p, d) => chosen' \in Contents \union {NoContent, Untouched}
         /\ Overwrites(e, p) => lost' \in {"nothing", "within", "across"}
BY DEF ProfileTypeOK, Chose, Overwrites

LEMMA RowInit == Init => RowInv
<1> SUFFICES ASSUME Init PROVE RowInv
  OBVIOUS
<1>1. /\ MaxRevision \in Nat /\ MaxRevision >= 1 /\ BuiltinVersion \in Nat
      /\ NoContent \notin Contents /\ NoProfile \notin Profiles /\ Builtin \in Profiles
  BY StoreConstants
<1>2. PICK kept \in SUBSET Profiles,
           d \in {Fixture[n] : n \in 1..BuiltinVersion} \union Drafts :
       /\ revision = [p \in Profiles |-> IF p \in kept THEN 1 ELSE 0]
       /\ history = [p \in Profiles |-> IF p \in kept THEN [NoHistory EXCEPT ![1] = d]
                                        ELSE NoHistory]
       /\ \E p \in kept \union {NoProfile} :
            /\ p = NoProfile => kept = {}
            /\ isActive = [q \in Profiles |-> q = p]
       /\ marker \in IF kept = {} THEN {0} ELSE 0..BuiltinVersion
       /\ chosen = IF Builtin \notin kept
                     THEN IF marker = 0 THEN Untouched ELSE NoContent
                     ELSE IF marker > 0 /\ d = Fixture[marker] THEN Untouched ELSE d
  BY DEF Init
<1>3. d \in Contents /\ Valid(d)
  BY StoreConstants
<1>4. PICK first \in kept \union {NoProfile} :
        /\ first = NoProfile => kept = {}
        /\ isActive = [q \in Profiles |-> q = first]
  BY <1>2
<1>5. NoHistory \in [1..MaxRevision -> Contents \union {NoContent}]
  BY DEF NoHistory
<1>6. [NoHistory EXCEPT ![1] = d] \in [1..MaxRevision -> Contents \union {NoContent}]
  BY <1>3, <1>5
<1>7. /\ revision \in [Profiles -> 0..MaxRevision]
      /\ isActive \in [Profiles -> BOOLEAN]
      /\ history \in [Profiles -> [1..MaxRevision -> Contents \union {NoContent}]]
  BY <1>1, <1>2, <1>4, <1>5, <1>6
<1>8. Nothing \in Readings
  BY <1>1 DEF Nothing, Readings
<1>9. marker \in 0..BuiltinVersion /\ lost = "nothing" /\ held = [e \in Editors |-> Nothing]
  BY <1>1, <1>2 DEF Init
<1>10. chosen \in Contents \union {NoContent, Untouched}
  BY <1>2, <1>3
<1>11. ProfileTypeOK
  BY <1>7, <1>8, <1>9, <1>10 DEF ProfileTypeOK
<1>12. HistoryComplete
  <2> SUFFICES ASSUME NEW p \in Profiles, NEW v \in 1..MaxRevision
               PROVE  history[p][v] # NoContent <=> v <= revision[p]
    BY DEF HistoryComplete
  <2>1. CASE p \in kept
    <3>1. revision[p] = 1 /\ history[p] = [NoHistory EXCEPT ![1] = d]
      BY <1>2, <2>1
    <3>2. v = 1 => history[p][v] = d
      BY <1>5, <3>1
    <3>3. v # 1 => history[p][v] = NoContent
      BY <3>1 DEF NoHistory
    <3>4. QED BY <1>1, <1>3, <3>1, <3>2, <3>3
  <2>2. CASE p \notin kept
    <3>1. revision[p] = 0 /\ history[p][v] = NoContent
      BY <1>2, <2>2 DEF NoHistory
    <3>2. QED BY <1>1, <3>1
  <2>3. QED BY <2>1, <2>2
<1>13. Existing = kept
  BY <1>2 DEF Existing
<1>14. OneSelected
  BY <1>1, <1>4, <1>13 DEF OneSelected
<1>15. CurrentValid
  <2> SUFFICES ASSUME NEW p \in kept PROVE Valid(Current(p))
    BY <1>13 DEF CurrentValid
  <2>1. revision[p] = 1 /\ history[p] = [NoHistory EXCEPT ![1] = d]
    BY <1>2
  <2>2. Current(p) = d
    BY <1>1, <1>5, <2>1 DEF Current
  <2>3. QED BY <1>3, <2>2
<1>16. QED BY <1>11, <1>12, <1>14, <1>15 DEF RowInv

LEMMA StartKeepsRows ==
  ASSUME RowInv, Start
  PROVE  RowInv'
<1>1. BuiltinVersion \in Nat /\ BuiltinVersion >= 1 /\ Builtin \in Profiles
  BY StoreConstants
<1>2. Fixture[BuiltinVersion] \in Contents /\ Valid(Fixture[BuiltinVersion])
  <2>1. BuiltinVersion \in 1..BuiltinVersion
    BY <1>1
  <2>2. QED BY <2>1, StoreConstants
<1>3. marker' \in 0..BuiltinVersion /\ held' = held /\ chosen' = chosen /\ lost' = lost
  BY <1>1 DEF Start, ghostVars
<1>4. CASE Insert(Builtin, Fixture[BuiltinVersion])
  BY <1>1, <1>2, <1>3, <1>4, InsertKeeps DEF RowInv, ProfileTypeOK
<1>5. CASE Upgradable /\ Replace(Builtin, Fixture[BuiltinVersion]) /\ UNCHANGED isActive
  <2>1. Builtin \in Existing
    BY <1>5 DEF Upgradable
  <2>2. /\ revision' \in [Profiles -> 0..MaxRevision]
        /\ history' \in [Profiles -> [1..MaxRevision -> Contents \union {NoContent}]]
        /\ HistoryComplete' /\ CurrentValid' /\ Existing' = Existing
    BY <1>2, <1>5, <2>1, ReplaceKeeps
  <2>3. OneSelected'
    BY <1>5, <2>2 DEF RowInv, OneSelected
  <2>4. QED BY <1>3, <1>5, <2>2, <2>3 DEF RowInv, ProfileTypeOK
<1>6. CASE UNCHANGED rowVars
  BY <1>3, <1>6 DEF rowVars, RowInv, ProfileTypeOK, HistoryComplete, OneSelected,
                    CurrentValid, Existing, Current
<1>7. QED BY <1>4, <1>5, <1>6 DEF Start

LEMMA CommitKeepsRows ==
  ASSUME RowInv, NEW e \in Editors, NEW p \in Profiles, NEW d \in Contents, Commit(e, p, d)
  PROVE  RowInv'
<1>1. /\ p \in Existing /\ Valid(d) /\ Replace(p, d)
      /\ Answer(e, p, revision[p] + 1, d) /\ Chose(p, d) /\ Overwrites(e, p)
      /\ isActive' = isActive /\ marker' = marker
  BY DEF Commit, Holds
<1>2. /\ revision' \in [Profiles -> 0..MaxRevision]
      /\ history' \in [Profiles -> [1..MaxRevision -> Contents \union {NoContent}]]
      /\ HistoryComplete' /\ CurrentValid' /\ Existing' = Existing
  BY <1>1, ReplaceKeeps
<1>3. revision[p] + 1 \in 0..MaxRevision
  <2>1. revision[p] \in 1..MaxRevision /\ MaxRevision \in Nat
    BY <1>1, CurrentKnown, StoreConstants DEF RowInv
  <2>2. revision[p] + 1 <= MaxRevision
    BY <1>1 DEF Replace
  <2>3. QED BY <2>1, <2>2
<1>4. held' \in [Editors -> Readings]
  BY <1>1, <1>3, AnswerType DEF RowInv, ProfileTypeOK
<1>5. chosen' \in Contents \union {NoContent, Untouched} /\ lost' \in {"nothing", "within", "across"}
  BY <1>1, GhostType DEF RowInv
<1>6. OneSelected'
  BY <1>1, <1>2 DEF RowInv, OneSelected
<1>7. QED BY <1>1, <1>2, <1>4, <1>5, <1>6 DEF RowInv, ProfileTypeOK

LEMMA InsertingKeepsRows ==
  ASSUME RowInv, NEW e \in Editors, NEW p \in Profiles, NEW d \in Contents, Inserting(e, p, d)
  PROVE  RowInv'
<1>1. /\ Valid(d) /\ Insert(p, d) /\ Answer(e, p, 1, d) /\ Chose(p, d)
      /\ marker' = marker /\ lost' = lost
  BY DEF Inserting
<1>2. 1 \in 0..MaxRevision
  BY StoreConstants
<1>3. held' \in [Editors -> Readings]
  BY <1>1, <1>2, AnswerType DEF RowInv, ProfileTypeOK
<1>4. chosen' \in Contents \union {NoContent, Untouched}
  BY <1>1, GhostType DEF RowInv
<1>5. /\ revision' \in [Profiles -> 0..MaxRevision]
      /\ isActive' \in [Profiles -> BOOLEAN]
      /\ history' \in [Profiles -> [1..MaxRevision -> Contents \union {NoContent}]]
      /\ HistoryComplete' /\ OneSelected' /\ CurrentValid'
  BY <1>1, InsertKeeps
<1>6. QED BY <1>1, <1>3, <1>4, <1>5 DEF RowInv, ProfileTypeOK

LEMMA ActivateKeepsRows ==
  ASSUME RowInv, NEW e \in Editors, NEW p \in Profiles, ActivateProfile(e, p)
  PROVE  RowInv'
<1>1. /\ p \in Existing /\ Replace(p, Current(p))
      /\ Answer(e, p, revision[p] + 1, Current(p))
      /\ isActive' = [q \in Profiles |-> q = p]
      /\ marker' = marker /\ chosen' = chosen /\ lost' = lost
  BY DEF ActivateProfile, Holds, ghostVars
<1>2. Current(p) \in Contents /\ Valid(Current(p)) /\ revision[p] \in 1..MaxRevision
  BY <1>1, CurrentKnown DEF RowInv, CurrentValid
<1>3. /\ revision' \in [Profiles -> 0..MaxRevision]
      /\ history' \in [Profiles -> [1..MaxRevision -> Contents \union {NoContent}]]
      /\ HistoryComplete' /\ CurrentValid' /\ Existing' = Existing
  BY <1>1, <1>2, ReplaceKeeps
<1>4. revision[p] + 1 \in 0..MaxRevision
  <2>1. revision[p] + 1 <= MaxRevision /\ MaxRevision \in Nat
    BY <1>1, StoreConstants DEF Replace
  <2>2. QED BY <1>2, <2>1
<1>5. held' \in [Editors -> Readings]
  BY <1>1, <1>2, <1>4, AnswerType DEF RowInv, ProfileTypeOK
<1>6. OneSelected'
  BY <1>1, <1>3 DEF OneSelected
<1>7. isActive' \in [Profiles -> BOOLEAN]
  BY <1>1
<1>8. QED BY <1>1, <1>3, <1>5, <1>6, <1>7 DEF RowInv, ProfileTypeOK

LEMMA DeleteInactiveKeepsRows ==
  ASSUME RowInv, NEW e \in Editors, NEW p \in Profiles, DeleteInactiveProfile(e, p)
  PROVE  RowInv'
<1>1. /\ p \in Existing /\ ~isActive[p] /\ Erase(p) /\ Outlived(p)
      /\ Chose(p, NoContent) /\ Overwrites(e, p) /\ marker' = marker
  BY DEF DeleteInactiveProfile, Holds
<1>2. /\ revision' \in [Profiles -> 0..MaxRevision]
      /\ isActive' \in [Profiles -> BOOLEAN]
      /\ history' \in [Profiles -> [1..MaxRevision -> Contents \union {NoContent}]]
      /\ HistoryComplete'
      /\ Existing' = Existing \ {p}
      /\ \A q \in Profiles : isActive'[q] = isActive[q]
      /\ \A q \in Existing' : Current(q)' = Current(q)
  BY <1>1, EraseKeeps
<1>3. held' \in [Editors -> Readings]
  BY <1>1, OutlivedType DEF RowInv, ProfileTypeOK
<1>4. chosen' \in Contents \union {NoContent, Untouched} /\ lost' \in {"nothing", "within", "across"}
  BY <1>1, GhostType DEF RowInv
<1>5. OneSelected'
  BY <1>1, <1>2 DEF RowInv, OneSelected
<1>6. CurrentValid'
  BY <1>2 DEF RowInv, CurrentValid
<1>7. QED BY <1>1, <1>2, <1>3, <1>4, <1>5, <1>6 DEF RowInv, ProfileTypeOK

LEMMA DeleteActiveKeepsRows ==
  ASSUME RowInv, NEW e \in Editors, NEW p \in Profiles, NEW q \in Profiles,
         DeleteActiveProfile(e, p, q)
  PROVE  RowInv'
<1>1. /\ p \in Existing /\ q \in Existing \ {p} /\ Outlived(p)
      /\ isActive' = [x \in Profiles |-> x = q]
      /\ Chose(p, NoContent) /\ Overwrites(e, p) /\ marker' = marker
  BY DEF DeleteActiveProfile, Holds
<1>2. /\ revision' \in [Profiles -> 0..MaxRevision]
      /\ isActive' \in [Profiles -> BOOLEAN]
      /\ history' \in [Profiles -> [1..MaxRevision -> Contents \union {NoContent}]]
      /\ HistoryComplete'
      /\ Existing' = Existing \ {p}
      /\ \A x \in Existing' : Current(x)' = Current(x)
  BY DeleteActiveKeeps
<1>3. held' \in [Editors -> Readings]
  BY <1>1, OutlivedType DEF RowInv, ProfileTypeOK
<1>4. chosen' \in Contents \union {NoContent, Untouched} /\ lost' \in {"nothing", "within", "across"}
  BY <1>1, GhostType DEF RowInv
<1>5. OneSelected'
  BY <1>1, <1>2 DEF OneSelected
<1>6. CurrentValid'
  BY <1>2 DEF RowInv, CurrentValid
<1>7. QED BY <1>1, <1>2, <1>3, <1>4, <1>5, <1>6 DEF RowInv, ProfileTypeOK

LEMMA RowStep ==
  ASSUME RowInv, [Next]_vars
  PROVE  RowInv'
<1>1. CASE Start
  BY <1>1, StartKeepsRows
<1>2. ASSUME NEW p \in Profiles, SetActiveProfile(p) PROVE RowInv'
  <2>1. /\ p \in Existing /\ isActive' = [q \in Profiles |-> q = p]
        /\ revision' = revision /\ history' = history /\ marker' = marker
        /\ held' = held /\ chosen' = chosen /\ lost' = lost
    BY <1>2 DEF SetActiveProfile, ghostVars
  <2>2. ProfileTypeOK'
    BY <2>1 DEF RowInv, ProfileTypeOK
  <2>3. HistoryComplete' /\ CurrentValid' /\ Existing' = Existing
    BY <2>1 DEF RowInv, HistoryComplete, CurrentValid, Existing, Current
  <2>4. OneSelected'
    BY <2>1, <2>3 DEF OneSelected
  <2>5. QED BY <2>2, <2>3, <2>4 DEF RowInv
<1>3. ASSUME NEW e \in Editors, NEW p \in Profiles, Read(e, p) PROVE RowInv'
  <2>1. /\ p \in Existing /\ held' = [held EXCEPT ![e] = Reading(p, revision[p], Current(p))]
        /\ revision' = revision /\ history' = history /\ isActive' = isActive
        /\ marker' = marker /\ chosen' = chosen /\ lost' = lost
    BY <1>3 DEF Read, rowVars, ghostVars
  <2>2. Current(p) \in Contents /\ revision[p] \in 0..MaxRevision
    BY <2>1, CurrentKnown DEF RowInv, ProfileTypeOK
  <2>3. Reading(p, revision[p], Current(p)) \in Readings
    BY <2>2 DEF Reading, Readings
  <2>4. QED BY <2>1, <2>3 DEF RowInv, ProfileTypeOK, HistoryComplete, OneSelected,
                             CurrentValid, Existing, Current
<1>4. CASE UNCHANGED vars
  BY <1>4 DEF vars, rowVars, ghostVars, RowInv, ProfileTypeOK, HistoryComplete, OneSelected,
              CurrentValid, Existing, Current
<1>5. QED BY <1>1, <1>2, <1>3, <1>4, Steps, CommitKeepsRows, InsertingKeepsRows,
             ActivateKeepsRows, DeleteInactiveKeepsRows, DeleteActiveKeepsRows

LEMMA RowsHold == Spec => []RowInv
<1>1. QED BY RowInit, RowStep, PTL DEF Spec

(* Every variable keeps its type: in particular, the read join always      *)
(* finds a profile (profiles.py _current_profile_row).                     *)
THEOREM StoreTypeCorrect == Spec => []ProfileTypeOK
<1>1. RowInv => ProfileTypeOK
  BY DEF RowInv
<1>2. QED BY <1>1, RowsHold, PTL

(* A store with profiles has exactly one selected (profiles.py activate,   *)
(* delete, create; builtin_profiles.py install).                           *)
THEOREM ExactlyOneSelected == Spec => []OneSelected
<1>1. RowInv => OneSelected
  BY DEF RowInv
<1>2. QED BY <1>1, RowsHold, PTL

(* The snapshots of a profile are exactly those of revisions 1 to the      *)
(* current one (profiles.py _insert_revision, ON DELETE CASCADE).          *)
THEOREM HistoryIsComplete == Spec => []HistoryComplete
<1>1. RowInv => HistoryComplete
  BY DEF RowInv
<1>2. QED BY <1>1, RowsHold, PTL

(* Page operations keep numberings apart, put pages where asked and close  *)
(* gaps, for any number of pages and whatever numbering a client sent; the *)
(* validation of the result refuses a creation exactly when it brings a    *)
(* button of another page, and no other operation                          *)
(* (profiles.py create_page, reorder_page, delete_page).                   *)
THEOREM PageOperationsAreSound == Spec => []PageOperationsSound
<1>1. ASSUME RowInv PROVE PageOperationsSound
  <2> SUFFICES ASSUME NEW p \in Existing, NEW g \in Pages, NEW n \in 0..Cardinality(Pages)
               PROVE  LET d == Current(p)
                          others == PagesOf(d) \ {g}
                      IN  /\ MayInsert(d, g, n) => \A some \in (SUBSET Buttons) \ {{}} :
                               LET f == Inserted(d, g, n, some)
                               IN  /\ Valid(f) <=> ButtonsFree(d, some)
                                   /\ f.orders[g] = n /\ SameSequence(d, f, others)
                          /\ MayMove(d, g, n) =>
                               LET f == Moved(d, g, n)
                               IN  Valid(f) /\ f.orders[g] = n /\ SameSequence(d, f, others)
                                     /\ Dense(f)
                          /\ \A h \in Pages : MayRemove(d, g, h) =>
                               LET f == Removed(d, g, h)
                               IN  Valid(f) /\ SameSequence(d, f, others) /\ Dense(f)
    BY DEF PageOperationsSound
  <2>1. Current(p) \in Contents /\ Valid(Current(p))
    BY <1>1, CurrentKnown DEF RowInv, CurrentValid
  <2>2. n \in Nat /\ n \in Int
    BY SomePagesFinite
  <2>3. MayInsert(Current(p), g, n) => g \notin PagesOf(Current(p))
    BY DEF MayInsert
  <2>4. ASSUME MayInsert(Current(p), g, n), NEW some \in (SUBSET Buttons) \ {{}}
        PROVE  LET f == Inserted(Current(p), g, n, some)
               IN  /\ Valid(f) <=> ButtonsFree(Current(p), some)
                   /\ f.orders[g] = n
                   /\ SameSequence(Current(p), f, PagesOf(Current(p)) \ {g})
    <3>1. some \in SUBSET Buttons /\ some # {} /\ g \notin PagesOf(Current(p))
      BY <2>3, <2>4
    <3>2. QED BY <2>1, <2>2, <3>1, InsertedSound
  <2>5. ASSUME MayMove(Current(p), g, n)
        PROVE  LET f == Moved(Current(p), g, n)
               IN  /\ Valid(f) /\ f.orders[g] = n
                   /\ SameSequence(Current(p), f, PagesOf(Current(p)) \ {g})
                   /\ Dense(f)
    BY <2>1, <2>2, <2>5, MovedSound
  <2>6. ASSUME NEW h \in Pages, MayRemove(Current(p), g, h)
        PROVE  LET f == Removed(Current(p), g, h)
               IN  /\ Valid(f)
                   /\ SameSequence(Current(p), f, PagesOf(Current(p)) \ {g})
                   /\ Dense(f)
    BY <2>1, <2>6, RemovedSound
  <2>7. QED BY <2>4, <2>5, <2>6
<1>2. QED BY <1>1, RowsHold, PTL

-----------------------------------------------------------------------------
(* What an editor has read stays on record while the profile lives.        *)

Recorded(revisions, snapshots, h) ==
  /\ h.profile \in Profiles
  /\ h.revision \in 1..revisions[h.profile]
  /\ snapshots[h.profile][h.revision] = h.content

ReadingsTrue == \A e \in Editors : held[e].fresh => Recorded(revision, history, held[e])

EditorInv == ReadingsTrue /\ NoLostUpdate

(* A step that rewrites no snapshot, but for the profiles it deletes. *)
SnapshotsKept(gone) ==
  \A x \in Profiles \ gone :
    /\ revision[x] <= revision'[x]
    /\ \A v \in 1..revision[x] : history'[x][v] = history[x][v]

LEMMA ReadingStaysTrue ==
  ASSUME RowInv, RowInv', NEW gone, SnapshotsKept(gone), NEW h, Recorded(revision, history, h),
         h.profile \notin gone
  PROVE  Recorded(revision', history', h)
<1>1. /\ revision[h.profile] \in Int /\ revision'[h.profile] \in Int
  BY DEF Recorded, RowInv, ProfileTypeOK
<1>2. /\ revision[h.profile] <= revision'[h.profile]
      /\ history'[h.profile][h.revision] = history[h.profile][h.revision]
  BY DEF SnapshotsKept, Recorded
<1>3. h.revision \in 1..revision'[h.profile]
  BY <1>1, <1>2 DEF Recorded
<1>4. QED BY <1>2, <1>3 DEF Recorded

LEMMA InsertKeepsSnapshots ==
  ASSUME RowInv, NEW p \in Profiles, NEW d \in Contents, Insert(p, d)
  PROVE  SnapshotsKept({})
<1>1. /\ revision[p] = 0 /\ revision' = [revision EXCEPT ![p] = 1]
      /\ history' = [history EXCEPT ![p][1] = d]
  BY DEF Insert
<1>2. \A x \in Profiles : revision[x] \in Int
  BY DEF RowInv, ProfileTypeOK
<1>3. revision \in [Profiles -> 0..MaxRevision]
      /\ history \in [Profiles -> [1..MaxRevision -> Contents \union {NoContent}]]
  BY DEF RowInv, ProfileTypeOK
<1>4. ASSUME NEW x \in Profiles
      PROVE  /\ revision[x] <= revision'[x]
             /\ \A v \in 1..revision[x] : history'[x][v] = history[x][v]
  <2>1. CASE x = p
    BY <1>1, <1>3, <2>1
  <2>2. CASE x # p
    BY <1>1, <1>2, <1>3, <2>2
  <2>3. QED BY <2>1, <2>2
<1>5. QED BY <1>4 DEF SnapshotsKept

LEMMA ReplaceKeepsSnapshots ==
  ASSUME RowInv, NEW p \in Existing, NEW d \in Contents, Replace(p, d)
  PROVE  /\ SnapshotsKept({})
         /\ revision'[p] = revision[p] + 1
         /\ history'[p][revision[p] + 1] = d
<1>1. /\ revision' = [revision EXCEPT ![p] = revision[p] + 1]
      /\ history' = [history EXCEPT ![p][revision[p] + 1] = d]
      /\ revision[p] + 1 <= MaxRevision
  BY DEF Replace
<1>2. p \in Profiles /\ revision[p] \in 1..MaxRevision /\ MaxRevision \in Nat
  BY CurrentKnown, StoreConstants DEF RowInv
<1>3. revision \in [Profiles -> 0..MaxRevision]
      /\ history \in [Profiles -> [1..MaxRevision -> Contents \union {NoContent}]]
  BY DEF RowInv, ProfileTypeOK
<1>4. revision[p] + 1 \in 1..MaxRevision
  BY <1>1, <1>2
<1>5. ASSUME NEW x \in Profiles
      PROVE  /\ revision[x] <= revision'[x]
             /\ \A v \in 1..revision[x] : history'[x][v] = history[x][v]
  <2>1. CASE x = p
    <3>1. revision'[x] = revision[x] + 1
      BY <1>1, <1>3, <2>1
    <3>2. history'[x] = [history[x] EXCEPT ![revision[x] + 1] = d]
      BY <1>1, <1>3, <2>1
    <3>3. \A v \in 1..revision[x] : v # revision[x] + 1 /\ v \in 1..MaxRevision
      BY <1>2, <2>1
    <3>4. \A v \in 1..revision[x] : history'[x][v] = history[x][v]
      BY <3>2, <3>3
    <3>5. QED BY <1>2, <2>1, <3>1, <3>4
  <2>2. CASE x # p
    <3>1. revision'[x] = revision[x] /\ history'[x] = history[x] /\ revision[x] \in Int
      BY <1>1, <1>3, <2>2
    <3>2. QED BY <3>1
  <2>3. QED BY <2>1, <2>2
<1>6. SnapshotsKept({})
  BY <1>5 DEF SnapshotsKept
<1>7. revision'[p] = revision[p] + 1
  BY <1>1, <1>2, <1>3
<1>8. history'[p][revision[p] + 1] = d
  BY <1>1, <1>2, <1>3, <1>4
<1>9. QED BY <1>6, <1>7, <1>8

LEMMA DeletionKeepsSnapshots ==
  ASSUME RowInv, NEW p \in Existing,
         \/ Erase(p)
         \/ \E q \in Existing \ {p} :
              /\ revision' = [revision EXCEPT ![p] = 0, ![q] = @ + 1]
              /\ history' = [history EXCEPT ![p] = NoHistory, ![q][revision[q] + 1] = Current(q)]
  PROVE  SnapshotsKept({p})
<1>1. revision \in [Profiles -> 0..MaxRevision]
      /\ history \in [Profiles -> [1..MaxRevision -> Contents \union {NoContent}]]
  BY DEF RowInv, ProfileTypeOK
<1>2. p \in Profiles
  BY DEF Existing
<1>3. SUFFICES ASSUME NEW x \in Profiles \ {p}
               PROVE  /\ revision[x] <= revision'[x]
                      /\ \A v \in 1..revision[x] : history'[x][v] = history[x][v]
  BY DEF SnapshotsKept
<1>4. revision[x] \in Int
  BY <1>1
<1>5. CASE Erase(p)
  BY <1>1, <1>4, <1>5 DEF Erase
<1>6. ASSUME NEW q \in Existing \ {p},
             revision' = [revision EXCEPT ![p] = 0, ![q] = @ + 1],
             history' = [history EXCEPT ![p] = NoHistory, ![q][revision[q] + 1] = Current(q)]
      PROVE  /\ revision[x] <= revision'[x]
             /\ \A v \in 1..revision[x] : history'[x][v] = history[x][v]
  <2>1. CASE x = q
    <3>1. revision'[x] = revision[x] + 1
      BY <1>1, <1>2, <1>6, <2>1
    <3>2. history'[x] = [history[x] EXCEPT ![revision[x] + 1] = Current(q)]
      BY <1>1, <1>2, <1>6, <2>1
    <3>3. \A v \in 1..revision[x] : v # revision[x] + 1
      BY <1>4
    <3>4. \A v \in 1..revision[x] : v \in 1..MaxRevision
      BY <1>1, StoreConstants
    <3>5. \A v \in 1..revision[x] : history'[x][v] = history[x][v]
      BY <1>1, <3>2, <3>3, <3>4
    <3>6. QED BY <1>4, <3>1, <3>5
  <2>2. CASE x # q
    <3>1. revision'[x] = revision[x] /\ history'[x] = history[x]
      BY <1>1, <1>6, <2>2
    <3>2. QED BY <1>4, <3>1
  <2>3. QED BY <2>1, <2>2
<1>7. QED BY <1>5, <1>6

(* After a step that deletes no profile an editor read, and gives at most  *)
(* one editor a new, true reading, every reading is true.                  *)
LEMMA AnswersAreTrue ==
  ASSUME RowInv, RowInv', ReadingsTrue, SnapshotsKept({}), NEW e \in Editors,
         NEW h \in Readings, Recorded(revision', history', h), held' \in {held, [held EXCEPT ![e] = h]}
  PROVE  ReadingsTrue'
<1>1. SUFFICES ASSUME NEW x \in Editors, held'[x].fresh PROVE Recorded(revision', history', held'[x])
  BY DEF ReadingsTrue
<1>2. held'[x] = held[x] \/ held'[x] = h
  BY DEF RowInv, ProfileTypeOK
<1>3. CASE held'[x] = h
  BY <1>3 DEF Recorded
<1>4. CASE held'[x] = held[x]
  <2>1. Recorded(revision, history, held[x]) /\ held[x].profile \notin {}
    BY <1>1, <1>4 DEF ReadingsTrue
  <2>2. Recorded(revision', history', held[x])
    BY <2>1, ReadingStaysTrue
  <2>3. QED BY <1>4, <2>2 DEF Recorded
<1>5. QED BY <1>2, <1>3, <1>4

LEMMA DeletionLeavesTrue ==
  ASSUME RowInv, RowInv', ReadingsTrue, NEW p \in Existing, SnapshotsKept({p}), Outlived(p)
  PROVE  ReadingsTrue'
<1>1. SUFFICES ASSUME NEW x \in Editors, held'[x].fresh PROVE Recorded(revision', history', held'[x])
  BY DEF ReadingsTrue
<1>2. held'[x] = [held[x] EXCEPT !.fresh = @ /\ held[x].profile # p]
  BY DEF Outlived
<1>3. held[x] \in Readings
  BY DEF RowInv, ProfileTypeOK
<1>4. /\ held'[x].profile = held[x].profile /\ held'[x].revision = held[x].revision
      /\ held'[x].content = held[x].content
      /\ held[x].fresh /\ held[x].profile # p
  BY <1>1, <1>2, <1>3 DEF Readings
<1>5. Recorded(revision, history, held[x])
  BY <1>4 DEF ReadingsTrue
<1>6. Recorded(revision', history', held[x])
  BY <1>4, <1>5, ReadingStaysTrue
<1>7. QED BY <1>4, <1>6 DEF Recorded

(* A fresh reading at the current revision is the current content. *)
LEMMA FreshIsCurrent ==
  ASSUME ReadingsTrue, NEW e \in Editors, NEW p \in Profiles, Holds(e, p), held[e].fresh
  PROVE  held[e].content = Current(p)
BY DEF ReadingsTrue, Recorded, Holds, Current

LEMMA WritesAreSeen ==
  ASSUME EditorInv, NEW e \in Editors, NEW p \in Profiles, Holds(e, p), Overwrites(e, p)
  PROVE  NoLostUpdate'
BY FreshIsCurrent DEF EditorInv, Overwrites, NoLostUpdate

LEMMA EditorInit == Init => EditorInv
BY DEF Init, EditorInv, ReadingsTrue, NoLostUpdate, Nothing

LEMMA EditorStep ==
  ASSUME RowInv, RowInv', EditorInv, [Next]_vars
  PROVE  EditorInv'
<1> USE DEF EditorInv
<1>1. ASSUME held' = held, lost' = lost, SnapshotsKept({}) PROVE EditorInv'
  <2>1. ASSUME NEW x \in Editors, held'[x].fresh PROVE Recorded(revision', history', held'[x])
    <3>1. Recorded(revision, history, held[x])
      BY <1>1, <2>1 DEF ReadingsTrue
    <3>2. Recorded(revision', history', held[x])
      BY <1>1, <3>1, ReadingStaysTrue
    <3>3. QED BY <1>1, <3>2 DEF Recorded
  <2>2. QED BY <1>1, <2>1 DEF ReadingsTrue, NoLostUpdate
<1>2. ASSUME revision' = revision, history' = history PROVE SnapshotsKept({})
  <2>1. \A x \in Profiles : revision[x] <= revision[x]
    BY DEF RowInv, ProfileTypeOK
  <2>2. QED BY <1>2, <2>1 DEF SnapshotsKept
<1>3. CASE Start
  <2>1. held' = held /\ lost' = lost
    BY <1>3 DEF Start, ghostVars
  <2>2. Fixture[BuiltinVersion] \in Contents /\ Builtin \in Profiles
    <3>1. BuiltinVersion \in 1..BuiltinVersion
      BY StoreConstants
    <3>2. QED BY <3>1, StoreConstants
  <2>3. CASE Insert(Builtin, Fixture[BuiltinVersion])
    BY <1>1, <2>1, <2>2, <2>3, InsertKeepsSnapshots
  <2>4. CASE Upgradable /\ Replace(Builtin, Fixture[BuiltinVersion])
    BY <1>1, <2>1, <2>2, <2>4, ReplaceKeepsSnapshots DEF Upgradable
  <2>5. CASE UNCHANGED rowVars
    BY <1>1, <1>2, <2>1, <2>5 DEF rowVars
  <2>6. QED BY <1>3, <2>3, <2>4, <2>5 DEF Start
<1>4. ASSUME NEW p \in Profiles, SetActiveProfile(p) PROVE EditorInv'
  BY <1>1, <1>2, <1>4 DEF SetActiveProfile, ghostVars
<1>5. ASSUME NEW e \in Editors, NEW p \in Profiles, Read(e, p) PROVE EditorInv'
  <2> DEFINE h == Reading(p, revision[p], Current(p))
  <2>1. /\ p \in Existing /\ held' = [held EXCEPT ![e] = h]
        /\ revision' = revision /\ history' = history /\ lost' = lost
    BY <1>5 DEF Read, rowVars, ghostVars
  <2>2. revision[p] \in 1..MaxRevision /\ Current(p) \in Contents
    BY <2>1, CurrentKnown DEF RowInv
  <2>3. h \in Readings
    BY <2>2, StoreConstants DEF Reading, Readings
  <2>4. /\ h.profile = p /\ h.revision = revision[p] /\ h.content = history[p][revision[p]]
    BY DEF Reading, Current
  <2> HIDE DEF h
  <2>5. h.profile \in Profiles /\ h.revision \in 1..revision'[h.profile]
    BY <2>1, <2>2, <2>4
  <2>6. history'[h.profile][h.revision] = h.content
    BY <2>1, <2>4
  <2>7. Recorded(revision', history', h)
    BY <2>5, <2>6 DEF Recorded
  <2>8. ReadingsTrue'
    BY <1>2, <2>1, <2>3, <2>7, AnswersAreTrue
  <2>9. QED BY <2>1, <2>8 DEF NoLostUpdate
<1>6. ASSUME NEW e \in Editors, NEW p \in Existing, NEW d \in Contents,
             Replace(p, d), Answer(e, p, revision[p] + 1, d)
      PROVE  ReadingsTrue'
  <2> DEFINE h == Reading(p, revision[p] + 1, d)
  <2>1. /\ SnapshotsKept({}) /\ revision'[p] = revision[p] + 1
        /\ history'[p][revision[p] + 1] = d
    BY <1>6, ReplaceKeepsSnapshots
  <2>2. p \in Profiles /\ revision[p] \in 1..MaxRevision /\ revision[p] + 1 <= MaxRevision
    BY <1>6, CurrentKnown DEF RowInv, Replace
  <2>3. revision[p] + 1 \in 0..MaxRevision /\ revision[p] + 1 \in 1..revision'[p]
    BY <2>1, <2>2, StoreConstants
  <2>4. h \in Readings
    BY <2>2, <2>3 DEF Reading, Readings
  <2>5. h.profile = p /\ h.revision = revision[p] + 1 /\ h.content = d
    BY DEF Reading
  <2>6. held' \in {held, [held EXCEPT ![e] = h]}
    BY <1>6 DEF Answer
  <2> HIDE DEF h
  <2>7. Recorded(revision', history', h)
    <3>1. h.profile \in Profiles /\ h.revision \in 1..revision'[h.profile]
      BY <2>2, <2>3, <2>5
    <3>2. history'[h.profile][h.revision] = h.content
      BY <2>1, <2>5
    <3>3. QED BY <3>1, <3>2 DEF Recorded
  <2>8. QED BY <2>1, <2>4, <2>6, <2>7, AnswersAreTrue
<1>7. ASSUME NEW e \in Editors, NEW p \in Profiles, NEW d \in Contents, Commit(e, p, d)
      PROVE  EditorInv'
  <2>1. /\ p \in Existing /\ Holds(e, p) /\ Overwrites(e, p)
        /\ Replace(p, d) /\ Answer(e, p, revision[p] + 1, d)
    BY <1>7 DEF Commit, Holds
  <2>2. ReadingsTrue'
    BY <1>6, <2>1
  <2>3. QED BY <2>1, <2>2, WritesAreSeen
<1>8. ASSUME NEW e \in Editors, NEW p \in Profiles, NEW d \in Contents, Inserting(e, p, d)
      PROVE  EditorInv'
  <2> DEFINE h == Reading(p, 1, d)
  <2>1. Insert(p, d) /\ lost' = lost /\ held' \in {held, [held EXCEPT ![e] = h]}
    BY <1>8 DEF Inserting, Answer
  <2>2. SnapshotsKept({})
    BY <2>1, InsertKeepsSnapshots
  <2>3. h \in Readings /\ h.profile = p /\ h.revision = 1 /\ h.content = d
    BY StoreConstants DEF Reading, Readings
  <2>4. revision'[p] = 1 /\ history'[p][1] = d
    <3>1. 1 \in 1..MaxRevision
      BY StoreConstants
    <3>2. QED BY <2>1, <3>1 DEF Insert, RowInv, ProfileTypeOK
  <2> HIDE DEF h
  <2>5. Recorded(revision', history', h)
    <3>1. h.profile \in Profiles /\ h.revision \in 1..revision'[h.profile]
      BY <2>3, <2>4
    <3>2. history'[h.profile][h.revision] = h.content
      BY <2>3, <2>4
    <3>3. QED BY <3>1, <3>2 DEF Recorded
  <2>6. ReadingsTrue'
    BY <2>1, <2>2, <2>3, <2>5, AnswersAreTrue
  <2>7. QED BY <2>1, <2>6 DEF NoLostUpdate
<1>9. ASSUME NEW e \in Editors, NEW p \in Profiles, ActivateProfile(e, p) PROVE EditorInv'
  <2>1. /\ p \in Existing /\ Replace(p, Current(p)) /\ lost' = lost
        /\ Answer(e, p, revision[p] + 1, Current(p))
    BY <1>9 DEF ActivateProfile, Holds, ghostVars
  <2>2. Current(p) \in Contents
    BY <2>1, CurrentKnown DEF RowInv
  <2>3. ReadingsTrue'
    BY <1>6, <2>1, <2>2
  <2>4. QED BY <2>1, <2>3 DEF NoLostUpdate
<1>10. ASSUME NEW e \in Editors, NEW p \in Profiles, DeleteInactiveProfile(e, p)
       PROVE  EditorInv'
  <2>1. p \in Existing /\ Holds(e, p) /\ Erase(p) /\ Outlived(p) /\ Overwrites(e, p)
    BY <1>10 DEF DeleteInactiveProfile, Holds
  <2>2. QED BY <2>1, DeletionKeepsSnapshots, DeletionLeavesTrue, WritesAreSeen
<1>11. ASSUME NEW e \in Editors, NEW p \in Profiles, NEW q \in Profiles,
              DeleteActiveProfile(e, p, q)
       PROVE  EditorInv'
  <2>1. /\ p \in Existing /\ q \in Existing \ {p}
        /\ Holds(e, p) /\ Outlived(p) /\ Overwrites(e, p)
        /\ revision' = [revision EXCEPT ![p] = 0, ![q] = @ + 1]
        /\ history' = [history EXCEPT ![p] = NoHistory, ![q][revision[q] + 1] = Current(q)]
    BY <1>11 DEF DeleteActiveProfile, Holds
  <2>2. SnapshotsKept({p})
    BY <2>1, DeletionKeepsSnapshots
  <2>3. QED BY <2>1, <2>2, DeletionLeavesTrue, WritesAreSeen
<1>12. CASE UNCHANGED vars
  BY <1>1, <1>2, <1>12 DEF vars, rowVars, ghostVars
<1>13. QED BY <1>3, <1>4, <1>5, <1>7, <1>8, <1>9, <1>10, <1>11, <1>12, Steps

(* No write replaces content its editor has not seen, while the profile    *)
(* lives (profiles.py _check_expected_revision inside every transaction).  *)
THEOREM NoUpdateIsLost == Spec => []NoLostUpdate
<1>1. EditorInv => NoLostUpdate
  BY DEF EditorInv
<1>2. QED BY <1>1, RowInit, RowStep, EditorInit, EditorStep, PTL DEF Spec

-----------------------------------------------------------------------------
(* The user's word on the builtin profile.                                 *)

(* A store in which the builtin profile was never installed has not seen   *)
(* it deleted either: Start may insert it.                                 *)
ChoiceInv == UserChoiceSurvives /\ (marker = 0 => chosen # NoContent)

LEMMA ChoiceInit == Init => ChoiceInv
<1> SUFFICES ASSUME Init PROVE ChoiceInv
  OBVIOUS
<1>1. /\ MaxRevision \in Nat /\ MaxRevision >= 1
      /\ NoContent \notin Contents /\ Untouched \notin Contents /\ Untouched # NoContent
      /\ Builtin \in Profiles
  BY StoreConstants
<1>2. PICK kept \in SUBSET Profiles,
           d \in {Fixture[n] : n \in 1..BuiltinVersion} \union Drafts :
       /\ revision = [p \in Profiles |-> IF p \in kept THEN 1 ELSE 0]
       /\ history = [p \in Profiles |-> IF p \in kept THEN [NoHistory EXCEPT ![1] = d]
                                        ELSE NoHistory]
       /\ chosen = IF Builtin \notin kept
                     THEN IF marker = 0 THEN Untouched ELSE NoContent
                     ELSE IF marker > 0 /\ d = Fixture[marker] THEN Untouched ELSE d
  BY DEF Init
<1>3. d \in Contents
  BY StoreConstants
<1>4. Existing = kept
  BY <1>2 DEF Existing
<1>5. Builtin \in kept => Current(Builtin) = d
  BY <1>1, <1>2, <1>3 DEF Current, NoHistory
<1>6. QED BY <1>1, <1>2, <1>3, <1>4, <1>5 DEF ChoiceInv, UserChoiceSurvives

(* A step that leaves the builtin profile's content alone. *)
LEMMA ChoiceUndisturbed ==
  ASSUME ChoiceInv, chosen' = chosen, marker' = marker \/ marker' # 0,
         Builtin \in Existing' <=> Builtin \in Existing,
         Builtin \in Existing => Current(Builtin)' = Current(Builtin)
  PROVE  ChoiceInv'
BY DEF ChoiceInv, UserChoiceSurvives

(* A write that becomes what the user made of it. *)
LEMMA ChoiceMade ==
  ASSUME NEW p \in Profiles, NEW d \in Contents, RowInv, ChoiceInv, Chose(p, d),
         marker' = marker, p \in Existing', Current(p)' = d,
         p # Builtin => /\ Builtin \in Existing' <=> Builtin \in Existing
                        /\ Builtin \in Existing => Current(Builtin)' = Current(Builtin)
  PROVE  ChoiceInv'
<1>1. NoContent \notin Contents
  BY StoreConstants
<1>2. CASE p = Builtin
  BY <1>1, <1>2 DEF ChoiceInv, UserChoiceSurvives, Chose
<1>3. CASE p # Builtin
  BY <1>3, ChoiceUndisturbed DEF Chose
<1>4. QED BY <1>2, <1>3

(* A deletion. *)
LEMMA ChoiceDeleted ==
  ASSUME NEW p \in Profiles, RowInv, ChoiceInv, Started, Chose(p, NoContent), marker' = marker,
         Existing' = Existing \ {p},
         \A x \in Existing' : Current(x)' = Current(x)
  PROVE  ChoiceInv'
<1>1. NoContent \notin Contents /\ marker # 0
  BY StoreConstants DEF Started
<1>2. CASE p = Builtin
  BY <1>1, <1>2 DEF ChoiceInv, UserChoiceSurvives, Chose
<1>3. CASE p # Builtin
  BY <1>3, ChoiceUndisturbed DEF Chose
<1>4. QED BY <1>2, <1>3

LEMMA ChoiceStep ==
  ASSUME RowInv, ChoiceInv, [Next]_vars
  PROVE  ChoiceInv'
<1>1. CASE Start
  <2>1. /\ BuiltinVersion \in Nat /\ BuiltinVersion # 0 /\ Builtin \in Profiles
        /\ NoContent \notin Contents
    BY StoreConstants
  <2>2. Fixture[BuiltinVersion] \in Contents /\ Valid(Fixture[BuiltinVersion])
    <3>1. BuiltinVersion \in 1..BuiltinVersion
      BY <2>1
    <3>2. QED BY <3>1, StoreConstants
  <2>3. marker' # 0 /\ chosen' = chosen
    BY <1>1, <2>1 DEF Start, ghostVars
  <2>4. CASE marker = 0 /\ Builtin \notin Existing /\ Insert(Builtin, Fixture[BuiltinVersion])
    <3>1. chosen \notin Contents /\ chosen # NoContent
      BY <2>4 DEF ChoiceInv, UserChoiceSurvives
    <3>2. QED BY <2>3, <3>1 DEF ChoiceInv, UserChoiceSurvives
  <2>5. CASE /\ marker \in 1..(BuiltinVersion - 1) /\ Upgradable
             /\ Replace(Builtin, Fixture[BuiltinVersion])
    <3>1. Builtin \in Existing /\ Current(Builtin) = Fixture[marker]
      BY <2>5 DEF Upgradable
    <3>2. Existing' = Existing
      BY <2>2, <2>5, <3>1, ReplaceKeeps
    <3>3. marker \in 1..BuiltinVersion
      BY <2>1, <2>5
    <3>4. chosen \in Contents => \E n \in 1..BuiltinVersion : chosen = Fixture[n]
      BY <3>1, <3>3 DEF ChoiceInv, UserChoiceSurvives
    <3>5. QED BY <2>3, <3>1, <3>2, <3>4 DEF ChoiceInv, UserChoiceSurvives
  <2>6. CASE UNCHANGED rowVars
    BY <2>3, <2>6, ChoiceUndisturbed DEF rowVars, Existing, Current
  <2>7. QED BY <1>1, <2>4, <2>5, <2>6 DEF Start
<1>2. ASSUME NEW p \in Profiles, SetActiveProfile(p) PROVE ChoiceInv'
  BY <1>2, ChoiceUndisturbed DEF SetActiveProfile, ghostVars, Existing, Current
<1>3. ASSUME NEW e \in Editors, NEW p \in Profiles, Read(e, p) PROVE ChoiceInv'
  BY <1>3, ChoiceUndisturbed DEF Read, rowVars, ghostVars, Existing, Current
<1>4. ASSUME NEW e \in Editors, NEW p \in Profiles, NEW d \in Contents, Commit(e, p, d)
      PROVE  ChoiceInv'
  <2>1. /\ p \in Existing /\ Valid(d) /\ Replace(p, d) /\ Chose(p, d) /\ marker' = marker
    BY <1>4 DEF Commit, Holds
  <2>2. /\ Existing' = Existing /\ Current(p)' = d
        /\ \A q \in Existing : q # p => Current(q)' = Current(q)
    BY <2>1, ReplaceKeeps
  <2>3. QED BY <2>1, <2>2, ChoiceMade
<1>5. ASSUME NEW e \in Editors, NEW p \in Profiles, NEW d \in Contents, Inserting(e, p, d)
      PROVE  ChoiceInv'
  <2>1. Valid(d) /\ Insert(p, d) /\ Chose(p, d) /\ marker' = marker
    BY <1>5 DEF Inserting
  <2>2. /\ Existing' = Existing \union {p} /\ Current(p)' = d
        /\ \A q \in Existing : q # p => Current(q)' = Current(q)
    BY <2>1, InsertKeeps
  <2>3. QED BY <2>1, <2>2, ChoiceMade
<1>6. ASSUME NEW e \in Editors, NEW p \in Profiles, ActivateProfile(e, p) PROVE ChoiceInv'
  <2>1. /\ p \in Existing /\ Replace(p, Current(p)) /\ marker' = marker /\ chosen' = chosen
    BY <1>6 DEF ActivateProfile, Holds, ghostVars
  <2>2. Current(p) \in Contents /\ Valid(Current(p))
    BY <2>1, CurrentKnown DEF RowInv, CurrentValid
  <2>3. /\ Existing' = Existing /\ Current(p)' = Current(p)
        /\ \A q \in Existing : q # p => Current(q)' = Current(q)
    BY <2>1, <2>2, ReplaceKeeps
  <2>4. QED BY <2>1, <2>3, ChoiceUndisturbed
<1>7. ASSUME NEW e \in Editors, NEW p \in Profiles, DeleteInactiveProfile(e, p)
      PROVE  ChoiceInv'
  <2>1. /\ Started /\ p \in Existing /\ ~isActive[p] /\ Erase(p)
        /\ Chose(p, NoContent) /\ marker' = marker
    BY <1>7 DEF DeleteInactiveProfile, Holds
  <2>2. Existing' = Existing \ {p} /\ \A x \in Existing' : Current(x)' = Current(x)
    BY <2>1, EraseKeeps
  <2>3. QED BY <2>1, <2>2, ChoiceDeleted
<1>8. ASSUME NEW e \in Editors, NEW p \in Profiles, NEW q \in Profiles,
             DeleteActiveProfile(e, p, q)
      PROVE  ChoiceInv'
  <2>1. Started /\ Chose(p, NoContent) /\ marker' = marker
    BY <1>8 DEF DeleteActiveProfile, Holds
  <2>2. Existing' = Existing \ {p} /\ \A x \in Existing' : Current(x)' = Current(x)
    BY <1>8, DeleteActiveKeeps
  <2>3. QED BY <2>1, <2>2, ChoiceDeleted
<1>9. CASE UNCHANGED vars
  BY <1>9, ChoiceUndisturbed DEF vars, rowVars, ghostVars, Existing, Current
<1>10. QED BY <1>1, <1>2, <1>3, <1>4, <1>5, <1>6, <1>7, <1>8, <1>9, Steps

(* No restart or upgrade brings a deleted builtin profile back or writes   *)
(* over one the user has edited (builtin_profiles.py                       *)
(* install_builtin_profiles).                                              *)
THEOREM UserChoiceHolds == Spec => []UserChoiceSurvives
<1>1. ChoiceInv => UserChoiceSurvives
  BY DEF ChoiceInv
<1>2. QED BY <1>1, RowInit, RowStep, ChoiceInit, ChoiceStep, PTL DEF Spec

-----------------------------------------------------------------------------
(* The repository implements RevisionStore.                                *)

LEMMA ChosenOne ==
  ASSUME NEW a, NEW p \in Profiles, a[p], \A q \in Profiles : a[q] => q = p
  PROVE  (IF \E q \in Profiles : a[q] THEN CHOOSE q \in Profiles : a[q] ELSE NoProfile) = p
OBVIOUS

LEMMA SelectedIs ==
  ASSUME OneSelected, NEW p \in Profiles, isActive[p]
  PROVE  Selected = p
<1>1. \A q \in Profiles : isActive[q] => q = p
  BY DEF OneSelected
<1>2. QED BY <1>1, ChosenOne DEF Selected

LEMMA SelectedBecomes ==
  ASSUME NEW p \in Profiles, isActive' = [q \in Profiles |-> q = p]
  PROVE  Selected' = p
<1>1. isActive'[p] /\ \A q \in Profiles : isActive'[q] => q = p
  OBVIOUS
<1>2. QED BY <1>1, ChosenOne DEF Selected

(* Some existing profile is selected unless there is none. *)
LEMMA SelectedKnown ==
  ASSUME RowInv
  PROVE  /\ IF Existing = {} THEN Selected = NoProfile ELSE Selected \in Existing
         /\ \A p \in Profiles : isActive[p] <=> p = Selected
         /\ Selected = NoProfile <=> ~\E p \in Profiles : isActive[p]
<1>1. NoProfile \notin Profiles
  BY StoreConstants
<1>2. OneSelected
  BY DEF RowInv
<1>3. CASE \E p \in Profiles : isActive[p]
  <2>1. PICK p \in Profiles : isActive[p]
    BY <1>3
  <2>2. Selected = p /\ p \in Existing
    BY <1>2, <2>1, SelectedIs DEF OneSelected
  <2>3. \A q \in Profiles : isActive[q] => q = p
    BY <1>2, <2>1 DEF OneSelected
  <2>4. QED BY <1>1, <2>1, <2>2, <2>3
<1>4. CASE ~\E p \in Profiles : isActive[p]
  <2>1. Selected = NoProfile
    BY <1>4 DEF Selected
  <2>2. Existing = {}
    BY <1>2, <1>4 DEF OneSelected
  <2>3. QED BY <1>1, <1>4, <2>1, <2>2
<1>5. QED BY <1>3, <1>4

LEMMA StoreInit ==
  ASSUME RowInv
  PROVE  Store!ConsistentStore
<1>1. revision \in [Profiles -> 0..MaxRevision]
  BY DEF RowInv, ProfileTypeOK
<1>2. IF Existing = {} THEN Selected = NoProfile ELSE Selected \in Existing
  BY SelectedKnown
<1>3. Store!Existing = Existing
  BY DEF Store!Existing, Existing
<1>4. Selected \in Profiles \union {NoProfile}
  BY <1>2 DEF Existing
<1>5. QED BY <1>1, <1>2, <1>3, <1>4 DEF Store!ConsistentStore, Store!StoreTypeOK

(* _insert_profile: the new profile is selected if no other is. *)
LEMMA InsertCreates ==
  ASSUME RowInv, NEW p \in Profiles, NEW d, Insert(p, d)
  PROVE  Store!Create(p)
<1>1. /\ revision[p] = 0 /\ revision' = [revision EXCEPT ![p] = 1] /\ SelectIfNone(p)
  BY DEF Insert
<1>2. isActive \in [Profiles -> BOOLEAN]
  BY DEF RowInv, ProfileTypeOK
<1>3. CASE \E q \in Profiles : isActive[q]
  <2>1. isActive' = isActive /\ Selected # NoProfile
    BY <1>1, <1>3, SelectedKnown DEF SelectIfNone
  <2>2. Selected' = Selected
    BY <2>1 DEF Selected
  <2>3. QED BY <1>1, <2>1, <2>2 DEF Store!Create
<1>4. CASE ~\E q \in Profiles : isActive[q]
  <2>1. isActive' = [q \in Profiles |-> q = p]
    BY <1>1, <1>2, <1>4 DEF SelectIfNone
  <2>2. Selected' = p
    BY <2>1, SelectedBecomes
  <2>3. Selected = NoProfile
    BY <1>4, SelectedKnown
  <2>4. QED BY <1>1, <2>2, <2>3 DEF Store!Create
<1>5. QED BY <1>3, <1>4

(* _replace_profile: the next revision, within the bound. *)
LEMMA ReplaceAdvances ==
  ASSUME RowInv, NEW p \in Existing, NEW d, Replace(p, d)
  PROVE  /\ p \in Profiles
         /\ revision[p] \in 1..(MaxRevision - 1)
         /\ revision' = [revision EXCEPT ![p] = @ + 1]
<1>1. p \in Profiles /\ revision[p] \in 1..MaxRevision /\ MaxRevision \in Nat
  BY CurrentKnown, StoreConstants DEF RowInv
<1>2. revision[p] + 1 <= MaxRevision /\ revision' = [revision EXCEPT ![p] = revision[p] + 1]
  BY DEF Replace
<1>3. QED BY <1>1, <1>2

LEMMA ReplaceChanges ==
  ASSUME RowInv, NEW p \in Existing, NEW d, Replace(p, d), isActive' = isActive
  PROVE  p \in Profiles /\ Store!Change(p)
<1>1. Selected' = Selected
  BY DEF Selected
<1>2. QED BY <1>1, ReplaceAdvances DEF Store!Change

(* A step of RevisionStore, or none. *)
StoreStep == [Store!StoreNext]_(Store!storeVars)

LEMMA EveryStep ==
  ASSUME RowInv, RowInv', [Next]_vars
  PROVE  StoreStep
<1> USE DEF StoreStep
<1>1. ASSUME revision' = revision, isActive' = isActive PROVE StoreStep
  <2>1. Selected' = Selected
    BY <1>1 DEF Selected
  <2>2. QED BY <1>1, <2>1 DEF Store!storeVars
<1>2. Store!Existing = Existing
  BY DEF Store!Existing, Existing
<1>3. CASE Start
  <2>1. Builtin \in Profiles
    BY StoreConstants
  <2>2. CASE Insert(Builtin, Fixture[BuiltinVersion])
    BY <2>1, <2>2, InsertCreates DEF Store!StoreNext
  <2>3. CASE Upgradable /\ Replace(Builtin, Fixture[BuiltinVersion]) /\ UNCHANGED isActive
    BY <2>3, ReplaceChanges DEF Store!StoreNext, Upgradable
  <2>4. CASE UNCHANGED rowVars
    BY <1>1, <2>4 DEF rowVars
  <2>5. QED BY <1>3, <2>2, <2>3, <2>4 DEF Start
<1>4. ASSUME NEW p \in Profiles, SetActiveProfile(p) PROVE StoreStep
  <2>1. p \in Existing /\ isActive' = [q \in Profiles |-> q = p] /\ revision' = revision
    BY <1>4 DEF SetActiveProfile
  <2>2. Selected' = p
    BY <2>1, SelectedBecomes
  <2>3. Store!Select(p)
    BY <1>2, <2>1, <2>2 DEF Store!Select
  <2>4. QED BY <2>3 DEF Store!StoreNext
<1>5. ASSUME NEW e \in Editors, NEW p \in Profiles, Read(e, p) PROVE StoreStep
  BY <1>1, <1>5 DEF Read, rowVars
<1>6. ASSUME NEW e \in Editors, NEW p \in Profiles, NEW d \in Contents, Commit(e, p, d)
      PROVE  StoreStep
  BY <1>6, ReplaceChanges DEF Commit, Holds, Store!StoreNext
<1>7. ASSUME NEW e \in Editors, NEW p \in Profiles, NEW d \in Contents, Inserting(e, p, d)
      PROVE  StoreStep
  BY <1>7, InsertCreates DEF Inserting, Store!StoreNext
<1>8. ASSUME NEW e \in Editors, NEW p \in Profiles, ActivateProfile(e, p) PROVE StoreStep
  <2>1. /\ p \in Existing /\ ~isActive[p] /\ Replace(p, Current(p))
        /\ isActive' = [q \in Profiles |-> q = p]
    BY <1>8 DEF ActivateProfile, Holds
  <2>2. Selected' = p /\ Selected # p
    BY <2>1, SelectedBecomes, SelectedKnown
  <2>3. Store!Activate(p)
    BY <2>1, <2>2, ReplaceAdvances DEF Store!Activate
  <2>4. QED BY <2>3 DEF Store!StoreNext
<1>9. ASSUME NEW e \in Editors, NEW p \in Profiles, DeleteInactiveProfile(e, p) PROVE StoreStep
  <2>1. /\ p \in Existing /\ ~isActive[p] /\ Cardinality(Existing) > 1 /\ Erase(p)
    BY <1>9 DEF DeleteInactiveProfile, Holds
  <2>2. Selected # p /\ Existing # {p}
    BY <2>1, SelectedKnown, FS_Singleton
  <2>3. isActive' = isActive /\ revision' = [revision EXCEPT ![p] = 0]
    BY <2>1 DEF Erase, RowInv, ProfileTypeOK
  <2>4. Selected' = Selected
    BY <2>3 DEF Selected
  <2>5. Store!DeleteInactive(p)
    BY <1>2, <2>1, <2>2, <2>3, <2>4 DEF Store!DeleteInactive
  <2>6. QED BY <2>5 DEF Store!StoreNext
<1>10. ASSUME NEW e \in Editors, NEW p \in Profiles, NEW q \in Profiles,
              DeleteActiveProfile(e, p, q)
       PROVE  StoreStep
  <2>1. /\ p \in Existing /\ isActive[p] /\ q \in Existing \ {p} /\ revision[q] < MaxRevision
        /\ isActive' = [x \in Profiles |-> x = q]
        /\ revision' = [revision EXCEPT ![p] = 0, ![q] = @ + 1]
    BY <1>10 DEF DeleteActiveProfile, Holds
  <2>2. Selected = p /\ Selected' = q
    BY <2>1, SelectedIs, SelectedBecomes DEF RowInv
  <2>3. Store!DeleteActive(p, q)
    BY <1>2, <2>1, <2>2 DEF Store!DeleteActive
  <2>4. QED BY <2>3 DEF Store!StoreNext
<1>11. CASE UNCHANGED vars
  BY <1>1, <1>11 DEF vars, rowVars
<1> HIDE DEF StoreStep
<1>12. QED BY <1>3, <1>4, <1>5, <1>6, <1>7, <1>8, <1>9, <1>10, <1>11, Steps

(* Every operation of the repository, installation and upgrade included,   *)
(* is one step of RevisionStore: a write advances one profile's revision   *)
(* by one, and the selection moves only with the operations that say so    *)
(* (profiles.py, builtin_profiles.py).                                     *)
THEOREM RepositoryRefinesStore == Spec => StoreRefined
<1>1. QED BY RowInit, RowStep, StoreInit, EveryStep, PTL DEF Spec, StoreRefined, StoreStep, Store!StoreSpec
=============================================================================
