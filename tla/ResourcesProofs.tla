---------------------------- MODULE ResourcesProofs ----------------------------
(***************************************************************************)
(* Theorems about Resources, for every value of its constants: the lists   *)
(* of associations stay in order and hold the running Activities and no    *)
(* others, the focus list holds the focused ones, and no container is left *)
(* with a priority that is not that of its entities.                       *)
(*                                                                         *)
(* Each operation is shown to keep the invariant of whole states, or what  *)
(* of it holds in the midst of a handler.                                  *)
(***************************************************************************)
EXTENDS Resources, FiniteSetTheorems, SequenceTheorems, WellFoundedInduction, TLAPS

-----------------------------------------------------------------------------
(* Numbers and lists.                                                      *)

\* A set of numbers has a least.
LEMMA LeastInSet ==
  ASSUME NEW S \in SUBSET Nat, S # {}
  PROVE  \E m \in S : \A x \in S : m <= x
PROOF
<1>1. PICK m \in S : \A y \in S : ~(<<y, m>> \in OpToRel(<, Nat))
  <2>1. IsWellFoundedOn(OpToRel(<, Nat), Nat)
    BY NatLessThanWellFounded
  <2> QED
    BY <2>1, WFMin, Zenon
<1>2. ASSUME NEW x \in S
      PROVE  m <= x
  <2>1. ~(x < m)
    BY <1>1 DEF OpToRel
  <2> QED
    BY <2>1
<1> QED
  BY <1>2

\* No member is listed twice.
Once(list) == \A i, j \in 1..Len(list) : list[i] = list[j] => i = j

\* What putting a member into a list does.
LEMMA Inserted ==
  ASSUME NEW S, NEW list \in Seq(S), NEW a \in S, NEW k \in 1..(Len(list) + 1)
  PROVE  LET new == InsertAt(list, k, a)
         IN /\ new \in Seq(S) /\ Len(list) \in Nat /\ Len(new) = Len(list) + 1
            /\ new[k] = a
            /\ \A i \in 1..Len(list) : IF i < k THEN new[i] = list[i] ELSE new[i + 1] = list[i]
            /\ \A i \in 1..Len(new) :
                 IF i < k THEN i \in 1..Len(list) /\ new[i] = list[i]
                 ELSE IF i = k THEN new[i] = a
                 ELSE i - 1 \in 1..Len(list) /\ new[i] = list[i - 1]
PROOF
<1> DEFINE before == SubSeq(list, 1, k - 1)
           after == SubSeq(list, k, Len(list))
           front == before \o <<a>>
           new == InsertAt(list, k, a)
<1>1. Len(list) \in Nat /\ k \in Nat /\ k >= 1 /\ k <= Len(list) + 1
  OBVIOUS
<1>2. before \in Seq(S) /\ Len(before) = k - 1 /\ \A i \in 1..(k - 1) : before[i] = list[i]
  BY <1>1
<1>3. /\ after \in Seq(S) /\ Len(after) = Len(list) + 1 - k
      /\ \A i \in 1..(Len(list) + 1 - k) : after[i] = list[k + i - 1]
  BY <1>1
<1> HIDE DEF before, after
<1>4. /\ front \in Seq(S) /\ Len(front) = k /\ front[k] = a
      /\ \A i \in 1..(k - 1) : front[i] = list[i]
  BY <1>1, <1>2
<1>5. new = front \o after
  BY DEF InsertAt, before, after
<1> HIDE DEF front, new
<1>6. new \in Seq(S) /\ Len(new) = Len(list) + 1
  <2>1. new \in Seq(S) /\ Len(new) = Len(front) + Len(after)
    BY <1>3, <1>4, <1>5, ConcatProperties, ZenonT(20)
  <2> QED
    BY <1>1, <1>3, <1>4, <2>1
<1>7. \A i \in 1..k : new[i] = front[i]
  BY <1>1, <1>3, <1>4, <1>5
<1>8. \A i \in (k + 1)..(Len(list) + 1) : new[i] = after[i - k]
  BY <1>1, <1>3, <1>4, <1>5
<1>9. \A i \in (k + 1)..(Len(list) + 1) : new[i] = list[i - 1]
  BY <1>1, <1>3, <1>8
<1>10. \A i \in 1..(k - 1) : new[i] = list[i]
  BY <1>1, <1>4, <1>7
<1>11. new[k] = a
  BY <1>1, <1>4, <1>7
<1>12. ASSUME NEW i \in 1..Len(list)
       PROVE  IF i < k THEN new[i] = list[i] ELSE new[i + 1] = list[i]
  <2>1. CASE i < k
    BY <1>1, <1>10, <2>1
  <2>2. CASE ~(i < k)
    <3>1. i + 1 \in (k + 1)..(Len(list) + 1) /\ (i + 1) - 1 = i
      BY <1>1, <2>2
    <3> QED
      BY <3>1, <2>2, <1>9
  <2> QED
    BY <2>1, <2>2
<1>13. ASSUME NEW i \in 1..Len(new)
       PROVE  IF i < k THEN i \in 1..Len(list) /\ new[i] = list[i]
              ELSE IF i = k THEN new[i] = a
              ELSE i - 1 \in 1..Len(list) /\ new[i] = list[i - 1]
  BY <1>1, <1>6, <1>9, <1>10, <1>11
<1> QED
  BY <1>1, <1>6, <1>11, <1>12, <1>13 DEF new

\* What taking a member out of a list does.
LEMMA Removed ==
  ASSUME NEW S, NEW list \in Seq(S), NEW a, Once(list)
  PROVE  LET rest == RemoveFirst(list, a)
         IN /\ rest \in Seq(S) /\ Len(list) \in Nat /\ Len(rest) \in Nat
            /\ \A x : Contains(rest, x) <=> Contains(list, x) /\ x # a
            /\ ~Contains(list, a) => rest = list
            /\ \E to \in [1..Len(rest) -> 1..Len(list)] :
                 /\ \A i \in 1..Len(rest) : rest[i] = list[to[i]]
                 /\ \A i, j \in 1..Len(rest) : i < j => to[i] < to[j]
            /\ Once(rest)
PROOF
<1> DEFINE rest == RemoveFirst(list, a)
<1>1. Len(list) \in Nat
  OBVIOUS
<1>2. CASE ~Contains(list, a)
  <2>1. rest = list
    BY <1>2 DEF RemoveFirst, Contains
  <2>2. DEFINE to == [i \in 1..Len(list) |-> i]
  <2>3. /\ to \in [1..Len(rest) -> 1..Len(list)]
        /\ \A i \in 1..Len(rest) : rest[i] = list[to[i]]
        /\ \A i, j \in 1..Len(rest) : i < j => to[i] < to[j]
    BY <2>1
  <2>4. \A x : Contains(rest, x) <=> Contains(list, x) /\ x # a
    BY <1>2, <2>1
  <2> HIDE DEF rest, to
  <2> QED
    BY <1>1, <2>1, <2>3, <2>4 DEF rest
<1>3. CASE Contains(list, a)
  <2> DEFINE I == {i \in 1..Len(list) : list[i] = a}
             k == SelectInSeq(list, LAMBDA v : v = a)
  <2>1. I # {} /\ I \in SUBSET Nat
    BY <1>3 DEF Contains
  <2>2. k = Min(I)
    BY <2>1 DEF SelectInSeq
  <2>3. k \in I
    BY <2>1, <2>2, LeastInSet DEF Min
  <2>4. rest = RemoveAt(list, k)
    BY <1>3 DEF RemoveFirst, Contains
  <2> HIDE DEF k
  <2>5. k \in 1..Len(list) /\ list[k] = a
    BY <2>3
  <2> DEFINE before == SubSeq(list, 1, k - 1)
             after == SubSeq(list, k + 1, Len(list))
             n == Len(list) - 1
  <2>6. before \in Seq(S) /\ Len(before) = k - 1 /\ \A i \in 1..(k - 1) : before[i] = list[i]
    BY <1>1, <2>5
  <2>7. /\ after \in Seq(S) /\ Len(after) = Len(list) - k
        /\ \A i \in 1..(Len(list) - k) : after[i] = list[k + i]
    BY <1>1, <2>5
  <2>8. rest = before \o after
    BY <2>4 DEF RemoveAt
  <2> HIDE DEF before, after, rest
  <2>9. rest \in Seq(S) /\ Len(rest) = n /\ n \in Nat
    <3>1. rest \in Seq(S) /\ Len(rest) = Len(before) + Len(after)
      BY <2>6, <2>7, <2>8, ConcatProperties, ZenonT(20)
    <3> QED
      BY <1>1, <2>5, <2>6, <2>7, <3>1
  <2>10. \A i \in 1..(k - 1) : rest[i] = list[i]
    BY <1>1, <2>5, <2>6, <2>7, <2>8
  <2>11. \A i \in k..n : rest[i] = after[i - (k - 1)]
    BY <1>1, <2>5, <2>6, <2>7, <2>8
  <2>12. \A i \in k..n : rest[i] = list[i + 1]
    <3> SUFFICES ASSUME NEW i \in k..n PROVE rest[i] = list[i + 1]
      OBVIOUS
    <3>1. i - (k - 1) \in 1..(Len(list) - k) /\ k + (i - (k - 1)) = i + 1
      BY <1>1, <2>5
    <3> QED
      BY <2>7, <2>11, <3>1
  <2> DEFINE to == [i \in 1..n |-> IF i < k THEN i ELSE i + 1]
  <2>13. to \in [1..n -> 1..Len(list)]
    BY <1>1, <2>5
  <2>14. \A i \in 1..n : rest[i] = list[to[i]] /\ to[i] # k
    BY <1>1, <2>5, <2>10, <2>12
  <2>15. \A i, j \in 1..n : i < j => to[i] < to[j]
    BY <1>1, <2>5
  <2>16. \A j \in 1..Len(list) : j # k => \E i \in 1..n : to[i] = j
    <3> SUFFICES ASSUME NEW j \in 1..Len(list), j # k
                 PROVE  \E i \in 1..n : to[i] = j
      OBVIOUS
    <3>1. CASE j < k
      BY <1>1, <2>5, <3>1
    <3>2. CASE ~(j < k)
      <4>1. j - 1 \in 1..n /\ ~(j - 1 < k) /\ (j - 1) + 1 = j
        BY <1>1, <2>5, <3>2
      <4> QED
        BY <4>1
    <3> QED
      BY <3>1, <3>2
  <2> HIDE DEF to
  <2>17. ASSUME NEW x
         PROVE  Contains(rest, x) <=> Contains(list, x) /\ x # a
    <3>1. ASSUME NEW i \in 1..Len(rest), rest[i] = x
          PROVE  Contains(list, x) /\ x # a
      <4>1. to[i] \in 1..Len(list) /\ to[i] # k /\ list[to[i]] = x
        BY <2>9, <2>13, <2>14, <3>1
      <4> QED
        BY <4>1, <2>5 DEF Once, Contains
    <3>2. ASSUME NEW j \in 1..Len(list), list[j] = x, x # a
          PROVE  Contains(rest, x)
      <4>1. j # k
        BY <2>5, <3>2
      <4>2. PICK i \in 1..n : to[i] = j
        BY <2>16, <4>1
      <4>3. i \in 1..Len(rest) /\ rest[i] = x
        BY <2>9, <2>14, <3>2, <4>2
      <4> QED
        BY <4>3 DEF Contains
    <3> QED
      BY <3>1, <3>2 DEF Contains
  <2>18. Once(rest)
    <3> SUFFICES ASSUME NEW i \in 1..n, NEW j \in 1..n, rest[i] = rest[j] PROVE i = j
      BY <2>9 DEF Once
    <3>1. to[i] = to[j]
      BY <2>13, <2>14 DEF Once
    <3>2. to[i] \in Int /\ to[j] \in Int
      BY <2>13
    <3> QED
      BY <1>1, <3>1, <3>2, <2>15
  <2> QED
    BY <1>1, <1>3, <2>9, <2>13, <2>14, <2>15, <2>17, <2>18 DEF rest
<1> QED
  BY <1>2, <1>3

-----------------------------------------------------------------------------
(* States, and the order of the Activities of an entity.                   *)

ActivityRecord ==
  [exists : BOOLEAN, priority : 1..5, focused : BOOLEAN,
   subscribers : [Ids -> 0..MaxSubscriptions], running : BOOLEAN, ending : BOOLEAN]

Told == [priority : 0..5, focused : BOOLEAN]

Containers == UNION {[D -> SUBSET Ids] : D \in SUBSET Ids}
Standings == UNION {[D -> Told] : D \in SUBSET Ids}

\* What an operation starts from and leads to.
States ==
  [act : [Activities -> ActivityRecord], focusList : Seq(Activities),
   entity : [Ids -> Seq(Activities)], containerOf : [Ids -> Ids \cup {"none"}],
   container : Containers, enabled : BOOLEAN, told : Standings]

LEMMA StateFields ==
  ASSUME NEW s \in States
  PROVE  /\ s.act \in [Activities -> ActivityRecord] /\ s.focusList \in Seq(Activities)
         /\ s.entity \in [Ids -> Seq(Activities)] /\ s.containerOf \in [Ids -> Ids \cup {"none"}]
         /\ s.container \in Containers /\ s.enabled \in BOOLEAN /\ s.told \in Standings
         /\ s = [act |-> s.act, focusList |-> s.focusList, entity |-> s.entity,
                 containerOf |-> s.containerOf, container |-> s.container,
                 enabled |-> s.enabled, told |-> s.told]
PROOF
  BY DEF States

LEMMA RecordFields ==
  ASSUME NEW r \in ActivityRecord
  PROVE  /\ r.exists \in BOOLEAN /\ r.priority \in 1..5 /\ r.focused \in BOOLEAN
         /\ r.subscribers \in [Ids -> 0..MaxSubscriptions]
         /\ r.running \in BOOLEAN /\ r.ending \in BOOLEAN
         /\ r = [exists |-> r.exists, priority |-> r.priority, focused |-> r.focused,
                 subscribers |-> r.subscribers, running |-> r.running, ending |-> r.ending]
PROOF
  BY DEF ActivityRecord

\* The list is in the order of priorities.
Sorted(s, list) == \A i, j \in 1..Len(list) : i < j => Precedes(s, list[i], list[j])

\* Focus, priority and address give a total order.
LEMMA PrecedesIsOrder ==
  ASSUME NEW s \in States
  PROVE  /\ \A x \in Activities : ~Precedes(s, x, x)
         /\ \A x, y \in Activities : x # y => Precedes(s, x, y) \/ Precedes(s, y, x)
         /\ \A x, y, z \in Activities : Precedes(s, x, y) /\ Precedes(s, y, z) => Precedes(s, x, z)
PROOF
<1>1. \A x \in Activities : x \in Int /\ s.act[x].focused \in BOOLEAN /\ s.act[x].priority \in Int
  <2> SUFFICES ASSUME NEW x \in Activities
               PROVE  x \in Int /\ s.act[x].focused \in BOOLEAN /\ s.act[x].priority \in Int
    OBVIOUS
  <2>1. s.act[x] \in ActivityRecord
    BY StateFields
  <2>2. s.act[x].focused \in BOOLEAN /\ s.act[x].priority \in 1..5
    BY <2>1, RecordFields
  <2> QED
    BY <2>2, ActivitiesAssumption
<1>2. \A x \in Activities : ~Precedes(s, x, x)
  BY <1>1 DEF Precedes
<1>3. ASSUME NEW x \in Activities, NEW y \in Activities, x # y
      PROVE  Precedes(s, x, y) \/ Precedes(s, y, x)
  BY <1>1, <1>3 DEF Precedes
<1>4. ASSUME NEW x \in Activities, NEW y \in Activities, NEW z \in Activities,
             Precedes(s, x, y), Precedes(s, y, z)
      PROVE  Precedes(s, x, z)
  BY <1>1, <1>4 DEF Precedes
<1> QED
  BY <1>2, <1>3, <1>4

\* A sorted list has no one twice.
LEMMA SortedOnce ==
  ASSUME NEW s \in States, NEW list \in Seq(Activities), Sorted(s, list)
  PROVE  Once(list)
PROOF
<1> SUFFICES ASSUME NEW i \in 1..Len(list), NEW j \in 1..Len(list), list[i] = list[j]
             PROVE  i = j
  BY DEF Once
<1>1. list[i] \in Activities /\ i \in Int /\ j \in Int
  OBVIOUS
<1>2. ~Precedes(s, list[i], list[i])
  BY <1>1, PrecedesIsOrder
<1>3. ~(i < j) /\ ~(j < i)
  BY <1>2 DEF Sorted
<1> QED
  BY <1>1, <1>3

\* The order is about those that are listed.
LEMMA SortedSame ==
  ASSUME NEW s, NEW t, NEW list, Sorted(s, list),
         \A x : Contains(list, x) =>
           t.act[x].focused = s.act[x].focused /\ t.act[x].priority = s.act[x].priority
  PROVE  Sorted(t, list)
PROOF
<1>1. \A i \in 1..Len(list) : Contains(list, list[i])
  BY DEF Contains
<1>2. ASSUME NEW i \in 1..Len(list), NEW j \in 1..Len(list), Precedes(s, list[i], list[j])
      PROVE  Precedes(t, list[i], list[j])
  BY <1>1, <1>2 DEF Precedes
<1> QED
  BY <1>2 DEF Sorted

\* Taking one out leaves the others in order.
LEMMA SortedWithout ==
  ASSUME NEW s \in States, NEW list \in Seq(Activities), Sorted(s, list), NEW a
  PROVE  LET rest == RemoveFirst(list, a)
         IN /\ rest \in Seq(Activities) /\ Sorted(s, rest)
            /\ \A x : Contains(rest, x) <=> Contains(list, x) /\ x # a
            /\ ~Contains(list, a) => rest = list
PROOF
<1> DEFINE rest == RemoveFirst(list, a)
<1>1. Once(list)
  BY SortedOnce
<1>2. /\ rest \in Seq(Activities) /\ Len(list) \in Nat /\ Len(rest) \in Nat
      /\ \A x : Contains(rest, x) <=> Contains(list, x) /\ x # a
      /\ ~Contains(list, a) => rest = list
      /\ \E to \in [1..Len(rest) -> 1..Len(list)] :
           /\ \A i \in 1..Len(rest) : rest[i] = list[to[i]]
           /\ \A i, j \in 1..Len(rest) : i < j => to[i] < to[j]
  BY <1>1, Removed
<1> HIDE DEF rest
<1>3. PICK to \in [1..Len(rest) -> 1..Len(list)] :
        /\ \A i \in 1..Len(rest) : rest[i] = list[to[i]]
        /\ \A i, j \in 1..Len(rest) : i < j => to[i] < to[j]
  BY <1>2
<1>4. ASSUME NEW i \in 1..Len(rest), NEW j \in 1..Len(rest), i < j
      PROVE  Precedes(s, rest[i], rest[j])
  <2>1. to[i] \in 1..Len(list) /\ to[j] \in 1..Len(list) /\ to[i] < to[j]
    BY <1>3, <1>4
  <2> QED
    BY <2>1, <1>3 DEF Sorted
<1> QED
  BY <1>2, <1>4 DEF Sorted, rest

\* Putting one in keeps the order.
LEMMA SortedWith ==
  ASSUME NEW s \in States, NEW list \in Seq(Activities), Sorted(s, list),
         NEW a \in Activities, ~Contains(list, a)
  PROVE  LET new == InsertInOrder(s, list, a)
         IN /\ new \in Seq(Activities) /\ Sorted(s, new)
            /\ \A x : Contains(new, x) <=> Contains(list, x) \/ x = a
PROOF
<1> DEFINE n == Len(list)
           Fits(i) == \A j \in 1..n : Precedes(s, list[j], a) <=> j < i
           Later == {j \in 1..n : ~Precedes(s, list[j], a)}
           new == InsertInOrder(s, list, a)
<1>1. n \in Nat /\ \A j \in 1..n : list[j] \in Activities /\ list[j] # a
  BY DEF Contains
<1>2. \E i \in 1..(n + 1) : Fits(i)
  <2>1. CASE Later = {}
    <3>1. \A j \in 1..n : Precedes(s, list[j], a) /\ j < n + 1
      BY <1>1, <2>1
    <3>2. n + 1 \in 1..(n + 1) /\ Fits(n + 1)
      BY <1>1, <3>1
    <3> QED
      BY <3>2
  <2>2. CASE Later # {}
    <3> Later \in SUBSET Nat
      OBVIOUS
    <3> HIDE DEF Later
    <3>1. PICK i \in Later : \A j \in Later : i <= j
      BY <2>2, LeastInSet
    <3> USE DEF Later
    <3>2. ASSUME NEW j \in 1..n
          PROVE  Precedes(s, list[j], a) <=> j < i
      <4>1. CASE j < i
        BY <1>1, <3>1, <4>1
      <4>2. CASE j = i
        BY <1>1, <3>1, <4>2
      <4>3. CASE i < j
        <5>1. Precedes(s, list[i], list[j]) /\ ~Precedes(s, list[i], a)
          BY <3>1, <4>3 DEF Sorted
        <5>2. ~Precedes(s, list[j], a)
          BY <5>1, <1>1, <3>1, PrecedesIsOrder
        <5> QED
          BY <5>2, <4>3, <1>1, <3>1
      <4> QED
        BY <1>1, <3>1, <4>1, <4>2, <4>3
    <3> QED
      BY <1>1, <3>1, <3>2
  <2> QED
    BY <2>1, <2>2
<1>3. PICK k \in 1..(n + 1) : Fits(k) /\ new = InsertAt(list, k, a)
  BY <1>2 DEF InsertInOrder
<1>4. /\ new \in Seq(Activities) /\ Len(new) = n + 1 /\ new[k] = a
      /\ \A i \in 1..n : IF i < k THEN new[i] = list[i] ELSE new[i + 1] = list[i]
      /\ \A i \in 1..Len(new) :
           IF i < k THEN i \in 1..n /\ new[i] = list[i]
           ELSE IF i = k THEN new[i] = a
           ELSE i - 1 \in 1..n /\ new[i] = list[i - 1]
  BY <1>3, Inserted
<1>5. \A j \in 1..n : IF j < k THEN Precedes(s, list[j], a) ELSE Precedes(s, a, list[j])
  BY <1>1, <1>3, PrecedesIsOrder
<1>6. \A i, j \in 1..n : i < j => Precedes(s, list[i], list[j])
  BY DEF Sorted
<1> HIDE DEF n, new
<1>7. ASSUME NEW i \in 1..Len(new), NEW j \in 1..Len(new), i < j
      PROVE  Precedes(s, new[i], new[j])
  <2>1. i \in Int /\ j \in Int /\ k \in Int
    BY <1>1, <1>3
  <2>2. CASE j < k
    BY <1>4, <1>6, <1>7, <2>1, <2>2
  <2>3. CASE j = k
    BY <1>4, <1>5, <1>7, <2>1, <2>3
  <2>4. CASE k < j /\ i < k
    <3>1. i \in 1..n /\ j - 1 \in 1..n /\ new[i] = list[i] /\ new[j] = list[j - 1] /\ i < j - 1
      BY <1>4, <1>7, <2>1, <2>4
    <3> QED
      BY <3>1, <1>6, <2>1, <2>4
  <2>5. CASE k < j /\ i = k
    <3>1. j - 1 \in 1..n /\ new[j] = list[j - 1] /\ ~(j - 1 < k) /\ new[i] = a
      BY <1>4, <2>1, <2>5
    <3> QED
      BY <3>1, <1>5
  <2>6. CASE k < i
    <3>1. /\ i - 1 \in 1..n /\ new[i] = list[i - 1] /\ j - 1 \in 1..n /\ new[j] = list[j - 1]
          /\ i - 1 < j - 1
      BY <1>4, <1>7, <2>1, <2>6
    <3> QED
      BY <3>1, <1>6
  <2> QED
    BY <1>7, <2>1, <2>2, <2>3, <2>4, <2>5, <2>6
<1>8. ASSUME NEW x
      PROVE  Contains(new, x) <=> Contains(list, x) \/ x = a
  <2>1. ASSUME NEW i \in 1..Len(new), new[i] = x
        PROVE  Contains(list, x) \/ x = a
    BY <1>4, <2>1 DEF Contains, n
  <2>2. ASSUME NEW i \in 1..n, list[i] = x
        PROVE  Contains(new, x)
    <3>1. i \in 1..Len(new) /\ i + 1 \in 1..Len(new)
      BY <1>1, <1>4
    <3> QED
      BY <3>1, <1>4, <2>2 DEF Contains
  <2>3. Contains(new, a)
    BY <1>3, <1>4 DEF Contains
  <2> QED
    BY <2>1, <2>2, <2>3 DEF Contains, n
<1> QED
  BY <1>4, <1>7, <1>8 DEF Sorted, new

-----------------------------------------------------------------------------
(* Containers.                                                             *)

Best(s, c) ==
  {EntityPriority(s, e) : e \in IF {e \in s.container[c] : EntityFocused(s, e)} = {}
                                THEN s.container[c]
                                ELSE {e \in s.container[c] : EntityFocused(s, e)}}

Highest(best) == CHOOSE p \in best : \A q \in best : q <= p

LEMMA PriorityIs ==
  ASSUME NEW s, NEW c
  PROVE  GetPriority(s, c) =
           IF ~s.enabled THEN High ELSE IF Best(s, c) \subseteq {None} THEN Low
           ELSE Highest(Best(s, c))
PROOF
  BY Zenon DEF GetPriority, Best, Highest

LEMMA ContainerType ==
  ASSUME NEW s \in States
  PROVE  /\ s.container \in [DOMAIN s.container -> SUBSET Ids] /\ DOMAIN s.container \subseteq Ids
         /\ s.told \in [DOMAIN s.told -> Told] /\ DOMAIN s.told \subseteq Ids
PROOF
<1>1. s.container \in Containers /\ s.told \in Standings
  BY StateFields
<1>2. PICK D \in SUBSET Ids : s.container \in [D -> SUBSET Ids]
  BY <1>1 DEF Containers
<1>3. PICK E \in SUBSET Ids : s.told \in [E -> Told]
  BY <1>1 DEF Standings
<1> QED
  BY <1>2, <1>3

\* A control group is told a priority there is.
LEMMA StandingType ==
  ASSUME NEW s \in States, NEW c \in DOMAIN s.container
  PROVE  Standing(s, c) \in Told
PROOF
<1>1. s.container[c] \in SUBSET Ids
  BY ContainerType
<1>2. ASSUME NEW e \in Ids
      PROVE  EntityPriority(s, e) \in 0..5 /\ EntityFocused(s, e) \in BOOLEAN
  <2>1. s.entity[e] \in Seq(Activities)
    BY StateFields
  <2>2. CASE s.entity[e] = << >>
    BY <2>2 DEF EntityPriority, EntityFocused, None
  <2>3. CASE s.entity[e] # << >>
    <3>1. Head(s.entity[e]) \in Activities
      BY <2>1, <2>3
    <3>2. s.act[Head(s.entity[e])] \in ActivityRecord
      BY <3>1, StateFields
    <3>3. s.act[Head(s.entity[e])].priority \in 1..5 /\ s.act[Head(s.entity[e])].focused \in BOOLEAN
      BY <3>2, RecordFields
    <3> QED
      BY <3>3, <2>3 DEF EntityPriority, EntityFocused
  <2> QED
    BY <2>2, <2>3
<1>3. Best(s, c) \subseteq 0..5
  BY <1>1, <1>2 DEF Best
<1>4. ASSUME NEW best \in SUBSET (0..5), best # {}
      PROVE  Highest(best) \in 0..5
  <2>1. \E p \in best : \A q \in best : q <= p
    <3>1. CASE 5 \in best
      BY <3>1
    <3>2. CASE 5 \notin best /\ 4 \in best
      BY <3>2
    <3>3. CASE 5 \notin best /\ 4 \notin best /\ 3 \in best
      BY <3>3
    <3>4. CASE 5 \notin best /\ 4 \notin best /\ 3 \notin best /\ 2 \in best
      BY <3>4
    <3>5. CASE 5 \notin best /\ 4 \notin best /\ 3 \notin best /\ 2 \notin best /\ 1 \in best
      BY <3>5
    <3>6. CASE 5 \notin best /\ 4 \notin best /\ 3 \notin best /\ 2 \notin best /\ 1 \notin best
      <4>1. PICK p \in best : TRUE
        BY <1>4
      <4>2. \A q \in best : q = 0
        BY <3>6
      <4> QED
        BY <4>1, <4>2
    <3> QED
      BY <3>1, <3>2, <3>3, <3>4, <3>5, <3>6
  <2> QED
    BY <2>1 DEF Highest
<1>5. GetPriority(s, c) \in 0..5
  <2>1. High \in 0..5 /\ Low \in 0..5
    BY DEF High, Low
  <2>2. ~(Best(s, c) \subseteq {None}) => Best(s, c) # {}
    OBVIOUS
  <2> QED
    BY <1>3, <1>4, <2>1, <2>2, PriorityIs
<1>6. IsFocused(s, c) \in BOOLEAN
  BY DEF IsFocused
<1> QED
  BY <1>5, <1>6 DEF Standing, Told

\* What a container is told depends on the heads of its entities.
LEMMA StandingSame ==
  ASSUME NEW s, NEW t, NEW c, t.container[c] = s.container[c], t.enabled = s.enabled,
         \A e \in s.container[c] :
           /\ EntityPriority(t, e) = EntityPriority(s, e)
           /\ EntityFocused(t, e) = EntityFocused(s, e)
  PROVE  Standing(t, c) = Standing(s, c)
PROOF
<1>1. {e \in t.container[c] : EntityFocused(t, e)} = {e \in s.container[c] : EntityFocused(s, e)}
  OBVIOUS
<1>2. Best(t, c) = Best(s, c)
  <2> DEFINE F == {e \in s.container[c] : EntityFocused(s, e)}
             G == IF F = {} THEN s.container[c] ELSE F
  <2>1. Best(s, c) = {EntityPriority(s, e) : e \in G}
    BY DEF Best
  <2>2. Best(t, c) = {EntityPriority(t, e) : e \in G}
    BY <1>1 DEF Best
  <2>3. \A e \in G : EntityPriority(t, e) = EntityPriority(s, e)
    OBVIOUS
  <2> HIDE DEF G
  <2> QED
    BY <2>1, <2>2, <2>3
<1>3. GetPriority(t, c) = GetPriority(s, c)
  BY <1>2, PriorityIs
<1>4. IsFocused(t, c) <=> IsFocused(s, c)
  BY DEF IsFocused
<1>5. IsFocused(t, c) = IsFocused(s, c)
  BY <1>4 DEF IsFocused
<1> QED
  BY <1>3, <1>5 DEF Standing

\* Each entity's Activities are in order.
Ordered(s) == \A e \in Ids : Sorted(s, s.entity[e])

\* Each entity is in the container it is mapped to.
Placed(s) ==
  /\ DOMAIN s.told = DOMAIN s.container
  /\ \A e \in Ids : s.containerOf[e] # "none" => s.containerOf[e] \in DOMAIN s.container
  /\ \A e \in Ids : \A c \in DOMAIN s.container : e \in s.container[c] <=> s.containerOf[e] = c

\* Each container was told what it is.
Current(s) == \A c \in DOMAIN s.container : s.told[c] = Standing(s, c)

\* UpdatePriority tells some containers, and leaves all else alone.
LEMMA UpdateTells ==
  ASSUME NEW t \in States, DOMAIN t.told = DOMAIN t.container, NEW cs
  PROVE  LET u == UpdatePriority(t, cs)
         IN /\ u \in States
            /\ u.act = t.act /\ u.focusList = t.focusList /\ u.entity = t.entity
            /\ u.containerOf = t.containerOf /\ u.container = t.container /\ u.enabled = t.enabled
            /\ DOMAIN u.told = DOMAIN u.container
            /\ \A c \in DOMAIN u.container :
                 u.told[c] = IF c \in cs THEN Standing(u, c) ELSE t.told[c]
PROOF
<1> DEFINE u == UpdatePriority(t, cs)
           told2 == [c \in DOMAIN t.container |-> IF c \in cs THEN Standing(t, c) ELSE t.told[c]]
<1>1. u = [t EXCEPT !.told = told2]
  BY DEF UpdatePriority
<1>2. told2 \in [DOMAIN t.container -> Told]
  BY ContainerType, StandingType
<1>3. told2 \in Standings
  BY <1>2, ContainerType DEF Standings
<1> HIDE DEF told2
<1>4. u \in States
  BY <1>1, <1>3 DEF States
<1>5. /\ u.act = t.act /\ u.focusList = t.focusList /\ u.entity = t.entity
      /\ u.containerOf = t.containerOf /\ u.container = t.container /\ u.enabled = t.enabled
      /\ u.told = told2
  BY <1>1 DEF States
<1> HIDE DEF u
<1>6. \A c : Standing(u, c) = Standing(t, c)
  <2> SUFFICES ASSUME NEW c PROVE Standing(u, c) = Standing(t, c)
    OBVIOUS
  <2>1. \A e : EntityPriority(u, e) = EntityPriority(t, e) /\ EntityFocused(u, e) = EntityFocused(t, e)
    BY <1>5 DEF EntityPriority, EntityFocused
  <2> QED
    BY <2>1, <1>5, StandingSame
<1> QED
  BY <1>4, <1>5, <1>6 DEF told2, u

\* Every container whose entities may have changed is told.
LEMMA InformKeepsCurrent ==
  ASSUME NEW s \in States, Placed(s), Current(s), NEW t \in States, NEW es \in SUBSET Ids,
         t.container = s.container, t.containerOf = s.containerOf, t.enabled = s.enabled,
         t.told = s.told,
         \A e \in Ids \ es :
           /\ EntityPriority(t, e) = EntityPriority(s, e)
           /\ EntityFocused(t, e) = EntityFocused(s, e)
  PROVE  LET u == InformEntitiesUpdated(t, es)
         IN /\ u \in States /\ Placed(u) /\ Current(u)
            /\ u.act = t.act /\ u.focusList = t.focusList /\ u.entity = t.entity
            /\ u.enabled = t.enabled
PROOF
<1> DEFINE cs == {t.containerOf[e] : e \in es} \ {"none"}
           u == InformEntitiesUpdated(t, es)
<1>1. u = UpdatePriority(t, cs)
  BY DEF InformEntitiesUpdated
<1>2. DOMAIN t.told = DOMAIN t.container
  BY DEF Placed
<1> HIDE DEF cs, u
<1>3. /\ u \in States
      /\ u.act = t.act /\ u.focusList = t.focusList /\ u.entity = t.entity
      /\ u.containerOf = t.containerOf /\ u.container = t.container /\ u.enabled = t.enabled
      /\ DOMAIN u.told = DOMAIN u.container
      /\ \A c \in DOMAIN u.container :
           u.told[c] = IF c \in cs THEN Standing(u, c) ELSE t.told[c]
  BY <1>1, <1>2, UpdateTells
<1>4. Placed(u)
  BY <1>3 DEF Placed
<1>5. ASSUME NEW c \in DOMAIN u.container
      PROVE  u.told[c] = Standing(u, c)
  <2>1. CASE c \in cs
    BY <1>3, <2>1
  <2>2. CASE c \notin cs
    <3>1. c \in Ids /\ c # "none"
      BY <1>3, ContainerType, IdsAssumption
    <3>2. ASSUME NEW e \in s.container[c]
          PROVE  e \in Ids \ es
      <4>1. e \in Ids
        BY <1>3, ContainerType
      <4>2. t.containerOf[e] = c
        BY <4>1, <1>3 DEF Placed
      <4> QED
        BY <4>1, <4>2, <3>1, <2>2 DEF cs
    <3>3. \A e \in s.container[c] :
            /\ EntityPriority(u, e) = EntityPriority(s, e)
            /\ EntityFocused(u, e) = EntityFocused(s, e)
      BY <3>2, <1>3 DEF EntityPriority, EntityFocused
    <3>4. Standing(u, c) = Standing(s, c)
      BY <3>3, <1>3, StandingSame
    <3> QED
      BY <3>4, <2>2, <1>3 DEF Current
  <2> QED
    BY <2>1, <2>2
<1> QED
  BY <1>3, <1>4, <1>5 DEF Current, u

-----------------------------------------------------------------------------
(* Associations.                                                           *)

\* What holds of entities and containers, in the midst of a handler too.
Settled(s) == s \in States /\ Ordered(s) /\ Placed(s) /\ Current(s)

\* An entity with the same Activities at the head is as good as before.
LEMMA EntitySame ==
  ASSUME NEW s, NEW t, NEW e, t.entity[e] = s.entity[e],
         s.entity[e] # << >> =>
           /\ t.act[Head(s.entity[e])].priority = s.act[Head(s.entity[e])].priority
           /\ t.act[Head(s.entity[e])].focused = s.act[Head(s.entity[e])].focused
  PROVE  EntityPriority(t, e) = EntityPriority(s, e) /\ EntityFocused(t, e) = EntityFocused(s, e)
PROOF
<1>1. CASE s.entity[e] = << >>
  BY <1>1 DEF EntityPriority, EntityFocused
<1>2. CASE s.entity[e] # << >>
  BY <1>2, Zenon DEF EntityPriority, EntityFocused
<1> QED
  BY <1>1, <1>2

\* The same Activities and containers, but other associations of the entities es:
\* all that they are in are told.
LEMMA Reassociation ==
  ASSUME NEW s, Settled(s), NEW es \in SUBSET Ids, NEW E \in [Ids -> Seq(Activities)],
         \A e \in Ids : Sorted(s, E[e]), \A e \in Ids \ es : E[e] = s.entity[e]
  PROVE  LET u == InformEntitiesUpdated([s EXCEPT !.entity = E], es)
         IN /\ Settled(u) /\ u.act = s.act /\ u.focusList = s.focusList
            /\ u.entity = E /\ u.enabled = s.enabled
PROOF
<1> DEFINE t == [s EXCEPT !.entity = E]
           u == InformEntitiesUpdated(t, es)
<1>1. s \in States /\ Ordered(s) /\ Placed(s) /\ Current(s)
  BY DEF Settled
<1>2. /\ t \in States /\ t.act = s.act /\ t.focusList = s.focusList /\ t.entity = E
      /\ t.containerOf = s.containerOf /\ t.container = s.container
      /\ t.enabled = s.enabled /\ t.told = s.told
  BY <1>1 DEF States
<1> HIDE DEF t
<1>3. \A e \in Ids \ es :
        /\ EntityPriority(t, e) = EntityPriority(s, e)
        /\ EntityFocused(t, e) = EntityFocused(s, e)
  BY <1>2, EntitySame
<1>4. /\ u \in States /\ Placed(u) /\ Current(u)
      /\ u.act = t.act /\ u.focusList = t.focusList /\ u.entity = t.entity /\ u.enabled = t.enabled
  BY <1>1, <1>2, <1>3, InformKeepsCurrent
<1> HIDE DEF u
<1>5. \A e \in Ids : Sorted(u, u.entity[e])
  <2> SUFFICES ASSUME NEW e \in Ids PROVE Sorted(u, u.entity[e])
    OBVIOUS
  <2>1. Sorted(s, u.entity[e]) /\ u.act = s.act
    BY <1>2, <1>4
  <2> QED
    BY <2>1, SortedSame
<1> QED
  BY <1>2, <1>4, <1>5 DEF Settled, Ordered, t, u

\* Associate adds the Activity to the entities.
LEMMA AssociateSettled ==
  ASSUME NEW s, Settled(s), NEW a \in Activities, NEW es \in SUBSET Ids
  PROVE  LET u == Associate(s, a, es)
         IN /\ Settled(u) /\ u.act = s.act /\ u.focusList = s.focusList
            /\ \A e \in Ids : \A x : Contains(u.entity[e], x) <=>
                 Contains(s.entity[e], x) \/ (x = a /\ e \in es)
PROOF
<1> DEFINE E == [e \in Ids |->
                   IF e \in es /\ ~Contains(s.entity[e], a)
                   THEN InsertInOrder(s, s.entity[e], a) ELSE s.entity[e]]
           u == Associate(s, a, es)
<1>1. s \in States /\ Ordered(s)
  BY DEF Settled
<1>2. ASSUME NEW e \in Ids
      PROVE  /\ E[e] \in Seq(Activities) /\ Sorted(s, E[e])
             /\ \A x : Contains(E[e], x) <=> Contains(s.entity[e], x) \/ (x = a /\ e \in es)
             /\ e \notin es => E[e] = s.entity[e]
  <2>1. s.entity[e] \in Seq(Activities) /\ Sorted(s, s.entity[e])
    BY <1>1, StateFields DEF Ordered
  <2>2. CASE e \in es /\ ~Contains(s.entity[e], a)
    BY <1>1, <2>1, <2>2, SortedWith
  <2>3. CASE ~(e \in es /\ ~Contains(s.entity[e], a))
    BY <2>1, <2>3
  <2> QED
    BY <2>2, <2>3
<1>3. E \in [Ids -> Seq(Activities)]
  BY <1>2
<1>4. u = InformEntitiesUpdated([s EXCEPT !.entity = E], es)
  BY DEF Associate
<1> HIDE DEF E, u
<1>5. Settled(u) /\ u.act = s.act /\ u.focusList = s.focusList /\ u.entity = E
  BY <1>2, <1>3, <1>4, Reassociation
<1> QED
  BY <1>2, <1>5 DEF u

\* Dissociate takes it out of them.
LEMMA DissociateSettled ==
  ASSUME NEW s, Settled(s), NEW a, NEW es \in SUBSET Ids
  PROVE  LET u == Dissociate(s, a, es)
         IN /\ Settled(u) /\ u.act = s.act /\ u.focusList = s.focusList
            /\ \A e \in Ids : \A x : Contains(u.entity[e], x) <=>
                 Contains(s.entity[e], x) /\ ~(x = a /\ e \in es)
PROOF
<1> DEFINE E == [e \in Ids |->
                   IF e \in es THEN RemoveFirst(s.entity[e], a) ELSE s.entity[e]]
           u == Dissociate(s, a, es)
<1>1. s \in States /\ Ordered(s)
  BY DEF Settled
<1>2. ASSUME NEW e \in Ids
      PROVE  /\ E[e] \in Seq(Activities) /\ Sorted(s, E[e])
             /\ \A x : Contains(E[e], x) <=> Contains(s.entity[e], x) /\ ~(x = a /\ e \in es)
             /\ e \notin es => E[e] = s.entity[e]
  <2>1. s.entity[e] \in Seq(Activities) /\ Sorted(s, s.entity[e])
    BY <1>1, StateFields DEF Ordered
  <2>2. CASE e \in es
    BY <1>1, <2>1, <2>2, SortedWithout
  <2>3. CASE e \notin es
    BY <2>1, <2>3
  <2> QED
    BY <2>2, <2>3
<1>3. E \in [Ids -> Seq(Activities)]
  BY <1>2
<1>4. u = InformEntitiesUpdated([s EXCEPT !.entity = E], es)
  BY DEF Dissociate
<1> HIDE DEF E, u
<1>5. Settled(u) /\ u.act = s.act /\ u.focusList = s.focusList /\ u.entity = E
  BY <1>2, <1>3, <1>4, Reassociation
<1> QED
  BY <1>2, <1>5 DEF u

\* An Activity is associated with those who subscribe to it while it runs.
Associated(s) ==
  \A a \in Activities, e \in Ids :
    Contains(s.entity[e], a) <=> s.act[a].running /\ s.act[a].subscribers[e] > 0

\* Another record for an Activity, with the same rank if it is associated.
LEMMA RecordSettled ==
  ASSUME NEW s, Settled(s), NEW a \in Activities, NEW r \in ActivityRecord,
         \A e \in Ids : Contains(s.entity[e], a) =>
           r.priority = s.act[a].priority /\ r.focused = s.act[a].focused
  PROVE  LET t == [s EXCEPT !.act[a] = r]
         IN /\ Settled(t) /\ t.act = [s.act EXCEPT ![a] = r]
            /\ t.entity = s.entity /\ t.focusList = s.focusList
PROOF
<1> DEFINE A == [s.act EXCEPT ![a] = r]
           t == [s EXCEPT !.act[a] = r]
<1>1. s \in States /\ Ordered(s) /\ Placed(s) /\ Current(s)
  BY DEF Settled
<1>2. s.act \in [Activities -> ActivityRecord]
  BY <1>1, StateFields
<1>3. A \in [Activities -> ActivityRecord] /\ A[a] = r /\ \A x \in Activities : x # a => A[x] = s.act[x]
  BY <1>2
<1>4. t = [s EXCEPT !.act = A]
  BY <1>1 DEF States
<1> HIDE DEF A, t
<1>5. /\ t \in States /\ t.act = A /\ t.focusList = s.focusList /\ t.entity = s.entity
      /\ t.containerOf = s.containerOf /\ t.container = s.container
      /\ t.enabled = s.enabled /\ t.told = s.told
  BY <1>1, <1>3, <1>4 DEF States
<1>6. ASSUME NEW e \in Ids, NEW x, Contains(s.entity[e], x)
      PROVE  t.act[x].priority = s.act[x].priority /\ t.act[x].focused = s.act[x].focused
  <2>1. s.entity[e] \in Seq(Activities)
    BY <1>1, StateFields
  <2>2. x \in Activities
    BY <1>6, <2>1 DEF Contains
  <2> QED
    BY <2>2, <1>3, <1>5, <1>6
<1>7. \A e \in Ids : Sorted(t, t.entity[e])
  BY <1>1, <1>5, <1>6, SortedSame DEF Ordered
<1>8. ASSUME NEW e \in Ids
      PROVE  EntityPriority(t, e) = EntityPriority(s, e) /\ EntityFocused(t, e) = EntityFocused(s, e)
  <2>1. s.entity[e] \in Seq(Activities)
    BY <1>1, StateFields
  <2>2. s.entity[e] # << >> => Contains(s.entity[e], Head(s.entity[e]))
    BY <2>1 DEF Contains
  <2> QED
    BY <2>2, <1>5, <1>6, EntitySame
<1>9. ASSUME NEW c \in DOMAIN t.container
      PROVE  t.told[c] = Standing(t, c)
  <2>1. s.container[c] \in SUBSET Ids
    BY <1>1, <1>5, ContainerType
  <2>2. Standing(t, c) = Standing(s, c)
    BY <2>1, <1>5, <1>8, StandingSame
  <2> QED
    BY <2>2, <1>1, <1>5 DEF Current
<1>10. Placed(t)
  BY <1>1, <1>5 DEF Placed
<1> QED
  BY <1>5, <1>7, <1>9, <1>10 DEF Settled, Ordered, Current, A, t

-----------------------------------------------------------------------------
(* Focus.                                                                  *)

\* Focus changes, the Activity is put where it belongs now, and the containers
\* are told.
LEMMA ChangeFocusSettled ==
  ASSUME NEW s, Settled(s), Associated(s), NEW a \in Activities, NEW f \in BOOLEAN
  PROVE  LET u == ChangeFocus(s, a, f)
         IN /\ Settled(u) /\ Associated(u) /\ u.focusList = s.focusList
            /\ u.act = [s.act EXCEPT ![a].focused = f]
PROOF
<1> DEFINE A == [s.act EXCEPT ![a].focused = f]
           t0 == [s EXCEPT !.act[a].focused = f]
           E == [e \in Ids |->
                   IF Contains(s.entity[e], a)
                   THEN InsertInOrder(t0, RemoveFirst(s.entity[e], a), a) ELSE s.entity[e]]
           t == SetFocus(s, a, f)
           es == GetUniqueSubscribers(t.act[a])
           u == ChangeFocus(s, a, f)
<1>1. s \in States /\ Ordered(s) /\ Placed(s) /\ Current(s)
  BY DEF Settled
<1>2. s.act \in [Activities -> ActivityRecord]
  BY <1>1, StateFields
<1>3. /\ A \in [Activities -> ActivityRecord]
      /\ \A x \in Activities : x # a => A[x] = s.act[x]
      /\ A[a].focused = f /\ A[a].priority = s.act[a].priority
      /\ A[a].running = s.act[a].running /\ A[a].subscribers = s.act[a].subscribers
  <2>1. s.act[a] \in ActivityRecord
    BY <1>2
  <2>2. /\ [s.act[a] EXCEPT !.focused = f] \in ActivityRecord
        /\ [s.act[a] EXCEPT !.focused = f].focused = f
        /\ [s.act[a] EXCEPT !.focused = f].priority = s.act[a].priority
        /\ [s.act[a] EXCEPT !.focused = f].running = s.act[a].running
        /\ [s.act[a] EXCEPT !.focused = f].subscribers = s.act[a].subscribers
    BY <2>1 DEF ActivityRecord
  <2>3. A = [s.act EXCEPT ![a] = [s.act[a] EXCEPT !.focused = f]]
    OBVIOUS
  <2> HIDE DEF A
  <2> QED
    BY <1>2, <2>2, <2>3
<1>4. t0 = [s EXCEPT !.act = A]
  BY <1>1 DEF States
<1>5. t = [t0 EXCEPT !.entity = E]
  BY <1>4 DEF SetFocus, States
<1> HIDE DEF A, t0
<1>6. t0 \in States /\ t0.act = A /\ t0.entity = s.entity
  BY <1>1, <1>3, <1>4 DEF States
<1>7. ASSUME NEW e \in Ids, ~Contains(s.entity[e], a)
      PROVE  E[e] = s.entity[e] /\ E[e] \in Seq(Activities) /\ Sorted(t0, E[e])
  <2>1. s.entity[e] \in Seq(Activities) /\ Sorted(s, s.entity[e])
    BY <1>1, StateFields DEF Ordered
  <2>2. \A x : Contains(s.entity[e], x) => x \in Activities /\ x # a
    BY <1>7, <2>1 DEF Contains
  <2>3. Sorted(t0, s.entity[e])
    BY <2>1, <2>2, <1>3, <1>6, SortedSame
  <2> QED
    BY <1>7, <2>1, <2>3
<1>8. ASSUME NEW e \in Ids, Contains(s.entity[e], a)
      PROVE  /\ E[e] \in Seq(Activities) /\ Sorted(t0, E[e])
             /\ \A x : Contains(E[e], x) <=> Contains(s.entity[e], x)
  <2> DEFINE rest == RemoveFirst(s.entity[e], a)
  <2>1. s.entity[e] \in Seq(Activities) /\ Sorted(s, s.entity[e])
    BY <1>1, StateFields DEF Ordered
  <2>2. /\ rest \in Seq(Activities) /\ Sorted(s, rest)
        /\ \A x : Contains(rest, x) <=> Contains(s.entity[e], x) /\ x # a
    BY <1>1, <2>1, SortedWithout
  <2>3. E[e] = InsertInOrder(t0, rest, a)
    BY <1>8
  <2> HIDE DEF rest, E
  <2>4. \A x : Contains(rest, x) => x \in Activities /\ x # a
    BY <2>2 DEF Contains
  <2>5. Sorted(t0, rest)
    BY <2>2, <2>4, <1>3, <1>6, SortedSame
  <2>6. /\ E[e] \in Seq(Activities) /\ Sorted(t0, E[e])
        /\ \A x : Contains(E[e], x) <=> Contains(rest, x) \/ x = a
    BY <1>6, <2>2, <2>3, <2>5, SortedWith
  <2> QED
    BY <2>2, <2>6, <1>8
<1>9. E \in [Ids -> Seq(Activities)]
  BY <1>7, <1>8
<1> HIDE DEF E, t
<1>10. /\ t \in States /\ t.act = A /\ t.entity = E /\ t.focusList = s.focusList
       /\ t.container = s.container /\ t.containerOf = s.containerOf
       /\ t.enabled = s.enabled /\ t.told = s.told
  BY <1>1, <1>3, <1>4, <1>5, <1>9 DEF States
<1>11. es \in SUBSET Ids
  BY DEF GetUniqueSubscribers
<1>12. ASSUME NEW e \in Ids \ es
       PROVE  EntityPriority(t, e) = EntityPriority(s, e) /\ EntityFocused(t, e) = EntityFocused(s, e)
  <2>1. ~(s.act[a].subscribers[e] > 0)
    BY <1>3, <1>10 DEF GetUniqueSubscribers
  <2>2. ~Contains(s.entity[e], a)
    BY <2>1 DEF Associated
  <2>3. t.entity[e] = s.entity[e] /\ s.entity[e] \in Seq(Activities)
    BY <2>2, <1>7, <1>10
  <2>4. s.entity[e] # << >> => Head(s.entity[e]) \in Activities /\ Head(s.entity[e]) # a
    BY <2>2, <2>3 DEF Contains
  <2> QED
    BY <2>3, <2>4, <1>3, <1>10, EntitySame
<1>13. u = InformEntitiesUpdated(t, es)
  BY DEF ChangeFocus, UpdateAssociations, t
<1> HIDE DEF es, u
<1>14. /\ u \in States /\ Placed(u) /\ Current(u)
       /\ u.act = A /\ u.focusList = s.focusList /\ u.entity = E /\ u.enabled = s.enabled
  BY <1>1, <1>10, <1>11, <1>12, <1>13, InformKeepsCurrent
<1>15. Ordered(u)
  <2> SUFFICES ASSUME NEW e \in Ids PROVE Sorted(u, u.entity[e])
    BY DEF Ordered
  <2>1. Sorted(t0, u.entity[e]) /\ u.act = t0.act
    BY <1>6, <1>7, <1>8, <1>14
  <2> QED
    BY <2>1, SortedSame
<1>16. Associated(u)
  <2> SUFFICES ASSUME NEW x \in Activities, NEW e \in Ids
               PROVE  Contains(u.entity[e], x) <=> u.act[x].running /\ u.act[x].subscribers[e] > 0
    BY DEF Associated
  <2>1. Contains(E[e], x) <=> Contains(s.entity[e], x)
    BY <1>7, <1>8
  <2>2. u.act[x].running = s.act[x].running /\ u.act[x].subscribers = s.act[x].subscribers
    BY <1>3, <1>14
  <2> QED
    BY <2>1, <2>2, <1>14 DEF Associated
<1> QED
  BY <1>14, <1>15, <1>16 DEF Settled, A, u

\* The states that UnfocusAll goes through.
Unfocusing(s, list, after) ==
  /\ UnfocusAll(s, list) = after[Len(list)]
  /\ after[0] = s
  /\ \A i \in 1..Len(list) : after[i] = ChangeFocus(after[i - 1], list[i], FALSE)

\* There are such states.
LEMMA UnfocusAllIs ==
  ASSUME NEW s, NEW list \in Seq(Activities)
  PROVE  \E after : Unfocusing(s, list, after)
PROOF
<1> DEFINE n == Len(list)
           Goes(f, m) == f = [i \in 0..m |-> IF i = 0 THEN s ELSE ChangeFocus(f[i - 1], list[i], FALSE)]
           Stuck == {m \in 0..n : ~(\E f : Goes(f, m))}
<1>1. n \in Nat
  OBVIOUS
<1>2. Stuck = {}
  <2> SUFFICES ASSUME Stuck # {} PROVE FALSE
    OBVIOUS
  <2> HIDE DEF Goes
  <2>1. Stuck \in SUBSET Nat
    BY <1>1
  <2>2. PICK m \in Stuck : \A x \in Stuck : m <= x
    <3> HIDE DEF Stuck
    <3> QED
      BY <2>1, LeastInSet
  <2>3. m \in 0..n /\ ~(\E f : Goes(f, m))
    OBVIOUS
  <2>4. CASE m = 0
    <3>1. Goes([i \in 0..0 |-> s], 0)
      BY DEF Goes
    <3> QED
      BY <3>1, <2>3, <2>4
  <2>5. CASE m # 0
    <3>1. m - 1 \in 0..n /\ m - 1 \notin Stuck
      BY <1>1, <2>2, <2>3, <2>5
    <3>2. PICK f : Goes(f, m - 1)
      BY <3>1
    <3> DEFINE g == [i \in 0..m |-> IF i = m THEN ChangeFocus(f[m - 1], list[m], FALSE) ELSE f[i]]
    <3>3. ASSUME NEW i \in 0..m
          PROVE  g[i] = IF i = 0 THEN s ELSE ChangeFocus(g[i - 1], list[i], FALSE)
      <4>1. CASE i = m
        <5>1. g[i] = ChangeFocus(f[m - 1], list[m], FALSE) /\ g[m - 1] = f[m - 1]
          <6>1. m \in 0..m /\ m - 1 \in 0..m /\ m - 1 # m
            BY <1>1, <2>3, <2>5
          <6> QED
            BY <6>1, <4>1
        <5> HIDE DEF g
        <5> QED
          BY <5>1, <4>1, <2>5
      <4>2. CASE i # m
        <5>1. i \in 0..(m - 1) /\ g[i] = f[i]
          BY <1>1, <2>3, <4>2
        <5>2. f[i] = IF i = 0 THEN s ELSE ChangeFocus(f[i - 1], list[i], FALSE)
          BY <5>1, <3>2 DEF Goes
        <5>3. i # 0 => g[i - 1] = f[i - 1]
          BY <1>1, <2>3, <5>1
        <5> HIDE DEF g
        <5> QED
          BY <5>1, <5>2, <5>3
      <4> QED
        BY <4>1, <4>2
    <3>4. g = [i \in 0..m |-> g[i]]
      OBVIOUS
    <3> HIDE DEF g
    <3>5. Goes(g, m)
      BY <3>3, <3>4 DEF Goes
    <3> QED
      BY <3>5, <2>3
  <2> QED
    BY <2>4, <2>5
<1>3. \E f : Goes(f, n)
  <2> HIDE DEF Goes
  <2>1. n \in 0..n
    BY <1>1
  <2> QED
    BY <2>1, <1>2
<1> DEFINE after == CHOOSE f : Goes(f, n)
<1>4. Goes(after, n)
  <2> HIDE DEF Goes
  <2> QED
    BY <1>3
<1>5. UnfocusAll(s, list) = after[n]
  BY DEF UnfocusAll
<1> HIDE DEF after
<1>6. after[0] = s /\ \A i \in 1..n : after[i] = ChangeFocus(after[i - 1], list[i], FALSE)
  BY <1>1, <1>4
<1> HIDE DEF Goes
<1>7. Unfocusing(s, list, after)
  BY <1>5, <1>6 DEF Unfocusing
<1> QED
  BY <1>7

\* What is left of an Activity's record when only its focus changes.
SameButFocus(r, q) ==
  /\ q.exists = r.exists /\ q.priority = r.priority /\ q.subscribers = r.subscribers
  /\ q.running = r.running /\ q.ending = r.ending

\* Focus is taken from those on the list, and nothing else is lost on the way.
LEMMA UnfocusAllSettled ==
  ASSUME NEW s, Settled(s), Associated(s), NEW list \in Seq(Activities)
  PROVE  LET u == UnfocusAll(s, list)
         IN /\ Settled(u) /\ Associated(u) /\ u.focusList = s.focusList
            /\ \A x \in Activities :
                 /\ SameButFocus(s.act[x], u.act[x])
                 /\ u.act[x].focused <=> s.act[x].focused /\ ~Contains(list, x)
PROOF
<1> DEFINE n == Len(list)
           Done(t, i) ==
             /\ Settled(t) /\ Associated(t) /\ t.focusList = s.focusList
             /\ \A x \in Activities :
                  /\ SameButFocus(s.act[x], t.act[x])
                  /\ t.act[x].focused <=> s.act[x].focused /\ ~(\E j \in 1..i : list[j] = x)
<1>1. n \in Nat
  OBVIOUS
<1>2. PICK after : /\ UnfocusAll(s, list) = after[n]
                   /\ after[0] = s
                   /\ \A i \in 1..n : after[i] = ChangeFocus(after[i - 1], list[i], FALSE)
  <2>1. PICK after : Unfocusing(s, list, after)
    BY UnfocusAllIs
  <2> QED
    BY <2>1 DEF Unfocusing
<1>3. Done(s, 0)
  BY DEF SameButFocus
<1>4. ASSUME NEW i \in 1..n, Done(after[i - 1], i - 1)
      PROVE  Done(after[i], i)
  <2> DEFINE t == after[i - 1]
             u == after[i]
  <2>1. list[i] \in Activities /\ i \in Int /\ i >= 1
    OBVIOUS
  <2>2. u = ChangeFocus(t, list[i], FALSE)
    BY <1>2
  <2>3. Settled(t) /\ Associated(t) /\ t.focusList = s.focusList
    BY <1>4
  <2>4. ASSUME NEW x \in Activities
        PROVE  /\ SameButFocus(s.act[x], t.act[x])
               /\ t.act[x].focused <=> s.act[x].focused /\ ~(\E j \in 1..(i - 1) : list[j] = x)
    BY <1>4
  <2> HIDE DEF t, u, Done
  <2>5. /\ Settled(u) /\ Associated(u) /\ u.focusList = t.focusList
        /\ u.act = [t.act EXCEPT ![list[i]].focused = FALSE]
    BY <2>1, <2>2, <2>3, ChangeFocusSettled
  <2>6. ASSUME NEW x \in Activities
        PROVE  /\ SameButFocus(s.act[x], u.act[x])
               /\ u.act[x].focused <=> s.act[x].focused /\ ~(\E j \in 1..i : list[j] = x)
    <3>1. t.act \in [Activities -> ActivityRecord]
      BY <2>3, StateFields DEF Settled
    <3>2. t.act[x] \in ActivityRecord
      BY <3>1
    <3>3. CASE x = list[i]
      <4>1. u.act[x] = [t.act[x] EXCEPT !.focused = FALSE]
        BY <2>5, <3>1, <3>3
      <4>2. SameButFocus(t.act[x], u.act[x]) /\ u.act[x].focused = FALSE
        BY <3>2, <4>1 DEF SameButFocus, ActivityRecord
      <4>3. i \in 1..i
        BY <2>1
      <4> QED
        BY <2>4, <3>3, <4>2, <4>3 DEF SameButFocus
    <3>4. CASE x # list[i]
      <4>1. u.act[x] = t.act[x]
        BY <2>5, <3>1, <3>4
      <4>2. \A j \in 1..i : j \in 1..(i - 1) \/ j = i
        BY <2>1
      <4>3. \A j \in 1..(i - 1) : j \in 1..i
        BY <2>1
      <4> QED
        BY <2>4, <3>4, <4>1, <4>2, <4>3
    <3> QED
      BY <3>3, <3>4
  <2> QED
    BY <2>3, <2>5, <2>6 DEF Done, t, u
<1> DEFINE Undone == {i \in 0..n : ~Done(after[i], i)}
<1>5. Undone = {}
  <2> SUFFICES ASSUME Undone # {} PROVE FALSE
    OBVIOUS
  <2> HIDE DEF Done
  <2>1. Undone \in SUBSET Nat
    BY <1>1
  <2>2. PICK m \in Undone : \A x \in Undone : m <= x
    <3> HIDE DEF Undone
    <3> QED
      BY <2>1, LeastInSet
  <2>3. m \in 0..n /\ ~Done(after[m], m)
    OBVIOUS
  <2>4. m # 0
    BY <1>2, <1>3, <2>3
  <2>5. m \in 1..n /\ m - 1 \in 0..n /\ ~(m <= m - 1)
    BY <1>1, <2>3, <2>4
  <2>6. m - 1 \notin Undone
    BY <2>2, <2>5
  <2>7. Done(after[m - 1], m - 1)
    BY <2>5, <2>6
  <2> QED
    BY <1>4, <2>3, <2>5, <2>7
<1>6. Done(after[n], n)
  <2> HIDE DEF Done
  <2>1. n \in 0..n
    BY <1>1
  <2> QED
    BY <2>1, <1>5
<1> QED
  BY <1>2, <1>6 DEF Contains

\* The Manager's list has the focused Activities.
Listed(s) ==
  /\ Once(s.focusList)
  /\ \A x \in Activities : Contains(s.focusList, x) <=> s.act[x].focused

\* An Activity that does not exist neither runs nor has focus.
Absent(s) == \A x \in Activities : ~s.act[x].exists => ~s.act[x].running /\ ~s.act[x].focused

\* Between two handlers.
Sound(s) == Settled(s) /\ Associated(s) /\ Listed(s) /\ Absent(s)

\* The list may be another one.
LEMMA ListSettled ==
  ASSUME NEW s, Settled(s), NEW list \in Seq(Activities)
  PROVE  LET t == [s EXCEPT !.focusList = list]
         IN /\ Settled(t) /\ t.act = s.act /\ t.entity = s.entity /\ t.focusList = list
            /\ Associated(s) => Associated(t)
PROOF
<1> DEFINE t == [s EXCEPT !.focusList = list]
<1>1. s \in States /\ Ordered(s) /\ Placed(s) /\ Current(s)
  BY DEF Settled
<1>2. /\ t \in States /\ t.act = s.act /\ t.focusList = list /\ t.entity = s.entity
      /\ t.containerOf = s.containerOf /\ t.container = s.container
      /\ t.enabled = s.enabled /\ t.told = s.told
  BY <1>1 DEF States
<1> HIDE DEF t
<1>3. Ordered(t)
  <2>1. \A e \in Ids : Sorted(s, s.entity[e])
    BY <1>1 DEF Ordered
  <2>2. \A e \in Ids : Sorted(t, t.entity[e])
    BY <2>1, <1>2, SortedSame
  <2> QED
    BY <2>2 DEF Ordered
<1>4. \A e : EntityPriority(t, e) = EntityPriority(s, e) /\ EntityFocused(t, e) = EntityFocused(s, e)
  BY <1>2 DEF EntityPriority, EntityFocused
<1>5. Current(t)
  <2>1. ASSUME NEW c \in DOMAIN t.container PROVE t.told[c] = Standing(t, c)
    <3>1. Standing(t, c) = Standing(s, c)
      BY <1>2, <1>4, StandingSame
    <3> QED
      BY <3>1, <1>1, <1>2 DEF Current
  <2> QED
    BY <2>1 DEF Current
<1>6. Placed(t)
  BY <1>1, <1>2 DEF Placed
<1>7. Associated(s) => Associated(t)
  BY <1>2 DEF Associated
<1> QED
  BY <1>2, <1>3, <1>5, <1>6, <1>7 DEF Settled, t

\* A focus that is given to one is taken from all who had it.
LEMMA FocusSound ==
  ASSUME NEW s, Sound(s), NEW a \in Activities, s.act[a].exists, ~s.act[a].focused
  PROVE  Sound(UnfocusAll([ChangeFocus(s, a, TRUE) EXCEPT !.focusList = <<a>>], s.focusList))
PROOF
<1> DEFINE s1 == ChangeFocus(s, a, TRUE)
           s2 == [s1 EXCEPT !.focusList = <<a>>]
           u == UnfocusAll(s2, s.focusList)
<1>1. Settled(s) /\ Associated(s) /\ Listed(s) /\ Absent(s)
  BY DEF Sound
<1>2. s.focusList \in Seq(Activities) /\ s.act \in [Activities -> ActivityRecord]
  BY <1>1, StateFields DEF Settled
<1>3. Settled(s1) /\ Associated(s1) /\ s1.act = [s.act EXCEPT ![a].focused = TRUE]
  BY <1>1, ChangeFocusSettled
<1>4. <<a>> \in Seq(Activities) /\ Len(<<a>>) = 1 /\ <<a>>[1] = a
  OBVIOUS
<1> HIDE DEF s1
<1>5. Settled(s2) /\ Associated(s2) /\ s2.act = s1.act /\ s2.focusList = <<a>>
  BY <1>3, <1>4, ListSettled
<1> HIDE DEF s2
<1>6. /\ Settled(u) /\ Associated(u) /\ u.focusList = <<a>>
      /\ \A x \in Activities :
           /\ SameButFocus(s2.act[x], u.act[x])
           /\ u.act[x].focused <=> s2.act[x].focused /\ ~Contains(s.focusList, x)
  BY <1>2, <1>5, UnfocusAllSettled
<1> HIDE DEF u
<1>7. ASSUME NEW x \in Activities
      PROVE  /\ u.act[x].focused <=> x = a
             /\ u.act[x].exists = s.act[x].exists /\ u.act[x].running = s.act[x].running
  <2>1. s.act[x] \in ActivityRecord
    BY <1>2
  <2>2. s2.act[x] = IF x = a THEN [s.act[x] EXCEPT !.focused = TRUE] ELSE s.act[x]
    BY <1>2, <1>3, <1>5
  <2>3. /\ s2.act[x].focused <=> x = a \/ s.act[x].focused
        /\ s2.act[x].exists = s.act[x].exists /\ s2.act[x].running = s.act[x].running
    BY <2>1, <2>2 DEF ActivityRecord
  <2>4. Contains(s.focusList, x) <=> s.act[x].focused
    BY <1>1 DEF Listed
  <2> QED
    BY <1>6, <2>3, <2>4 DEF SameButFocus
<1>8. Listed(u)
  <2>1. \A x : Contains(<<a>>, x) <=> x = a
    BY DEF Contains
  <2>2. Once(<<a>>)
    BY DEF Once
  <2> QED
    BY <2>1, <2>2, <1>6, <1>7 DEF Listed
<1>9. Absent(u)
  BY <1>1, <1>7 DEF Absent
<1> QED
  BY <1>6, <1>8, <1>9 DEF Sound, u, s1, s2

\* The record and the list change together.
LEMMA FocusChanged ==
  ASSUME NEW s, Sound(s), NEW a \in Activities, NEW f \in BOOLEAN, f => s.act[a].exists,
         NEW list \in Seq(Activities), Once(list),
         \A x \in Activities : Contains(list, x) <=> IF x = a THEN f ELSE Contains(s.focusList, x)
  PROVE  Sound([ChangeFocus(s, a, f) EXCEPT !.focusList = list])
PROOF
<1> DEFINE t == ChangeFocus(s, a, f)
           u == [t EXCEPT !.focusList = list]
<1>1. Settled(s) /\ Associated(s) /\ Listed(s) /\ Absent(s)
  BY DEF Sound
<1>2. s.act \in [Activities -> ActivityRecord]
  BY <1>1, StateFields DEF Settled
<1>3. Settled(t) /\ Associated(t) /\ t.act = [s.act EXCEPT ![a].focused = f]
  BY <1>1, ChangeFocusSettled
<1> HIDE DEF t
<1>4. Settled(u) /\ Associated(u) /\ u.act = t.act /\ u.focusList = list
  BY <1>3, ListSettled
<1> HIDE DEF u
<1>5. ASSUME NEW x \in Activities
      PROVE  /\ u.act[x].focused = IF x = a THEN f ELSE s.act[x].focused
             /\ u.act[x].exists = s.act[x].exists /\ u.act[x].running = s.act[x].running
  <2>1. s.act[x] \in ActivityRecord
    BY <1>2
  <2>2. u.act[x] = IF x = a THEN [s.act[x] EXCEPT !.focused = f] ELSE s.act[x]
    BY <1>2, <1>3, <1>4
  <2> QED
    BY <2>1, <2>2 DEF ActivityRecord
<1>6. Listed(u)
  BY <1>1, <1>4, <1>5 DEF Listed
<1>7. Absent(u)
  BY <1>1, <1>5 DEF Absent
<1> QED
  BY <1>4, <1>6, <1>7 DEF Sound, u, t

LEMMA UnfocusSound ==
  ASSUME NEW s, Sound(s), NEW a \in Activities
  PROVE  Sound([ChangeFocus(s, a, FALSE) EXCEPT !.focusList = RemoveFirst(@, a)])
PROOF
<1> DEFINE list == RemoveFirst(s.focusList, a)
           t == ChangeFocus(s, a, FALSE)
<1>1. Settled(s) /\ Associated(s) /\ Listed(s)
  BY DEF Sound
<1>2. s.focusList \in Seq(Activities) /\ Once(s.focusList)
  BY <1>1, StateFields DEF Settled, Listed
<1>3. /\ list \in Seq(Activities) /\ Once(list)
      /\ \A x : Contains(list, x) <=> Contains(s.focusList, x) /\ x # a
  BY <1>2, Removed
<1> HIDE DEF list
<1>4. Sound([t EXCEPT !.focusList = list])
  BY <1>3, FocusChanged
<1>5. t.focusList = s.focusList
  BY <1>1, ChangeFocusSettled
<1> HIDE DEF t
<1>6. [t EXCEPT !.focusList = RemoveFirst(@, a)] = [t EXCEPT !.focusList = list]
  BY <1>5 DEF list
<1> QED
  BY <1>4, <1>6 DEF t

LEMMA AddFocusSound ==
  ASSUME NEW s, Sound(s), NEW a \in Activities, s.act[a].exists, ~s.act[a].focused
  PROVE  Sound([ChangeFocus(s, a, TRUE) EXCEPT !.focusList = Append(@, a)])
PROOF
<1> DEFINE list == Append(s.focusList, a)
           n == Len(s.focusList)
           t == ChangeFocus(s, a, TRUE)
<1>1. Settled(s) /\ Associated(s) /\ Listed(s)
  BY DEF Sound
<1>2. s.focusList \in Seq(Activities) /\ Once(s.focusList) /\ ~Contains(s.focusList, a)
  BY <1>1, StateFields DEF Settled, Listed
<1>3. /\ list \in Seq(Activities) /\ n \in Nat /\ Len(list) = n + 1 /\ list[n + 1] = a
      /\ \A i \in 1..n : list[i] = s.focusList[i]
  BY <1>2
<1> HIDE DEF list
<1>4. \A x : Contains(list, x) <=> Contains(s.focusList, x) \/ x = a
  <2> SUFFICES ASSUME NEW x PROVE Contains(list, x) <=> Contains(s.focusList, x) \/ x = a
    OBVIOUS
  <2>1. \A i \in 1..(n + 1) : i \in 1..n \/ i = n + 1
    BY <1>3
  <2>2. \A i \in 1..n : i \in 1..(n + 1)
    BY <1>3
  <2>3. n + 1 \in 1..(n + 1)
    BY <1>3
  <2> HIDE DEF n
  <2>4. Contains(list, x) <=> \E i \in 1..(n + 1) : list[i] = x
    BY <1>3 DEF Contains
  <2>5. Contains(s.focusList, x) <=> \E i \in 1..n : s.focusList[i] = x
    BY DEF Contains, n
  <2> QED
    BY <1>3, <2>1, <2>2, <2>3, <2>4, <2>5
<1>5. Once(list)
  <2> SUFFICES ASSUME NEW i \in 1..(n + 1), NEW j \in 1..(n + 1), list[i] = list[j] PROVE i = j
    BY <1>3 DEF Once
  <2>1. \A k \in 1..(n + 1) : k = n + 1 \/ (k \in 1..n /\ list[k] # a)
    BY <1>2, <1>3 DEF Contains
  <2> QED
    BY <2>1, <1>2, <1>3 DEF Once
<1>6. Sound([t EXCEPT !.focusList = list])
  BY <1>3, <1>4, <1>5, FocusChanged
<1>7. t.focusList = s.focusList
  BY <1>1, ChangeFocusSettled
<1> HIDE DEF t
<1>8. [t EXCEPT !.focusList = Append(@, a)] = [t EXCEPT !.focusList = list]
  BY <1>7 DEF list
<1> QED
  BY <1>6, <1>8 DEF t

-----------------------------------------------------------------------------
(* Subscribers, running and ending.                                        *)

\* With room for one more, each count may be raised.
LEMMA RoomForOneMore ==
  ASSUME NEW r \in ActivityRecord, NEW e \in Ids, SubscriptionsOf(r) < MaxSubscriptions
  PROVE  r.subscribers[e] + 1 \in 0..MaxSubscriptions
PROOF
<1> DEFINE all == Ids \X (1..MaxSubscriptions)
           counted == {p \in all : p[2] <= r.subscribers[p[1]]}
           column == {<<e, i>> : i \in 1..MaxSubscriptions}
<1>1. MaxSubscriptions \in Nat
  BY BoundAssumption
<1>2. r.subscribers[e] \in 0..MaxSubscriptions
  BY RecordFields
<1>3. IsFiniteSet(all)
  <2>1. IsFiniteSet(1..MaxSubscriptions)
    BY <1>1, FS_Interval
  <2> QED
    BY <2>1, IdsAssumption, FS_Product
<1>4. IsFiniteSet(counted)
  BY <1>3, FS_Subset
<1>5. ASSUME r.subscribers[e] = MaxSubscriptions
      PROVE  FALSE
  <2>1. column \subseteq counted
    <3> SUFFICES ASSUME NEW i \in 1..MaxSubscriptions PROVE <<e, i>> \in counted
      OBVIOUS
    <3>1. i <= r.subscribers[e]
      BY <1>1, <1>5
    <3> QED
      BY <3>1
  <2>2. Cardinality(column) <= Cardinality(counted)
    BY <1>4, <2>1, FS_Subset
  <2>3. Cardinality(column) = MaxSubscriptions
    <3> DEFINE f == [i \in 1..MaxSubscriptions |-> <<e, i>>]
    <3>1. f \in Bijection(1..MaxSubscriptions, column)
      BY DEF Bijection, Injection, Surjection, IsInjective
    <3> HIDE DEF f, column
    <3>2. ExistsBijection(1..MaxSubscriptions, column)
      BY <3>1 DEF ExistsBijection
    <3> QED
      BY <1>1, <3>2, FS_CountingElements
  <2> HIDE DEF column, counted
  <2>4. Cardinality(counted) \in Nat
    BY <1>4, FS_CardinalityType
  <2>5. Cardinality(counted) < MaxSubscriptions
    BY DEF SubscriptionsOf, counted
  <2> QED
    BY <1>1, <2>2, <2>3, <2>4, <2>5
<1> QED
  BY <1>1, <1>2, <1>5

\* With none left, nobody is subscribed.
LEMMA NoneLeft ==
  ASSUME NEW r \in ActivityRecord, ~(SubscriptionsOf(r) > 0)
  PROVE  \A e \in Ids : r.subscribers[e] = 0
PROOF
<1> DEFINE all == Ids \X (1..MaxSubscriptions)
           counted == {p \in all : p[2] <= r.subscribers[p[1]]}
<1>1. MaxSubscriptions \in Nat
  BY BoundAssumption
<1>2. IsFiniteSet(all)
  <2>1. IsFiniteSet(1..MaxSubscriptions)
    BY <1>1, FS_Interval
  <2> QED
    BY <2>1, IdsAssumption, FS_Product
<1>3. IsFiniteSet(counted)
  BY <1>2, FS_Subset
<1>4. counted = {}
  <2> HIDE DEF counted
  <2>1. Cardinality(counted) \in Nat
    BY <1>3, FS_CardinalityType
  <2>2. ~(Cardinality(counted) > 0)
    BY DEF SubscriptionsOf, counted
  <2>3. Cardinality(counted) = 0
    BY <2>1, <2>2
  <2> QED
    BY <1>3, <2>3, FS_EmptySet
<1>5. ASSUME NEW e \in Ids
      PROVE  r.subscribers[e] = 0
  <2>1. r.subscribers[e] \in 0..MaxSubscriptions
    BY RecordFields
  <2>2. CASE r.subscribers[e] # 0
    <3>1. 1 \in 1..MaxSubscriptions /\ 1 <= r.subscribers[e]
      BY <1>1, <2>1, <2>2
    <3>2. <<e, 1>> \in counted
      BY <3>1
    <3> QED
      BY <3>2, <1>4
  <2> QED
    BY <2>2
<1> QED
  BY <1>5

\* An Activity is another one, and on no list.
Anew(s, a, r) ==
  [s EXCEPT !.act[a] = r,
            !.entity = [e \in Ids |-> RemoveFirst(s.entity[e], a)],
            !.focusList = RemoveFirst(@, a)]

\* An Activity of no association may become another, without focus.
LEMMA Replaced ==
  ASSUME NEW s, Sound(s), NEW a \in Activities, \A e \in Ids : ~Contains(s.entity[e], a),
         NEW r \in ActivityRecord, ~r.running, ~r.focused
  PROVE  Sound(Anew(s, a, r))
PROOF
<1> DEFINE t == [s EXCEPT !.act[a] = r]
           list == RemoveFirst(s.focusList, a)
           u == Anew(s, a, r)
<1>1. Settled(s) /\ Associated(s) /\ Listed(s) /\ Absent(s)
  BY DEF Sound
<1>2. /\ s \in States /\ s.act \in [Activities -> ActivityRecord]
      /\ s.entity \in [Ids -> Seq(Activities)] /\ s.focusList \in Seq(Activities)
  BY <1>1, StateFields DEF Settled
<1>3. /\ list \in Seq(Activities) /\ Once(list)
      /\ \A x : Contains(list, x) <=> Contains(s.focusList, x) /\ x # a
  BY <1>1, <1>2, Removed DEF Listed
<1>4. [e \in Ids |-> RemoveFirst(s.entity[e], a)] = s.entity
  <2>1. \A e \in Ids : RemoveFirst(s.entity[e], a) = s.entity[e]
    BY DEF RemoveFirst, Contains
  <2> QED
    BY <1>2, <2>1
<1>5. u = [t EXCEPT !.focusList = list]
  BY <1>2, <1>4 DEF States, Anew
<1> HIDE DEF list, u
<1>6. /\ Settled(t) /\ t.act = [s.act EXCEPT ![a] = r]
      /\ t.entity = s.entity /\ t.focusList = s.focusList
  BY <1>1, RecordSettled
<1> HIDE DEF t
<1>7. Settled(u) /\ u.act = t.act /\ u.entity = t.entity /\ u.focusList = list
  BY <1>3, <1>5, <1>6, ListSettled
<1>8. \A x \in Activities : u.act[x] = IF x = a THEN r ELSE s.act[x]
  BY <1>2, <1>6, <1>7
<1>9. Associated(u)
  BY <1>1, <1>6, <1>7, <1>8 DEF Associated
<1>10. Listed(u)
  BY <1>1, <1>3, <1>7, <1>8 DEF Listed
<1>11. Absent(u)
  BY <1>1, <1>8 DEF Absent
<1> QED
  BY <1>7, <1>9, <1>10, <1>11 DEF Sound, u

\* An Activity may become another of the same rank, if it stays as associated
\* as it is.
LEMMA Revised ==
  ASSUME NEW s, Sound(s), NEW a \in Activities, NEW r \in ActivityRecord,
         r.focused = s.act[a].focused,
         ~r.exists => ~r.running /\ ~r.focused,
         \A e \in Ids : Contains(s.entity[e], a) => r.priority = s.act[a].priority,
         \A e \in Ids : Contains(s.entity[e], a) <=> r.running /\ r.subscribers[e] > 0
  PROVE  LET t == [s EXCEPT !.act[a] = r]
         IN Sound(t) /\ t.act = [s.act EXCEPT ![a] = r] /\ t.entity = s.entity
PROOF
<1> DEFINE t == [s EXCEPT !.act[a] = r]
<1>1. Settled(s) /\ Associated(s) /\ Listed(s) /\ Absent(s)
  BY DEF Sound
<1>2. s.act \in [Activities -> ActivityRecord]
  BY <1>1, StateFields DEF Settled
<1>3. /\ Settled(t) /\ t.act = [s.act EXCEPT ![a] = r]
      /\ t.entity = s.entity /\ t.focusList = s.focusList
  BY <1>1, RecordSettled
<1> HIDE DEF t
<1>4. \A x \in Activities : t.act[x] = IF x = a THEN r ELSE s.act[x]
  BY <1>2, <1>3
<1>5. Associated(t)
  BY <1>1, <1>3, <1>4 DEF Associated
<1>6. Listed(t)
  BY <1>1, <1>3, <1>4 DEF Listed
<1>7. Absent(t)
  BY <1>1, <1>4 DEF Absent
<1> QED
  BY <1>3, <1>5, <1>6, <1>7 DEF Sound, t

\* One more subscription: the first of a running Activity associates it.
LEMMA AddSubscriptionSound ==
  ASSUME NEW s, Sound(s), NEW a \in Activities, NEW e \in Ids, s.act[a].exists,
         SubscriptionsOf(s.act[a]) < MaxSubscriptions
  PROVE  LET t == [s EXCEPT !.act[a].subscribers[e] = @ + 1]
         IN Sound(IF s.act[a].subscribers[e] = 0 /\ s.act[a].running THEN Associate(t, a, {e}) ELSE t)
PROOF
<1> DEFINE p == s.act[a]
           r == [p EXCEPT !.subscribers[e] = @ + 1]
           t == [s EXCEPT !.act[a].subscribers[e] = @ + 1]
           u == Associate(t, a, {e})
<1>1. Settled(s) /\ Associated(s) /\ Listed(s) /\ Absent(s)
  BY DEF Sound
<1>2. /\ s \in States /\ s.act \in [Activities -> ActivityRecord]
      /\ s.entity \in [Ids -> Seq(Activities)]
  BY <1>1, StateFields DEF Settled
<1>3. p \in ActivityRecord
  BY <1>2
<1>4. p.subscribers \in [Ids -> 0..MaxSubscriptions] /\ p.subscribers[e] + 1 \in 0..MaxSubscriptions
  BY <1>3, RecordFields, RoomForOneMore
<1>5. t = [s EXCEPT !.act[a] = r]
  BY <1>2, <1>3 DEF States, ActivityRecord
<1> HIDE DEF t
<1>6. /\ r \in ActivityRecord /\ r.focused = p.focused /\ r.running = p.running
      /\ r.priority = p.priority /\ r.exists = p.exists
      /\ r.subscribers = [p.subscribers EXCEPT ![e] = @ + 1]
  BY <1>3, <1>4 DEF ActivityRecord
<1> HIDE DEF r
<1>7. ASSUME NEW d \in Ids
      PROVE  r.subscribers[d] > 0 <=> p.subscribers[d] > 0 \/ d = e
  <2>1. r.subscribers[d] = IF d = e THEN p.subscribers[d] + 1 ELSE p.subscribers[d]
    BY <1>4, <1>6
  <2>2. p.subscribers[d] \in Int /\ p.subscribers[d] >= 0
    BY <1>4
  <2> QED
    BY <2>1, <2>2
<1>8. \A d \in Ids : Contains(s.entity[d], a) <=> p.running /\ p.subscribers[d] > 0
  BY <1>1 DEF Associated
<1>9. CASE p.subscribers[e] = 0 /\ p.running
  <2>1. /\ Settled(t) /\ t.act = [s.act EXCEPT ![a] = r]
        /\ t.entity = s.entity /\ t.focusList = s.focusList
    BY <1>1, <1>5, <1>6, RecordSettled
  <2>2. {e} \in SUBSET Ids
    OBVIOUS
  <2>3. /\ Settled(u) /\ u.act = t.act /\ u.focusList = t.focusList
        /\ \A d \in Ids : \A x : Contains(u.entity[d], x) <=>
             Contains(t.entity[d], x) \/ (x = a /\ d \in {e})
    BY <2>1, <2>2, AssociateSettled
  <2> HIDE DEF u
  <2>4. \A x \in Activities : u.act[x] = IF x = a THEN r ELSE s.act[x]
    BY <1>2, <2>1, <2>3
  <2>5. Associated(u)
    <3> SUFFICES ASSUME NEW x \in Activities, NEW d \in Ids
                 PROVE  Contains(u.entity[d], x) <=> u.act[x].running /\ u.act[x].subscribers[d] > 0
      BY DEF Associated
    <3>1. Contains(u.entity[d], x) <=> Contains(s.entity[d], x) \/ (x = a /\ d = e)
      BY <2>1, <2>3
    <3>2. CASE x = a
      BY <3>1, <3>2, <1>6, <1>7, <1>8, <1>9, <2>4
    <3>3. CASE x # a
      BY <3>1, <3>3, <1>1, <2>4 DEF Associated
    <3> QED
      BY <3>2, <3>3
  <2>6. Listed(u)
    BY <1>1, <1>6, <2>1, <2>3, <2>4 DEF Listed
  <2>7. Absent(u)
    BY <1>1, <1>6, <2>4 DEF Absent
  <2> QED
    BY <1>9, <2>3, <2>5, <2>6, <2>7 DEF Sound, u, t
<1>10. CASE ~(p.subscribers[e] = 0 /\ p.running)
  <2>1. p.running => p.subscribers[e] > 0
    <3>1. p.subscribers[e] \in Int /\ p.subscribers[e] >= 0
      BY <1>4
    <3> QED
      BY <3>1, <1>10
  <2>2. \A d \in Ids : Contains(s.entity[d], a) <=> r.running /\ r.subscribers[d] > 0
    BY <2>1, <1>6, <1>7, <1>8
  <2>3. ~r.exists => ~r.running /\ ~r.focused
    BY <1>1, <1>6 DEF Absent
  <2>4. Sound(t)
    BY <2>2, <2>3, <1>5, <1>6, Revised
  <2> QED
    BY <2>4, <1>10 DEF t
<1> QED
  BY <1>9, <1>10

\* One less: the last one of an id leaves it.
LEMMA RemovedSubscription ==
  ASSUME NEW s, Sound(s), NEW a \in Activities, NEW e \in Ids, s.act[a].exists,
         s.act[a].subscribers[e] > 0
  PROVE  LET q == [s EXCEPT !.act[a].subscribers[e] = @ - 1]
             t == IF s.act[a].subscribers[e] = 1 /\ s.act[a].running THEN Dissociate(q, a, {e}) ELSE q
         IN Sound(t) /\ t.act[a].exists
PROOF
<1> DEFINE p == s.act[a]
           r == [p EXCEPT !.subscribers[e] = @ - 1]
           t == [s EXCEPT !.act[a].subscribers[e] = @ - 1]
           u == Dissociate(t, a, {e})
<1>1. Settled(s) /\ Associated(s) /\ Listed(s) /\ Absent(s)
  BY DEF Sound
<1>2. /\ s \in States /\ s.act \in [Activities -> ActivityRecord]
      /\ s.entity \in [Ids -> Seq(Activities)]
  BY <1>1, StateFields DEF Settled
<1>3. p \in ActivityRecord
  BY <1>2
<1>4. p.subscribers \in [Ids -> 0..MaxSubscriptions] /\ p.subscribers[e] - 1 \in 0..MaxSubscriptions
  <2>1. p.subscribers \in [Ids -> 0..MaxSubscriptions]
    BY <1>3, RecordFields
  <2>2. p.subscribers[e] \in 0..MaxSubscriptions
    BY <2>1
  <2> QED
    BY <2>1, <2>2, BoundAssumption
<1>5. t = [s EXCEPT !.act[a] = r]
  BY <1>2, <1>3 DEF States, ActivityRecord
<1> HIDE DEF t
<1>6. /\ r \in ActivityRecord /\ r.focused = p.focused /\ r.running = p.running
      /\ r.priority = p.priority /\ r.exists = p.exists
      /\ r.subscribers = [p.subscribers EXCEPT ![e] = @ - 1]
  BY <1>3, <1>4 DEF ActivityRecord
<1> HIDE DEF r
<1>7. ASSUME NEW d \in Ids
      PROVE  r.subscribers[d] > 0 <=> p.subscribers[d] > 0 /\ ~(d = e /\ p.subscribers[e] = 1)
  <2>1. r.subscribers[d] = IF d = e THEN p.subscribers[d] - 1 ELSE p.subscribers[d]
    BY <1>4, <1>6
  <2>2. p.subscribers[d] \in Int /\ p.subscribers[d] >= 0
    BY <1>4
  <2> QED
    BY <2>1, <2>2
<1>8. \A d \in Ids : Contains(s.entity[d], a) <=> p.running /\ p.subscribers[d] > 0
  BY <1>1 DEF Associated
<1>9. CASE p.subscribers[e] = 1 /\ p.running
  <2>1. /\ Settled(t) /\ t.act = [s.act EXCEPT ![a] = r]
        /\ t.entity = s.entity /\ t.focusList = s.focusList
    BY <1>1, <1>5, <1>6, RecordSettled
  <2>2. {e} \in SUBSET Ids
    OBVIOUS
  <2>3. /\ Settled(u) /\ u.act = t.act /\ u.focusList = t.focusList
        /\ \A d \in Ids : \A x : Contains(u.entity[d], x) <=>
             Contains(t.entity[d], x) /\ ~(x = a /\ d \in {e})
    BY <2>1, <2>2, DissociateSettled
  <2> HIDE DEF u
  <2>4. \A x \in Activities : u.act[x] = IF x = a THEN r ELSE s.act[x]
    BY <1>2, <2>1, <2>3
  <2>5. Associated(u)
    <3> SUFFICES ASSUME NEW x \in Activities, NEW d \in Ids
                 PROVE  Contains(u.entity[d], x) <=> u.act[x].running /\ u.act[x].subscribers[d] > 0
      BY DEF Associated
    <3>1. Contains(u.entity[d], x) <=> Contains(s.entity[d], x) /\ ~(x = a /\ d = e)
      BY <2>1, <2>3
    <3>2. CASE x = a
      BY <3>1, <3>2, <1>6, <1>7, <1>8, <1>9, <2>4
    <3>3. CASE x # a
      BY <3>1, <3>3, <1>1, <2>4 DEF Associated
    <3> QED
      BY <3>2, <3>3
  <2>6. Listed(u)
    BY <1>1, <1>6, <2>1, <2>3, <2>4 DEF Listed
  <2>7. Absent(u)
    BY <1>1, <1>6, <2>4 DEF Absent
  <2>8. u.act[a].exists
    BY <1>6, <2>4
  <2> QED
    BY <1>9, <2>3, <2>5, <2>6, <2>7, <2>8 DEF Sound, u, t
<1>10. CASE ~(p.subscribers[e] = 1 /\ p.running)
  <2>1. \A d \in Ids : Contains(s.entity[d], a) <=> r.running /\ r.subscribers[d] > 0
    BY <1>6, <1>7, <1>8, <1>10
  <2>2. ~r.exists => ~r.running /\ ~r.focused
    BY <1>1, <1>6 DEF Absent
  <2> HIDE DEF u
  <2>3. Sound(t) /\ t.act = [s.act EXCEPT ![a] = r]
    <3>1. Sound(t)
      BY <2>1, <2>2, <1>5, <1>6, Revised
    <3>2. t.act = [s.act EXCEPT ![a] = r]
      BY <1>1, <1>5, <1>6, RecordSettled
    <3> QED
      BY <3>1, <3>2
  <2>4. t.act[a] = r
    BY <2>3, <1>2
  <2> QED
    BY <2>3, <2>4, <1>6, <1>10 DEF t
<1> QED
  BY <1>9, <1>10

LEMMA NoActivityType ==
  NoActivity \in ActivityRecord /\ ~NoActivity.exists /\ ~NoActivity.running /\ ~NoActivity.focused
PROOF
<1> DEFINE r == NewActivity(Low)
<1>1. r \in ActivityRecord /\ r.running = FALSE /\ r.focused = FALSE
  BY BoundAssumption DEF NewActivity, ActivityRecord, Low
<1>2. NoActivity = [r EXCEPT !.exists = FALSE]
  BY DEF NoActivity
<1> HIDE DEF r
<1> QED
  BY <1>1, <1>2 DEF ActivityRecord

\* However an Activity ends.
LEMMA EndSound ==
  ASSUME NEW s, Sound(s), NEW a \in Activities, s.act[a].exists, NEW outcome \in Outcome
  PROVE  Sound(EndActivity(s, a, outcome))
PROOF
<1> DEFINE p == s.act[a]
           r == [p EXCEPT !.ending = TRUE]
           t == [s EXCEPT !.act[a].ending = TRUE]
           ended == Dissociate(t, a, GetUniqueSubscribers(t.act[a]))
<1>1. s \in States /\ s.act \in [Activities -> ActivityRecord] /\ Associated(s)
  BY StateFields DEF Settled, Sound
<1>2. p \in ActivityRecord
  BY <1>1
<1>3. t = [s EXCEPT !.act[a] = r]
  BY <1>1, <1>2 DEF States, ActivityRecord
<1>4. /\ r \in ActivityRecord /\ r.focused = p.focused /\ r.running = p.running
      /\ r.priority = p.priority /\ r.exists = p.exists /\ r.subscribers = p.subscribers
  BY <1>2 DEF ActivityRecord
<1> HIDE DEF r, t
<1>5. \A e \in Ids : Contains(s.entity[e], a) <=> r.running /\ r.subscribers[e] > 0
  BY <1>1, <1>4 DEF Associated
<1>6. Sound(t)
  BY <1>3, <1>4, <1>5, Revised
<1>7. CASE SubscriptionsOf(t.act[a]) > 0
  BY <1>6, <1>7, Zenon DEF EndActivity, t
<1>8. CASE ~(SubscriptionsOf(t.act[a]) > 0)
  <2>1. /\ t \in States /\ t.act \in [Activities -> ActivityRecord]
        /\ Settled(t) /\ Associated(t) /\ Listed(t) /\ Absent(t)
    BY <1>6, StateFields DEF Sound, Settled
  <2>2. t.act[a] \in ActivityRecord
    BY <2>1
  <2>3. \A e \in Ids : t.act[a].subscribers[e] = 0
    BY <1>8, <2>2, NoneLeft
  <2>4. \A e \in Ids : ~Contains(t.entity[e], a)
    BY <2>1, <2>3 DEF Associated
  <2>5. GetUniqueSubscribers(t.act[a]) \in SUBSET Ids
    BY DEF GetUniqueSubscribers
  <2> DEFINE none == GetUniqueSubscribers(t.act[a])
  <2> HIDE DEF none
  <2>6. /\ Settled(ended) /\ ended.act = t.act /\ ended.focusList = t.focusList
        /\ \A e \in Ids : \A x : Contains(ended.entity[e], x) <=> Contains(t.entity[e], x)
    <3>1. ended = Dissociate(t, a, none) /\ none \in SUBSET Ids
      BY <2>5 DEF none
    <3> HIDE DEF ended
    <3>2. /\ Settled(ended) /\ ended.act = t.act /\ ended.focusList = t.focusList
          /\ \A e \in Ids : \A x : Contains(ended.entity[e], x) <=>
               Contains(t.entity[e], x) /\ ~(x = a /\ e \in none)
      BY <2>1, <3>1, DissociateSettled
    <3> QED
      BY <3>2, <2>4
  <2> HIDE DEF ended
  <2>7. Sound(ended) /\ ended \in States /\ ended.act[a] \in ActivityRecord
    BY <2>1, <2>2, <2>6 DEF Sound, Associated, Listed, Absent, Settled
  <2>8. \A e \in Ids : ~Contains(ended.entity[e], a)
    BY <2>4, <2>6
  <2> DEFINE q == ended.act[a]
             again == [q EXCEPT !.running = FALSE, !.ending = FALSE]
             over == [q EXCEPT !.running = FALSE, !.ending = FALSE, !.focused = FALSE]
  <2>9. /\ again \in ActivityRecord /\ again.focused = q.focused /\ again.running = FALSE
        /\ again.exists = q.exists /\ over \in ActivityRecord /\ ~over.running /\ ~over.focused
    BY <2>7 DEF ActivityRecord
  <2>10. /\ RequeueActivity(ended, a) = [ended EXCEPT !.act[a] = again]
         /\ RestartActivity(ended, a) = Anew(ended, a, over)
    BY <2>7 DEF RequeueActivity, RestartActivity, Anew, States
  <2>11. ReleaseActivity(ended, a) = Anew(ended, a, NoActivity)
    <3>1. ended.act \in [Activities -> ActivityRecord]
      BY <2>7, StateFields
    <3> HIDE DEF over
    <3>2. [[ended.act EXCEPT ![a] = over] EXCEPT ![a] = NoActivity] = [ended.act EXCEPT ![a] = NoActivity]
      BY <3>1
    <3> QED
      BY <2>7, <2>10, <3>2 DEF ReleaseActivity, Anew, States
  <2>12. NoActivity \in ActivityRecord /\ ~NoActivity.running /\ ~NoActivity.focused
    BY NoActivityType
  <2> HIDE DEF again, over
  <2>13. ~again.exists => ~again.running /\ ~again.focused
    BY <2>7, <2>9 DEF Sound, Absent
  <2>14. Sound(RequeueActivity(ended, a))
    BY <2>7, <2>8, <2>9, <2>10, <2>13, Revised
  <2>15. Sound(RestartActivity(ended, a))
    BY <2>7, <2>8, <2>9, <2>10, Replaced
  <2>16. Sound(ReleaseActivity(ended, a))
    BY <2>7, <2>8, <2>11, <2>12, Replaced
  <2>17. EndActivity(s, a, outcome) = CASE outcome = "wait"    -> t
                                        [] outcome = "requeue" -> RequeueActivity(ended, a)
                                        [] outcome = "restart" -> RestartActivity(ended, a)
                                        [] outcome = "release" -> ReleaseActivity(ended, a)
    BY <1>8, Zenon DEF EndActivity, ended, t
  <2>18. CASE outcome = "wait"
    BY <1>6, <2>17, <2>18
  <2>19. CASE outcome = "requeue"
    BY <2>14, <2>17, <2>19
  <2>20. CASE outcome = "restart"
    BY <2>15, <2>17, <2>20
  <2>21. CASE outcome = "release"
    BY <2>16, <2>17, <2>21
  <2> QED
    BY <2>18, <2>19, <2>20, <2>21 DEF Outcome
<1> QED
  BY <1>7, <1>8

LEMMA CreateSound ==
  ASSUME NEW s, Sound(s), NEW a \in Activities, ~s.act[a].exists, NEW p \in Priorities
  PROVE  Sound([s EXCEPT !.act[a] = NewActivity(p)])
PROOF
<1> DEFINE r == NewActivity(p)
<1>1. Associated(s) /\ Absent(s) /\ s.act \in [Activities -> ActivityRecord]
  BY StateFields DEF Sound, Settled
<1>2. s.act[a] \in ActivityRecord
  BY <1>1
<1>3. s.act[a].focused = FALSE /\ ~s.act[a].running
  BY <1>1, <1>2, RecordFields DEF Absent
<1>4. r \in ActivityRecord /\ r.exists = TRUE /\ r.running = FALSE /\ r.focused = FALSE
  BY BoundAssumption, PrioritiesAssumption DEF NewActivity, ActivityRecord
<1> HIDE DEF r
<1>5. \A e \in Ids : ~Contains(s.entity[e], a)
  BY <1>1, <1>3 DEF Associated
<1>6. Sound([s EXCEPT !.act[a] = r])
  BY <1>3, <1>4, <1>5, Revised
<1> QED
  BY <1>6 DEF r

LEMMA RunSound ==
  ASSUME NEW s, Sound(s), NEW a \in Activities, s.act[a].exists, ~s.act[a].running
  PROVE  Sound([Associate(s, a, GetUniqueSubscribers(s.act[a])) EXCEPT !.act[a].running = TRUE])
PROOF
<1> DEFINE p == s.act[a]
           r == [p EXCEPT !.running = TRUE]
           es == GetUniqueSubscribers(p)
           t == Associate(s, a, es)
           u == [t EXCEPT !.act[a].running = TRUE]
<1>1. /\ Settled(s) /\ Associated(s) /\ Listed(s) /\ Absent(s)
      /\ s.act \in [Activities -> ActivityRecord]
  BY StateFields DEF Sound, Settled
<1>2. p \in ActivityRecord
  BY <1>1
<1>3. es \in SUBSET Ids /\ \A e \in Ids : e \in es <=> p.subscribers[e] > 0
  BY DEF GetUniqueSubscribers
<1> HIDE DEF es
<1>4. /\ Settled(t) /\ t.act = s.act /\ t.focusList = s.focusList
      /\ \A e \in Ids : \A x : Contains(t.entity[e], x) <=>
           Contains(s.entity[e], x) \/ (x = a /\ e \in es)
  BY <1>1, <1>3, AssociateSettled
<1> HIDE DEF t
<1>5. u = [t EXCEPT !.act[a] = r]
  BY <1>1, <1>4 DEF Settled, States
<1> HIDE DEF u
<1>6. /\ r \in ActivityRecord /\ r.focused = p.focused /\ r.running = TRUE
      /\ r.priority = p.priority /\ r.exists = p.exists /\ r.subscribers = p.subscribers
  BY <1>2 DEF ActivityRecord
<1> HIDE DEF r
<1>7. \A e \in Ids : Contains(t.entity[e], a) =>
        r.priority = t.act[a].priority /\ r.focused = t.act[a].focused
  BY <1>4, <1>6
<1>8. Settled(u) /\ u.act = [t.act EXCEPT ![a] = r] /\ u.entity = t.entity /\ u.focusList = t.focusList
  BY <1>4, <1>5, <1>6, <1>7, RecordSettled
<1>9. \A x \in Activities : u.act[x] = IF x = a THEN r ELSE s.act[x]
  BY <1>1, <1>4, <1>8
<1>10. Associated(u)
  <2> SUFFICES ASSUME NEW x \in Activities, NEW e \in Ids
               PROVE  Contains(u.entity[e], x) <=> u.act[x].running /\ u.act[x].subscribers[e] > 0
    BY DEF Associated
  <2>1. Contains(u.entity[e], x) <=> Contains(s.entity[e], x) \/ (x = a /\ e \in es)
    BY <1>4, <1>8
  <2>2. CASE x = a
    BY <2>1, <2>2, <1>1, <1>3, <1>6, <1>9 DEF Associated
  <2>3. CASE x # a
    BY <2>1, <2>3, <1>1, <1>9 DEF Associated
  <2> QED
    BY <2>2, <2>3
<1>11. Listed(u)
  BY <1>1, <1>4, <1>6, <1>8, <1>9 DEF Listed
<1>12. Absent(u)
  BY <1>1, <1>6, <1>9 DEF Absent
<1> QED
  BY <1>8, <1>10, <1>11, <1>12 DEF Sound, u, t, es

-----------------------------------------------------------------------------
(* Containers that are made, filled and switched.                          *)

\* Entities that move leave what they were in; both are told.
LEMMA MapSound ==
  ASSUME NEW s, Sound(s), NEW c \in Ids, NEW es \in SUBSET Ids
  PROVE  Sound(Move(GetContainer(s, c), es, c))
PROOF
<1> DEFINE D == DOMAIN s.container \cup {c}
           C == [d \in D |-> IF d \in DOMAIN s.container THEN s.container[d] ELSE {}]
           T == [d \in D |-> IF d \in DOMAIN s.container THEN s.told[d]
                             ELSE [priority |-> Low, focused |-> FALSE]]
           g == GetContainer(s, c)
           C2 == [d \in D |-> IF d = c THEN C[d] \cup es ELSE C[d] \ es]
           O2 == [e \in Ids |-> IF e \in es THEN c ELSE s.containerOf[e]]
           t == [s EXCEPT !.container = C2, !.containerOf = O2, !.told = T]
           cs == ({s.containerOf[e] : e \in es} \ {"none"}) \cup {c}
           u == Move(g, es, c)
<1>1. /\ s \in States /\ Ordered(s) /\ Placed(s) /\ Current(s)
      /\ Settled(s) /\ Associated(s) /\ Listed(s) /\ Absent(s)
  BY DEF Sound, Settled
<1>2. /\ s.container \in [DOMAIN s.container -> SUBSET Ids] /\ DOMAIN s.container \subseteq Ids
      /\ s.told \in [DOMAIN s.container -> Told]
      /\ s.containerOf \in [Ids -> Ids \cup {"none"}]
  BY <1>1, ContainerType, StateFields DEF Placed
<1>3. D \in SUBSET Ids /\ C \in [D -> SUBSET Ids] /\ T \in [D -> Told]
  <2>1. [priority |-> Low, focused |-> FALSE] \in Told
    BY DEF Told, Low
  <2> QED
    BY <1>2, <2>1
<1>4. g = [s EXCEPT !.container = C, !.told = T]
  <2>1. CASE c \in DOMAIN s.container
    <3>1. C = s.container /\ T = s.told
      BY <1>2, <2>1
    <3> HIDE DEF C, T
    <3> QED
      BY <2>1, <3>1, <1>1 DEF GetContainer, States
  <2>2. CASE c \notin DOMAIN s.container
    <3>1. /\ C = [d \in D |-> IF d = c THEN {} ELSE s.container[d]]
          /\ T = [d \in D |-> IF d = c THEN [priority |-> Low, focused |-> FALSE] ELSE s.told[d]]
      BY <2>2
    <3> HIDE DEF C, T
    <3> QED
      BY <2>2, <3>1, Zenon DEF GetContainer
  <2> QED
    BY <2>1, <2>2
<1> HIDE DEF D, C, T, g
<1>5. /\ DOMAIN C = D /\ g.container = C /\ g.containerOf = s.containerOf /\ g.told = T
      /\ g.act = s.act /\ g.focusList = s.focusList /\ g.entity = s.entity /\ g.enabled = s.enabled
      /\ g = [act |-> s.act, focusList |-> s.focusList, entity |-> s.entity,
              containerOf |-> s.containerOf, container |-> C, enabled |-> s.enabled, told |-> T]
  BY <1>1, <1>3, <1>4 DEF States
<1>6. u = UpdatePriority(t, cs)
  <2>1. [g EXCEPT !.container = [d \in DOMAIN g.container |->
                                   IF d = c THEN @[d] \cup es ELSE @[d] \ es],
                  !.containerOf = [e \in Ids |-> IF e \in es THEN c ELSE @[e]]] = t
    BY <1>1, <1>5 DEF States
  <2>2. ({g.containerOf[e] : e \in es} \ {"none"}) \cup {c} = cs
    BY <1>5
  <2> HIDE DEF t, cs
  <2> QED
    BY <2>1, <2>2 DEF Move
<1>7. C2 \in [D -> SUBSET Ids] /\ O2 \in [Ids -> Ids \cup {"none"}]
  BY <1>2, <1>3
<1> HIDE DEF u, cs
<1>8. /\ t \in States /\ t.act = s.act /\ t.focusList = s.focusList /\ t.entity = s.entity
      /\ t.container = C2 /\ t.containerOf = O2 /\ t.enabled = s.enabled /\ t.told = T
  <2>1. C2 \in Containers /\ T \in Standings
    <3> HIDE DEF C2
    <3> QED
      BY <1>3, <1>7 DEF Containers, Standings
  <2> HIDE DEF C2, O2
  <2> QED
    BY <1>1, <1>7, <2>1 DEF States
<1> HIDE DEF t
<1>9. /\ u \in States
      /\ u.act = s.act /\ u.focusList = s.focusList /\ u.entity = s.entity
      /\ u.containerOf = O2 /\ u.container = C2 /\ u.enabled = s.enabled
      /\ DOMAIN u.told = D
      /\ \A d \in D : u.told[d] = IF d \in cs THEN Standing(u, d) ELSE T[d]
  <2>1. DOMAIN t.told = DOMAIN t.container /\ DOMAIN t.container = D
    BY <1>3, <1>7, <1>8
  <2> HIDE DEF C2, O2
  <2> QED
    BY <1>6, <1>8, <2>1, UpdateTells
<1>10. Placed(u)
  <2>1. DOMAIN u.told = DOMAIN u.container
    BY <1>7, <1>9
  <2>2. ASSUME NEW e \in Ids
        PROVE  /\ O2[e] # "none" => O2[e] \in D
               /\ \A d \in D : e \in C2[d] <=> O2[e] = d
    <3>1. /\ s.containerOf[e] # "none" => s.containerOf[e] \in DOMAIN s.container
          /\ \A d \in DOMAIN s.container : e \in s.container[d] <=> s.containerOf[e] = d
      BY <1>1 DEF Placed
    <3>2. ASSUME NEW d \in D
          PROVE  e \in C[d] <=> s.containerOf[e] = d
      <4>1. CASE d \in DOMAIN s.container
        BY <3>1, <4>1 DEF C
      <4>2. CASE d \notin DOMAIN s.container
        <5>1. C[d] = {} /\ d \in Ids
          BY <4>2, <1>3 DEF C
        <5>2. d # "none"
          BY <5>1, IdsAssumption
        <5> QED
          BY <5>1, <5>2, <3>1, <4>2
      <4> QED
        BY <4>1, <4>2
    <3> QED
      BY <3>1, <3>2 DEF D
  <2>3. DOMAIN u.container = D
    BY <1>7, <1>9
  <2> HIDE DEF O2, C2
  <2> QED
    BY <2>1, <2>2, <2>3, <1>9 DEF Placed
<1>11. ASSUME NEW d \in D
       PROVE  u.told[d] = Standing(u, d)
  <2>1. CASE d \in cs
    BY <1>9, <2>1
  <2>2. CASE d \notin cs
    <3>1. d # c /\ d \in DOMAIN s.container /\ d \in Ids /\ d # "none"
      BY <2>2, <1>3, IdsAssumption DEF cs, D
    <3>2. \A e \in es : s.containerOf[e] # d
      BY <2>2, <3>1 DEF cs
    <3>3. \A e \in es : e \notin s.container[d]
      BY <3>1, <3>2, <1>1 DEF Placed
    <3>4. C[d] = s.container[d] /\ T[d] = s.told[d]
      BY <3>1 DEF C, T
    <3>5. u.container[d] = s.container[d]
      BY <3>1, <3>3, <3>4, <1>9
    <3>6. \A e : EntityPriority(u, e) = EntityPriority(s, e) /\ EntityFocused(u, e) = EntityFocused(s, e)
      BY <1>9 DEF EntityPriority, EntityFocused
    <3>7. Standing(u, d) = Standing(s, d)
      BY <3>5, <3>6, <1>9, StandingSame
    <3> QED
      BY <3>1, <3>4, <3>7, <2>2, <1>1, <1>9 DEF Current
  <2> QED
    BY <2>1, <2>2
<1>12. Current(u)
  BY <1>7, <1>9, <1>11 DEF Current
<1>13. Ordered(u)
  <2>1. \A e \in Ids : Sorted(s, s.entity[e])
    BY <1>1 DEF Ordered
  <2>2. \A e \in Ids : Sorted(u, u.entity[e])
    BY <2>1, <1>9, SortedSame
  <2> QED
    BY <2>2 DEF Ordered
<1>14. Associated(u) /\ Listed(u) /\ Absent(u)
  BY <1>1, <1>9 DEF Associated, Listed, Absent
<1> QED
  BY <1>9, <1>10, <1>12, <1>13, <1>14 DEF Sound, Settled, u, g

\* A switch tells everybody.
LEMMA ControlSound ==
  ASSUME NEW s, Sound(s), NEW on \in BOOLEAN
  PROVE  Sound(UpdatePriority([s EXCEPT !.enabled = on], DOMAIN s.container))
PROOF
<1> DEFINE t == [s EXCEPT !.enabled = on]
           u == UpdatePriority(t, DOMAIN s.container)
<1>1. /\ s \in States /\ Ordered(s) /\ Placed(s)
      /\ Associated(s) /\ Listed(s) /\ Absent(s)
  BY DEF Sound, Settled
<1>2. /\ t \in States /\ t.act = s.act /\ t.focusList = s.focusList /\ t.entity = s.entity
      /\ t.containerOf = s.containerOf /\ t.container = s.container /\ t.told = s.told
  BY <1>1 DEF States
<1> HIDE DEF t, u
<1>3. /\ u \in States
      /\ u.act = t.act /\ u.focusList = t.focusList /\ u.entity = t.entity
      /\ u.containerOf = t.containerOf /\ u.container = t.container
      /\ DOMAIN u.told = DOMAIN u.container
      /\ \A c \in DOMAIN u.container :
           u.told[c] = IF c \in DOMAIN s.container THEN Standing(u, c) ELSE t.told[c]
  <2>1. DOMAIN t.told = DOMAIN t.container
    BY <1>1, <1>2 DEF Placed
  <2>2. u = UpdatePriority(t, DOMAIN s.container)
    BY DEF u
  <2> QED
    BY <1>2, <2>1, <2>2, UpdateTells
<1>4. Current(u)
  BY <1>2, <1>3 DEF Current
<1>5. Placed(u)
  BY <1>1, <1>2, <1>3 DEF Placed
<1>6. Ordered(u)
  <2>1. \A e \in Ids : Sorted(s, s.entity[e])
    BY <1>1 DEF Ordered
  <2>2. \A e \in Ids : Sorted(u, u.entity[e])
    BY <2>1, <1>2, <1>3, SortedSame
  <2> QED
    BY <2>2 DEF Ordered
<1>7. Associated(u) /\ Listed(u) /\ Absent(u)
  BY <1>1, <1>2, <1>3 DEF Associated, Listed, Absent
<1> QED
  BY <1>3, <1>4, <1>5, <1>6, <1>7 DEF Sound, Settled, u, t

-----------------------------------------------------------------------------
(* The specification.                                                      *)

\* What the proofs carry from handler to handler.
Inv == Sound(Now)

\* The state after a handler is the one it leads to.
LEMMA Becomes ==
  ASSUME NEW u, Sound(u), Become(u)
  PROVE  Inv'
PROOF
<1>1. u \in States
  BY DEF Sound, Settled
<1>2. Now' = u
  BY <1>1, StateFields DEF Become, Now
<1> QED
  BY <1>2 DEF Inv

\* Nothing is there at first.
LEMMA InitSound == Init => Inv
PROOF
<1> SUFFICES ASSUME Init PROVE Sound(Now)
  BY DEF Inv
<1> USE DEF Now
<1>1. /\ Now.act = [a \in Activities |-> NoActivity] /\ Now.focusList = << >>
      /\ Now.entity = [e \in Ids |-> << >>] /\ Now.containerOf = [e \in Ids |-> "none"]
      /\ Now.container = << >> /\ Now.enabled = TRUE /\ Now.told = << >>
  BY DEF Init
<1>2. DOMAIN << >> = {}
  OBVIOUS
<1>3. Now \in States
  <2>1. [a \in Activities |-> NoActivity] \in [Activities -> ActivityRecord]
    BY NoActivityType
  <2>2. << >> \in Containers /\ << >> \in Standings
    <3>1. << >> \in [{} -> SUBSET Ids] /\ << >> \in [{} -> Told]
      <4>1. << >> \in Seq(SUBSET Ids) /\ << >> \in Seq(Told) /\ Len(<< >>) = 0 /\ 1..0 = {}
        OBVIOUS
      <4>2. << >> \in [1..Len(<< >>) -> SUBSET Ids] /\ << >> \in [1..Len(<< >>) -> Told]
        BY <4>1, LenProperties, Zenon
      <4> QED
        BY <4>1, <4>2
    <3>2. {} \in SUBSET Ids
      OBVIOUS
    <3> QED
      BY <3>1, <3>2, Zenon DEF Containers, Standings
  <2>3. << >> \in Seq(Activities) /\ [e \in Ids |-> << >>] \in [Ids -> Seq(Activities)]
    OBVIOUS
  <2>4. [e \in Ids |-> "none"] \in [Ids -> Ids \cup {"none"}]
    OBVIOUS
  <2> QED
    BY <2>1, <2>2, <2>3, <2>4 DEF States, Init
<1> HIDE DEF Now
<1>4. \A x : ~Contains(<< >>, x)
  BY DEF Contains
<1>5. Ordered(Now)
  BY <1>1 DEF Ordered, Sorted
<1>6. Placed(Now) /\ Current(Now)
  BY <1>1, <1>2 DEF Placed, Current
<1>7. \A a \in Activities : ~Now.act[a].running /\ ~Now.act[a].focused
  BY <1>1, NoActivityType
<1>8. Associated(Now) /\ Absent(Now)
  BY <1>1, <1>4, <1>7 DEF Associated, Absent
<1>9. Listed(Now)
  BY <1>1, <1>4, <1>7 DEF Listed, Once
<1> QED
  BY <1>3, <1>5, <1>6, <1>8, <1>9 DEF Sound, Settled

\* Every handler leads from a sound state to a sound one.
LEMMA NextSound == Inv /\ [Next]_vars => Inv'
PROOF
<1> SUFFICES ASSUME Inv, [Next]_vars PROVE Inv'
  OBVIOUS
<1>1. Sound(Now)
  BY DEF Inv
<1>2. /\ Now.act = act /\ Now.focusList = focusList /\ Now.entity = entity
      /\ Now.containerOf = containerOf /\ Now.container = container
      /\ Now.enabled = enabled /\ Now.told = told
  BY DEF Now
<1>3. ASSUME NEW a \in Activities, CreateActivity(a)
      PROVE  Inv'
  <2>1. PICK p \in Priorities : Become([Now EXCEPT !.act[a] = NewActivity(p)])
    BY <1>3 DEF CreateActivity
  <2>2. ~Now.act[a].exists
    BY <1>2, <1>3 DEF CreateActivity
  <2>3. Sound([Now EXCEPT !.act[a] = NewActivity(p)])
    BY <1>1, <2>2, CreateSound
  <2> QED
    BY <2>1, <2>3, Becomes
<1>4. ASSUME NEW a \in Activities, RunActivity(a)
      PROVE  Inv'
  <2> DEFINE u == [Associate(Now, a, GetUniqueSubscribers(Now.act[a])) EXCEPT !.act[a].running = TRUE]
  <2>1. Now.act[a].exists /\ ~Now.act[a].running
    BY <1>2, <1>4 DEF RunActivity
  <2>2. Become(u)
    BY <1>2, <1>4 DEF RunActivity
  <2>3. Sound(u)
    BY <1>1, <2>1, RunSound
  <2> QED
    BY <2>2, <2>3, Becomes
<1>5. ASSUME NEW a \in Activities, End(a)
      PROVE  Inv'
  <2>1. PICK outcome \in Outcome : Become(EndActivity(Now, a, outcome))
    BY <1>5 DEF End
  <2>2. Now.act[a].exists
    BY <1>2, <1>5 DEF End
  <2>3. Sound(EndActivity(Now, a, outcome))
    BY <1>1, <2>2, EndSound
  <2> QED
    BY <2>1, <2>3, Becomes
<1>6. ASSUME NEW a \in Activities, FocusActivity(a)
      PROVE  Inv'
  <2> DEFINE u == UnfocusAll([ChangeFocus(Now, a, TRUE) EXCEPT !.focusList = <<a>>], Now.focusList)
  <2>1. Now.act[a].exists /\ ~Now.act[a].focused
    BY <1>2, <1>6 DEF FocusActivity
  <2>2. Become(u)
    BY <1>2, <1>6 DEF FocusActivity
  <2>3. Sound(u)
    BY <1>1, <2>1, FocusSound
  <2> QED
    BY <2>2, <2>3, Becomes
<1>7. ASSUME NEW a \in Activities, UnfocusActivity(a)
      PROVE  Inv'
  <2>1. Sound([ChangeFocus(Now, a, FALSE) EXCEPT !.focusList = RemoveFirst(@, a)])
    BY <1>1, UnfocusSound
  <2> QED
    BY <1>7, <2>1, Becomes DEF UnfocusActivity
<1>8. ASSUME NEW a \in Activities, NEW b \in Activities, AddFocus(a, b)
      PROVE  Inv'
  <2>1. Now.act[b].exists /\ ~Now.act[b].focused
    BY <1>2, <1>8 DEF AddFocus
  <2>2. Sound([ChangeFocus(Now, b, TRUE) EXCEPT !.focusList = Append(@, b)])
    BY <1>1, <2>1, AddFocusSound
  <2> QED
    BY <1>8, <2>2, Becomes DEF AddFocus
<1>9. ASSUME NEW a \in Activities, NEW e \in Ids, AddSubscription(a, e)
      PROVE  Inv'
  <2> DEFINE t == [Now EXCEPT !.act[a].subscribers[e] = @ + 1]
             u == IF Now.act[a].subscribers[e] = 0 /\ Now.act[a].running
                  THEN Associate(t, a, {e}) ELSE t
  <2>1. Now.act[a].exists /\ SubscriptionsOf(Now.act[a]) < MaxSubscriptions
    BY <1>2, <1>9 DEF AddSubscription
  <2>2. Become(u)
    BY <1>2, <1>9 DEF AddSubscription
  <2>3. Sound(u)
    BY <1>1, <2>1, AddSubscriptionSound
  <2> QED
    BY <2>2, <2>3, Becomes
<1>10. ASSUME NEW a \in Activities, NEW e \in Ids, RemoveSubscription(a, e)
       PROVE  Inv'
  <2> DEFINE q == [Now EXCEPT !.act[a].subscribers[e] = @ - 1]
             t == IF Now.act[a].subscribers[e] = 1 /\ Now.act[a].running
                  THEN Dissociate(q, a, {e}) ELSE q
  <2>1. Now.act[a].exists /\ Now.act[a].subscribers[e] > 0
    BY <1>2, <1>10 DEF RemoveSubscription
  <2>2. Sound(t) /\ t.act[a].exists
    BY <1>1, <2>1, RemovedSubscription
  <2>3. IF SubscriptionsOf(t.act[a]) = 0
        THEN \E outcome \in Outcome : Become(EndActivity(t, a, outcome)) ELSE Become(t)
    BY <1>2, <1>10 DEF RemoveSubscription
  <2> HIDE DEF t
  <2>4. CASE SubscriptionsOf(t.act[a]) = 0
    <3>1. PICK outcome \in Outcome : Become(EndActivity(t, a, outcome))
      BY <2>3, <2>4
    <3>2. Sound(EndActivity(t, a, outcome))
      BY <2>2, EndSound
    <3> QED
      BY <3>1, <3>2, Becomes
  <2>5. CASE SubscriptionsOf(t.act[a]) # 0
    BY <2>2, <2>3, <2>5, Becomes
  <2> QED
    BY <2>4, <2>5
<1>11. ASSUME NEW c \in Ids, NEW es \in SUBSET Ids, MapContainer(c, es)
       PROVE  Inv'
  <2>1. Sound(Move(GetContainer(Now, c), es, c))
    BY <1>1, MapSound
  <2> QED
    BY <1>11, <2>1, Becomes DEF MapContainer
<1>12. CASE ProcessBusUpdate
  <2>1. PICK es \in SUBSET Ids \ {{}} : \E c \in es : MapContainer(c, es)
    BY <1>12 DEF ProcessBusUpdate
  <2>2. PICK c \in es : MapContainer(c, es)
    BY <2>1
  <2>3. es \in SUBSET Ids /\ c \in Ids
    BY <2>1, <2>2
  <2> QED
    BY <1>11, <2>2, <2>3
<1>13. CASE MapProcess
  BY <1>11, <1>13 DEF MapProcess
<1>14. ASSUME NEW on \in BOOLEAN, PriorityControl(on)
       PROVE  Inv'
  <2>1. Sound(UpdatePriority([Now EXCEPT !.enabled = on], DOMAIN Now.container))
    BY <1>1, ControlSound
  <2> QED
    BY <1>2, <1>14, <2>1, Becomes DEF PriorityControl
<1>15. CASE UNCHANGED vars
  BY <1>1, <1>15 DEF vars, Inv, Now
<1> QED
  BY <1>3, <1>4, <1>5, <1>6, <1>7, <1>8, <1>9, <1>10, <1>12, <1>13, <1>14, <1>15 DEF Next

\* What the proofs carry holds throughout.
LEMMA SoundThroughout == Spec => []Inv
PROOF
<1>1. Init => Inv
  BY InitSound
<1>2. Inv /\ [Next]_vars => Inv'
  BY NextSound
<1> QED
  BY <1>1, <1>2, PTL DEF Spec

\* The state is of its declared types.
LEMMA Typed == Inv => TypeOK
PROOF
<1> SUFFICES ASSUME Sound(Now) PROVE TypeOK
  BY DEF Inv
<1>1. /\ Now.act = act /\ Now.focusList = focusList /\ Now.entity = entity
      /\ Now.containerOf = containerOf /\ Now.container = container
      /\ Now.enabled = enabled /\ Now.told = told
  BY DEF Now
<1>2. Now \in States /\ Placed(Now)
  BY DEF Sound, Settled
<1>3. /\ Now.act \in [Activities -> ActivityRecord] /\ Now.focusList \in Seq(Activities)
      /\ Now.entity \in [Ids -> Seq(Activities)] /\ Now.containerOf \in [Ids -> Ids \cup {"none"}]
      /\ Now.enabled \in BOOLEAN
  BY <1>2, StateFields
<1>4. /\ Now.container \in [DOMAIN Now.container -> SUBSET Ids]
      /\ Now.told \in [DOMAIN Now.told -> Told]
  BY <1>2, ContainerType
<1> HIDE DEF Now
<1>5. containerOf \in [Ids -> {"none"} \cup DOMAIN container]
  <2>1. \A e \in Ids : containerOf[e] \in {"none"} \cup DOMAIN container
    BY <1>1, <1>2 DEF Placed
  <2> QED
    BY <1>1, <1>3, <2>1
<1>6. told \in [DOMAIN container -> [priority : 0..5, focused : BOOLEAN]]
  BY <1>1, <1>2, <1>4 DEF Placed, Told
<1>7. act \in [Activities ->
        [exists : BOOLEAN, priority : 1..5, focused : BOOLEAN,
         subscribers : [Ids -> 0..MaxSubscriptions], running : BOOLEAN, ending : BOOLEAN]]
  BY <1>1, <1>3 DEF ActivityRecord
<1> QED
  BY <1>1, <1>3, <1>4, <1>5, <1>6, <1>7 DEF TypeOK

\* Who is listed once is listed at one place.
LEMMA OnePlace ==
  ASSUME NEW list, Once(list), NEW a
  PROVE  Cardinality({i \in 1..Len(list) : list[i] = a}) = IF Contains(list, a) THEN 1 ELSE 0
PROOF
<1> DEFINE I == {i \in 1..Len(list) : list[i] = a}
<1>1. CASE Contains(list, a)
  <2>1. PICK i \in 1..Len(list) : list[i] = a
    BY <1>1 DEF Contains
  <2>2. I = {i}
    BY <2>1 DEF Once
  <2> HIDE DEF I
  <2>3. Cardinality(I) = 1
    BY <2>2, FS_Singleton
  <2> QED
    BY <2>3, <1>1 DEF I
<1>2. CASE ~Contains(list, a)
  <2>1. I = {}
    BY <1>2 DEF Contains
  <2> HIDE DEF I
  <2>2. Cardinality(I) = 0
    BY <2>1, FS_EmptySet
  <2> QED
    BY <2>2, <1>2 DEF I
<1> QED
  BY <1>1, <1>2

\* A sound state is a consistent one.
LEMMA SoundIsConsistent == Inv => Consistent
PROOF
<1> SUFFICES ASSUME Inv PROVE Consistent
  OBVIOUS
<1>1. /\ Now.act = act /\ Now.focusList = focusList /\ Now.entity = entity
      /\ Now.containerOf = containerOf /\ Now.container = container
  BY DEF Now
<1>2. Ordered(Now) /\ Placed(Now) /\ Associated(Now) /\ Listed(Now)
  BY DEF Inv, Sound, Settled
<1> HIDE DEF Now
<1>3. TypeOK
  BY Typed
<1>4. AssociationsInOrder
  BY <1>1, <1>2 DEF AssociationsInOrder, Ordered, Sorted
<1>5. RunningIsAssociated
  BY <1>1, <1>2 DEF RunningIsAssociated, Associated
<1>6. FocusedAreListed
  <2>1. Once(focusList) /\ \A x \in Activities : Contains(focusList, x) <=> act[x].focused
    BY <1>1, <1>2 DEF Listed
  <2> QED
    BY <2>1, OnePlace DEF FocusedAreListed
<1>7. OneContainerEach
  BY <1>1, <1>2 DEF OneContainerEach, Placed
<1> QED
  BY <1>3, <1>4, <1>5, <1>6, <1>7 DEF Consistent

\* The lists of focus, associations and containers stay in step with the
\* Activities, whatever subscribes, runs, ends, moves or takes the focus
\* (ActivityManager.cpp, BusEntity.cpp, ContainerManager.cpp).
THEOREM ResourcesConsistent == Spec => []Consistent
PROOF
<1>1. Inv => Consistent
  BY SoundIsConsistent
<1> QED
  BY <1>1, SoundThroughout, PTL

\* No container is ever left with a priority that is not that of its entities
\* (ContainerManager::InformEntityUpdated and MapContainer).
THEOREM ContainersTold == Spec => []ToldIsCurrent
PROOF
<1>1. Inv => ToldIsCurrent
  <2> SUFFICES ASSUME Inv, NEW c \in DOMAIN container PROVE told[c] = Standing(Now, c)
    BY DEF ToldIsCurrent
  <2>1. Now.container = container /\ Now.told = told
    BY DEF Now
  <2>2. Current(Now)
    BY DEF Inv, Sound, Settled
  <2> QED
    BY <2>1, <2>2 DEF Current
<1> QED
  BY <1>1, SoundThroughout, PTL
================================================================================
