---------------------------- MODULE SchedulerProofs ----------------------------
(***************************************************************************)
(* Theorems about Scheduler, for every value of its constants: the queues  *)
(* stay in order, a wake-up is set for the next start, and it is the one   *)
(* that the power daemon has, or is about to; and what was missed is made  *)
(* up for once.                                                            *)
(***************************************************************************)
EXTENDS Scheduler, SequenceTheorems, FiniteSetTheorems, WellFoundedInduction, TLAPS

-----------------------------------------------------------------------------
(* Numbers.                                                                *)

\* A set of natural numbers has a least one.
LEMMA LeastNatural ==
  ASSUME NEW T \in SUBSET Nat, T # {}
  PROVE  \E m \in T : \A n \in T : m <= n
<1>1. PICK m \in T : \A n \in T : <<n, m>> \notin OpToRel(<, Nat)
  BY WFMin, NatLessThanWellFounded
<1>2. \A n \in T : ~(n < m)
  BY <1>1 DEF OpToRel
<1> QED
  BY <1>2

\* A set that holds every number before one it holds is 1..k, and k is its size.
LEMMA PrefixIsInterval ==
  ASSUME NEW n \in Nat, NEW D \in SUBSET (1..n),
         \A i \in D : \A j \in 1..i : j \in D
  PROVE  Cardinality(D) \in 0..n /\ D = 1..Cardinality(D)
<1> DEFINE T == {i \in 1..(n + 1) : i \notin D}
<1>1. T \in SUBSET Nat /\ n + 1 \in T
  OBVIOUS
<1>2. PICK m \in T : \A i \in T : m <= i
  BY <1>1, LeastNatural
<1>3. m \in 1..(n + 1)
  BY <1>2
<1>4. D = 1..(m - 1)
  <2>1. ASSUME NEW i \in 1..(m - 1) PROVE i \in D
    BY <1>2, <1>3
  <2>2. ASSUME NEW i \in D PROVE i < m
    <3>1. SUFFICES ASSUME i >= m PROVE FALSE
      BY <1>3
    <3>2. m \in 1..i /\ m \notin D
      BY <1>2, <1>3, <3>1
    <3> QED
      BY <3>2
  <2>3. D \subseteq 1..(m - 1)
    BY <1>3, <2>2
  <2> QED
    BY <2>1, <2>3
<1>5. Cardinality(1..(m - 1)) = m - 1
  BY <1>3, FS_Interval
<1> QED
  BY <1>3, <1>4, <1>5

\* Things in a total order: each has its own number of things before it, from 0 to
\* one less than there are.
LEMMA RanksDiffer ==
  ASSUME NEW n \in Nat, NEW before \in [1..n -> SUBSET (1..n)],
         \A i \in 1..n : i \notin before[i],
         \A i, j \in 1..n : i \in before[j] => before[i] \subseteq before[j],
         \A i, j \in 1..n : i # j => i \in before[j] \/ j \in before[i]
  PROVE  /\ \A i \in 1..n : Cardinality(before[i]) \in 0..(n - 1)
         /\ \A i, j \in 1..n : i \in before[j] <=> Cardinality(before[i]) < Cardinality(before[j])
         /\ \A k \in 1..n : \E i \in 1..n : Cardinality(before[i]) = k - 1
<1>1. IsFiniteSet(1..n) /\ Cardinality(1..n) = n
  BY FS_Interval
<1>2. \A i \in 1..n : IsFiniteSet(before[i]) /\ Cardinality(before[i]) \in Nat
  BY <1>1, FS_Subset, FS_CardinalityType
<1>3. ASSUME NEW i \in 1..n
      PROVE  Cardinality(before[i]) \in 0..(n - 1)
  <2>1. Cardinality(before[i]) <= n
    BY <1>1, FS_Subset
  <2>2. Cardinality(before[i]) # n
    BY <1>1, FS_Subset
  <2> QED
    BY <1>2, <2>1, <2>2
<1>4. ASSUME NEW i \in 1..n, NEW j \in 1..n, i \in before[j]
      PROVE  Cardinality(before[i]) < Cardinality(before[j])
  <2>1. before[i] \in SUBSET before[j] /\ before[i] # before[j]
    BY <1>4
  <2>2. Cardinality(before[i]) <= Cardinality(before[j])
    BY <1>2, <2>1, FS_Subset
  <2>3. Cardinality(before[i]) # Cardinality(before[j])
    BY <1>2, <2>1, FS_Subset
  <2> QED
    BY <1>2, <2>2, <2>3
<1>5. ASSUME NEW i \in 1..n, NEW j \in 1..n, Cardinality(before[i]) < Cardinality(before[j])
      PROVE  i \in before[j]
  <2>1. i # j
    BY <1>2, <1>5
  <2>2. j \notin before[i]
    BY <1>2, <1>4, <1>5
  <2> QED
    BY <2>1, <2>2
<1>6. ASSUME NEW k \in 1..n
      PROVE  \E i \in 1..n : Cardinality(before[i]) = k - 1
  <2> DEFINE f == [i \in 1..n |-> Cardinality(before[i]) + 1]
  <2>1. f \in [1..n -> 1..n]
    BY <1>3
  <2>2. \A i, j \in 1..n : f[i] = f[j] => i = j
    BY <1>2, <1>4
  <2>3. f \in Injection(1..n, 1..n)
    BY <2>1, <2>2 DEF Injection, IsInjective
  <2>4. f \in Surjection(1..n, 1..n)
    BY <1>1, <2>3, FS_Injection
  <2>5. PICK i \in 1..n : f[i] = k
    BY <2>4 DEF Surjection
  <2>6. Cardinality(before[i]) \in Nat /\ Cardinality(before[i]) + 1 = k
    BY <1>2, <2>5
  <2> QED
    BY <2>6
<1>7. ASSUME NEW i \in 1..n, NEW j \in 1..n
      PROVE  i \in before[j] <=> Cardinality(before[i]) < Cardinality(before[j])
  BY <1>4, <1>5
<1> QED
  BY <1>3, <1>6, <1>7

-----------------------------------------------------------------------------
(* Queues.                                                                 *)

\* An item is taken out: those behind it move up.
LEMMA RemoveSeq ==
  ASSUME NEW S, NEW seq \in Seq(S), NEW k \in 1..Len(seq)
  PROVE  /\ RemoveAt(seq, k) \in Seq(S)
         /\ Len(RemoveAt(seq, k)) = Len(seq) - 1
         /\ \A i \in 1..(Len(seq) - 1) :
              RemoveAt(seq, k)[i] = IF i < k THEN seq[i] ELSE seq[i + 1]
<1>1. Len(seq) \in Nat /\ \A i \in 1..Len(seq) : seq[i] \in S
  BY LenProperties
<1> DEFINE front == SubSeq(seq, 1, k - 1)
           back == SubSeq(seq, k + 1, Len(seq))
<1>2. /\ front \in Seq(S) /\ Len(front) = k - 1
      /\ \A i \in 1..(k - 1) : front[i] = seq[i]
  BY <1>1, SubSeqProperties
<1>3. /\ back \in Seq(S) /\ Len(back) = Len(seq) - k
      /\ \A i \in 1..(Len(seq) - k) : back[i] = seq[k + i]
  BY <1>1, SubSeqProperties
<1>4. RemoveAt(seq, k) = front \o back
  BY DEF RemoveAt
<1> HIDE DEF front, back
<1>5. /\ front \o back \in Seq(S) /\ Len(front \o back) = Len(seq) - 1
      /\ \A i \in 1..(Len(seq) - 1) :
           (front \o back)[i] = IF i <= k - 1 THEN front[i] ELSE back[i - (k - 1)]
  <2>1. Len(front) = k - 1 /\ Len(front) + Len(back) = Len(seq) - 1
    BY <1>1, <1>2, <1>3
  <2>2. /\ front \o back \in Seq(S) /\ Len(front \o back) = Len(front) + Len(back)
        /\ \A i \in 1..(Len(front) + Len(back)) :
             (front \o back)[i] = IF i <= Len(front) THEN front[i] ELSE back[i - Len(front)]
    BY <1>2, <1>3, ConcatProperties
  <2> QED
    BY <2>1, <2>2
<1>6. \A i \in 1..(Len(seq) - 1) :
        (front \o back)[i] = IF i < k THEN seq[i] ELSE seq[i + 1]
  <2> TAKE i \in 1..(Len(seq) - 1)
  <2>1. CASE i < k
    <3>1. i \in 1..(k - 1) /\ i <= k - 1
      BY <1>1, <2>1
    <3> QED
      BY <1>2, <1>5, <2>1, <3>1
  <2>2. CASE ~(i < k)
    <3>1. /\ i - (k - 1) \in 1..(Len(seq) - k) /\ ~(i <= k - 1)
          /\ k + (i - (k - 1)) = i + 1
      BY <1>1, <2>2
    <3> QED
      BY <1>3, <1>5, <2>2, <3>1
  <2> QED
    BY <2>1, <2>2
<1> QED
  BY <1>4, <1>5, <1>6

\* An item is put in: those from there on move down.
LEMMA InsertSeq ==
  ASSUME NEW S, NEW seq \in Seq(S), NEW k \in 1..(Len(seq) + 1), NEW e \in S
  PROVE  /\ InsertAt(seq, k, e) \in Seq(S)
         /\ Len(InsertAt(seq, k, e)) = Len(seq) + 1
         /\ \A i \in 1..(Len(seq) + 1) :
              InsertAt(seq, k, e)[i] =
                IF i < k THEN seq[i] ELSE IF i = k THEN e ELSE seq[i - 1]
<1>1. Len(seq) \in Nat /\ \A i \in 1..Len(seq) : seq[i] \in S
  BY LenProperties
<1> DEFINE start == SubSeq(seq, 1, k - 1)
           front == start \o <<e>>
           back == SubSeq(seq, k, Len(seq))
<1>2. /\ start \in Seq(S) /\ Len(start) = k - 1
      /\ \A i \in 1..(k - 1) : start[i] = seq[i]
  BY <1>1, SubSeqProperties
<1>3. /\ back \in Seq(S) /\ Len(back) = Len(seq) - k + 1
      /\ \A i \in 1..(Len(seq) - k + 1) : back[i] = seq[k + i - 1]
  BY <1>1, SubSeqProperties
<1>4. <<e>> \in Seq(S) /\ Len(<<e>>) = 1 /\ <<e>>[1] = e
  OBVIOUS
<1>5. InsertAt(seq, k, e) = front \o back
  BY DEF InsertAt
<1> HIDE DEF start, back
<1>6. /\ front \in Seq(S) /\ Len(front) = k
      /\ \A i \in 1..k : front[i] = IF i < k THEN seq[i] ELSE e
  BY <1>1, <1>2, <1>4, ConcatProperties
<1> HIDE DEF front
<1>7. /\ front \o back \in Seq(S) /\ Len(front \o back) = Len(seq) + 1
      /\ \A i \in 1..(Len(seq) + 1) :
           (front \o back)[i] = IF i <= k THEN front[i] ELSE back[i - k]
  <2>1. Len(front) = k /\ Len(front) + Len(back) = Len(seq) + 1
    BY <1>1, <1>3, <1>6
  <2>2. /\ front \o back \in Seq(S) /\ Len(front \o back) = Len(front) + Len(back)
        /\ \A i \in 1..(Len(front) + Len(back)) :
             (front \o back)[i] = IF i <= Len(front) THEN front[i] ELSE back[i - Len(front)]
    BY <1>3, <1>6, ConcatProperties
  <2> QED
    BY <2>1, <2>2
<1>8. \A i \in 1..(Len(seq) + 1) :
        (front \o back)[i] = IF i < k THEN seq[i] ELSE IF i = k THEN e ELSE seq[i - 1]
  BY <1>1, <1>3, <1>6, <1>7
<1> QED
  BY <1>5, <1>7, <1>8

-----------------------------------------------------------------------------
(* Start times.                                                            *)

LEMMA IntervalType ==
  ASSUME NEW d \in Duration, NEW smart \in BOOLEAN
  PROVE  StringToInterval(d, smart) \in Nat
BY DEF StringToInterval, Seconds, Duration

LEMMA ScheduleType ==
  ASSUME NEW spec \in Specification, CreateSchedule(spec) # Error
  PROVE  CreateSchedule(spec) \in Schedule
<1> DEFINE interval == StringToInterval(spec.interval, ~spec.precise)
<1>1. interval \in Nat
  BY IntervalType DEF Specification
<1> DEFINE schedule == [kind     |-> IF spec.relative THEN "relative"
                                     ELSE IF spec.precise THEN "precise" ELSE "smart",
                        start    |-> spec.start,
                        end      |-> spec.end,
                        interval |-> interval,
                        skip     |-> spec.skip,
                        local    |-> IsLocal(spec)]
<1> HIDE DEF interval
<1>2. IsLocal(spec) \in BOOLEAN
  BY DEF IsLocal, Specification
<1>3. schedule \in [kind : {"precise", "smart", "relative"}, start : Int, end : Int,
                     interval : Nat, skip : BOOLEAN, local : BOOLEAN]
  BY <1>1, <1>2 DEF Specification
<1>4. CASE spec.recurs
  <2>1. CreateSchedule(spec) = schedule /\ interval # 0
    BY <1>4 DEF CreateSchedule, interval
  <2> HIDE DEF schedule
  <2>2. schedule.interval = interval
    BY DEF schedule
  <2> QED
    BY <1>3, <2>1, <2>2 DEF Schedule
<1>5. CASE ~spec.recurs
  <2>1. CreateSchedule(spec) = [schedule EXCEPT !.kind = "once", !.interval = 1,
                                                !.end = Unbounded, !.skip = FALSE]
    BY <1>5 DEF CreateSchedule, interval
  <2>2. CreateSchedule(spec) = [kind |-> "once", start |-> spec.start, end |-> -1,
                                interval |-> 1, skip |-> FALSE, local |-> IsLocal(spec)]
    BY <2>1 DEF Unbounded
  <2> QED
    BY <1>2, <2>2 DEF Schedule, Specification
<1> QED
  BY <1>4, <1>5

LEMMA NextPointType ==
  ASSUME NEW base \in Int, NEW interval \in Nat \ {0}, NEW now \in Int
  PROVE  NextPoint(base, interval, now) \in Int
<1>1. (now - base) \div interval + 1 \in Int
  OBVIOUS
<1>2. ((now - base) \div interval + 1) * interval \in Int
  BY <1>1
<1> QED
  BY <1>2 DEF NextPoint

LEMMA NextStartType ==
  ASSUME NEW schedule \in Schedule, NEW lastFinished \in Int, NEW now \in Int
  PROVE  CalcNextStartTime(schedule, lastFinished, now) \in Int
<1> DEFINE base == GetBaseStartTime(schedule, lastFinished)
<1>1. base \in Int
  BY TimesAssumption DEF GetBaseStartTime, Schedule
<1>2. NextPoint(base, schedule.interval, now) \in Int
  BY <1>1, NextPointType DEF Schedule
<1> QED
  BY <1>2 DEF CalcNextStartTime, Schedule

-----------------------------------------------------------------------------
(* The wake-up.                                                            *)

LEMMA ThenIs == \A s : DequeueAndUpdateTimeout(s) = SetWake(ProcessQueue(s))
BY DEF DequeueAndUpdateTimeout, Then

Timed == clock \in [now : Int, zone : Int] /\ plan \in [Activities -> Schedule]

\* The queues of a state, and the items in them.
LEMMA QueueType ==
  ASSUME NEW s \in SchedulerState, NEW q \in QueueName
  PROVE  /\ s.queue[q] \in Seq(Activities) /\ Len(s.queue[q]) \in Nat
         /\ DOMAIN s.queue[q] = 1..Len(s.queue[q])
         /\ \A i \in DOMAIN s.queue[q] :
              s.queue[q][i] \in Activities /\ s.item[s.queue[q][i]].next \in Int
<1>1. s.queue[q] \in Seq(Activities) /\ s.item \in [Activities -> ItemState]
  BY DEF SchedulerState
<1>2. /\ Len(s.queue[q]) \in Nat /\ DOMAIN s.queue[q] = 1..Len(s.queue[q])
      /\ \A i \in DOMAIN s.queue[q] : s.queue[q][i] \in Activities
  BY <1>1, LenProperties
<1> QED
  BY <1>1, <1>2 DEF ItemState

LEMMA TimeType ==
  ASSUME Timed, NEW s \in SchedulerState, NEW a \in Activities
  PROVE  GetTime(s, a) \in Int /\ Local(a, clock.now) \in Int /\ QueueOf(a) \in QueueName
BY DEF Timed, GetTime, Local, QueueOf, QueueName, SchedulerState

\* What leaves a queue is its first items.
LEMMA DueIsPrefix ==
  ASSUME Timed, NEW s \in SchedulerState, NEW q \in QueueName
  PROVE  /\ Cardinality(Due(s, q)) \in 0..Len(s.queue[q])
         /\ Due(s, q) = 1..Cardinality(Due(s, q))
<1> DEFINE n == Len(s.queue[q])
<1>1. n \in Nat /\ DOMAIN s.queue[q] = 1..n
  BY QueueType
<1> HIDE DEF n
<1>2. Due(s, q) \in SUBSET (1..n)
  BY <1>1 DEF Due
<1>3. ASSUME NEW i \in Due(s, q), NEW j \in 1..i
      PROVE  j \in Due(s, q)
  <2>1. i \in 1..n /\ j \in 1..n /\ \A k \in 1..j : k \in 1..i
    BY <1>1, <1>2
  <2> QED
    BY <1>1, <2>1 DEF Due
<1>4. Cardinality(Due(s, q)) \in 0..n /\ Due(s, q) = 1..Cardinality(Due(s, q))
  BY <1>1, <1>2, <1>3, PrefixIsInterval
<1> QED
  BY <1>4 DEF n

\* The queues hold those of A that are queued. (While a schedule is queued or taken
\* off, all but its own.)
Queued(s, A) ==
  \A q \in QueueName :
    /\ IsInjective(s.queue[q])
    /\ ToSet(s.queue[q]) = {a \in A : s.item[a].phase = "queued" /\ QueueOf(a) = q}

LEMMA LinkedIs == \A s : Linked(s) <=> Queued(s, Activities)
BY DEF Linked, Queued

\* How many leave a queue.
Leaving(s, q) == IF q \in Usable(s) THEN Cardinality(Due(s, q)) ELSE 0

\* Places move up by m.
LEMMA Shifted ==
  ASSUME NEW m \in Nat, NEW n \in Nat, NEW i \in 1..(n - m), NEW j \in 1..(n - m)
  PROVE  /\ m + i \in 1..n /\ m + j \in 1..n
         /\ i < j => m + i < m + j
         /\ i # j => m + i # m + j
OBVIOUS

\* What has to leave leaves, and what stays stays in order.
LEMMA ProcessQueueKeeps ==
  ASSUME Timed, NEW s \in SchedulerState, NEW A \in SUBSET Activities, Queued(s, A), InOrder(s)
  PROVE  /\ ProcessQueue(s) \in SchedulerState
         /\ Queued(ProcessQueue(s), A) /\ InOrder(ProcessQueue(s))
         /\ ProcessQueue(s).offset = s.offset /\ ProcessQueue(s).wake = s.wake
         /\ ProcessQueue(s).powerd = s.powerd
<1> DEFINE due == [q \in QueueName |-> IF q \in Usable(s) THEN Due(s, q) ELSE {}]
           gone == UNION {{s.queue[q][i] : i \in due[q]} : q \in QueueName}
           k == [q \in QueueName |-> Leaving(s, q)]
           t == ProcessQueue(s)
<1>1. \A q \in QueueName : /\ Cardinality(due[q]) = k[q] /\ due[q] = 1..k[q]
                           /\ k[q] \in 0..Len(s.queue[q])
  <2> TAKE q \in QueueName
  <2>1. CASE q \in Usable(s)
    <3>1. due[q] = Due(s, q) /\ k[q] = Cardinality(Due(s, q))
      BY <2>1 DEF Leaving
    <3> QED
      BY <3>1, DueIsPrefix
  <2>2. CASE q \notin Usable(s)
    <3>1. due[q] = {} /\ k[q] = 0
      BY <2>2 DEF Leaving
    <3>2. Len(s.queue[q]) \in Nat
      BY QueueType
    <3>3. 1..0 = {} /\ Cardinality({}) = 0
      BY FS_EmptySet
    <3> HIDE DEF due, k
    <3> QED
      BY <3>1, <3>2, <3>3
  <2> QED
    BY <2>1, <2>2
<1>2. t = [s EXCEPT !.queue = [q \in QueueName |->
                       SubSeq(s.queue[q], Cardinality(due[q]) + 1, Len(s.queue[q]))],
                    !.item = [a \in Activities |->
                       IF a \in gone
                       THEN [s.item[a] EXCEPT !.phase = "started", !.scheduled = TRUE,
                                              !.began = Local(a, clock.now)]
                       ELSE s.item[a]]]
  BY DEF ProcessQueue
<1>3. \A q \in QueueName :
        /\ t.queue[q] \in Seq(Activities) /\ Len(t.queue[q]) = Len(s.queue[q]) - k[q]
        /\ DOMAIN t.queue[q] = 1..(Len(s.queue[q]) - k[q])
        /\ \A i \in 1..(Len(s.queue[q]) - k[q]) : t.queue[q][i] = s.queue[q][k[q] + i]
  <2> TAKE q \in QueueName
  <2>1. t.queue[q] = SubSeq(s.queue[q], k[q] + 1, Len(s.queue[q]))
    BY <1>1, <1>2 DEF SchedulerState
  <2>2. /\ Len(s.queue[q]) \in Nat /\ k[q] \in Nat /\ k[q] <= Len(s.queue[q])
        /\ \A i \in (k[q] + 1)..Len(s.queue[q]) : s.queue[q][i] \in Activities
    BY <1>1, QueueType
  <2>3. /\ t.queue[q] \in Seq(Activities) /\ Len(t.queue[q]) = Len(s.queue[q]) - k[q]
        /\ \A i \in 1..(Len(s.queue[q]) - k[q]) : t.queue[q][i] = s.queue[q][k[q] + i]
    <3> DEFINE m == k[q] + 1
               n == Len(s.queue[q])
    <3>1. m \in Int /\ n \in Int /\ m <= n + 1 /\ n - m + 1 = n - k[q]
      BY <2>2
    <3>2. t.queue[q] = SubSeq(s.queue[q], m, n) /\ \A i \in m..n : s.queue[q][i] \in Activities
      BY <2>1, <2>2
    <3>3. \A i \in 1..(n - m + 1) : m + i - 1 = k[q] + i
      BY <2>2
    <3> HIDE DEF t, k, m, n
    <3>4. /\ t.queue[q] \in Seq(Activities) /\ Len(t.queue[q]) = IF m <= n THEN n - m + 1 ELSE 0
          /\ \A i \in 1..(n - m + 1) : t.queue[q][i] = s.queue[q][m + i - 1]
      BY <3>1, <3>2, SubSeqProperties
    <3>5. Len(t.queue[q]) = n - k[q]
      BY <3>1, <3>4
    <3> QED
      BY <3>1, <3>3, <3>4, <3>5 DEF n
  <2> QED
    BY <2>3, LenProperties
<1>4. \A a \in Activities :
        /\ t.item[a].next = s.item[a].next
        /\ t.item[a].phase = IF a \in gone THEN "started" ELSE s.item[a].phase
        /\ t.item[a] \in ItemState
  <2> TAKE a \in Activities
  <2>1. s.item[a] \in ItemState /\ Local(a, clock.now) \in Int
    BY TimeType DEF SchedulerState
  <2>2. t.item[a] = IF a \in gone
                    THEN [s.item[a] EXCEPT !.phase = "started", !.scheduled = TRUE,
                                           !.began = Local(a, clock.now)]
                    ELSE s.item[a]
    BY <1>2 DEF SchedulerState
  <2> HIDE DEF gone, t
  <2> QED
    BY <2>1, <2>2 DEF ItemState
<1>5. \A a \in Activities :
        a \in gone <=> \E q \in QueueName : \E i \in 1..k[q] : a = s.queue[q][i]
  BY <1>1
<1>6. /\ t.offset = s.offset /\ t.wake = s.wake /\ t.powerd = s.powerd
      /\ t.item = [a \in Activities |-> t.item[a]]
      /\ t.queue = [q \in QueueName |-> t.queue[q]]
      /\ t = [item |-> t.item, queue |-> t.queue, offset |-> t.offset, wake |-> t.wake,
              powerd |-> t.powerd]
  BY <1>2 DEF SchedulerState
<1> HIDE DEF t, k, gone, due
<1>7. t \in SchedulerState
  <2>1. t.item \in [Activities -> ItemState] /\ t.queue \in [QueueName -> Seq(Activities)]
    BY <1>3, <1>4, <1>6
  <2> QED
    BY <1>6, <2>1 DEF SchedulerState
<1>8. InOrder(t)
  <2> SUFFICES ASSUME NEW q \in QueueName, NEW i \in DOMAIN t.queue[q],
                      NEW j \in DOMAIN t.queue[q], i < j
               PROVE  t.item[t.queue[q][i]].next <= t.item[t.queue[q][j]].next
    BY DEF InOrder
  <2>1. /\ Len(s.queue[q]) \in Nat /\ k[q] \in Nat /\ k[q] <= Len(s.queue[q])
        /\ DOMAIN s.queue[q] = 1..Len(s.queue[q])
        /\ DOMAIN t.queue[q] = 1..(Len(s.queue[q]) - k[q])
    BY <1>1, <1>3, QueueType
  <2>2. k[q] + i \in DOMAIN s.queue[q] /\ k[q] + j \in DOMAIN s.queue[q] /\ k[q] + i < k[q] + j
    BY <2>1, Shifted
  <2>3. t.queue[q][i] = s.queue[q][k[q] + i] /\ t.queue[q][j] = s.queue[q][k[q] + j]
    BY <1>3
  <2>4. s.item[s.queue[q][k[q] + i]].next <= s.item[s.queue[q][k[q] + j]].next
    BY <2>2 DEF InOrder
  <2>5. s.queue[q][k[q] + i] \in Activities /\ s.queue[q][k[q] + j] \in Activities
    BY <2>2, QueueType
  <2> QED
    BY <1>4, <2>3, <2>4, <2>5
<1>9. Queued(t, A)
  <2> SUFFICES ASSUME NEW q \in QueueName
               PROVE  /\ IsInjective(t.queue[q])
                      /\ ToSet(t.queue[q]) = {a \in A : t.item[a].phase = "queued" /\ QueueOf(a) = q}
    BY DEF Queued
  <2>1. /\ Len(s.queue[q]) \in Nat /\ k[q] \in Nat /\ k[q] <= Len(s.queue[q])
        /\ DOMAIN s.queue[q] = 1..Len(s.queue[q])
        /\ DOMAIN t.queue[q] = 1..(Len(s.queue[q]) - k[q])
        /\ \A i \in DOMAIN t.queue[q] : t.queue[q][i] = s.queue[q][k[q] + i]
    <3>1. /\ Len(s.queue[q]) \in Nat /\ k[q] \in 0..Len(s.queue[q])
          /\ DOMAIN s.queue[q] = 1..Len(s.queue[q])
      BY <1>1, QueueType
    <3>2. /\ DOMAIN t.queue[q] = 1..(Len(s.queue[q]) - k[q])
          /\ \A i \in 1..(Len(s.queue[q]) - k[q]) : t.queue[q][i] = s.queue[q][k[q] + i]
      BY <1>3
    <3>3. k[q] \in Nat /\ k[q] <= Len(s.queue[q])
      BY <3>1
    <3>4. \A i \in DOMAIN t.queue[q] : t.queue[q][i] = s.queue[q][k[q] + i]
      BY <3>2
    <3> QED
      BY <3>1, <3>2, <3>3, <3>4
  <2>2. \A i, j \in DOMAIN s.queue[q] : s.queue[q][i] = s.queue[q][j] => i = j
    BY DEF Queued, IsInjective
  <2>3. \A a \in Activities : (a \in A /\ s.item[a].phase = "queued" /\ QueueOf(a) = q) <=>
                                \E i \in DOMAIN s.queue[q] : s.queue[q][i] = a
    BY DEF Queued, ToSet
  <2>4. IsInjective(t.queue[q])
    <3> SUFFICES ASSUME NEW i \in DOMAIN t.queue[q], NEW j \in DOMAIN t.queue[q],
                        t.queue[q][i] = t.queue[q][j]
                 PROVE  i = j
      BY DEF IsInjective
    <3>1. /\ k[q] + i \in DOMAIN s.queue[q] /\ k[q] + j \in DOMAIN s.queue[q]
          /\ i # j => k[q] + i # k[q] + j
      BY <2>1, Shifted
    <3>2. k[q] + i = k[q] + j
      BY <2>1, <2>2, <3>1
    <3> QED
      BY <3>1, <3>2
  <2>5. ASSUME NEW i \in DOMAIN t.queue[q]
        PROVE  /\ t.queue[q][i] \in A /\ t.item[t.queue[q][i]].phase = "queued"
               /\ QueueOf(t.queue[q][i]) = q
    <3> DEFINE a == t.queue[q][i]
    <3>1. k[q] + i \in DOMAIN s.queue[q] /\ a = s.queue[q][k[q] + i]
      BY <2>1, Shifted
    <3>2. a \in Activities /\ a \in A /\ s.item[a].phase = "queued" /\ QueueOf(a) = q
      BY <2>3, <3>1, QueueType
    <3>3. ASSUME NEW r \in QueueName, NEW j \in 1..k[r], a = s.queue[r][j] PROVE FALSE
      <4>1. j \in DOMAIN s.queue[r]
        BY <1>1, QueueType
      <4>2. QueueOf(a) = r
        BY <3>3, <4>1 DEF Queued, ToSet
      <4>3. j = k[q] + i
        BY <2>2, <3>1, <3>2, <3>3, <4>1, <4>2
      <4>4. j \in 1..k[q]
        BY <3>2, <4>2
      <4> QED
        BY <2>1, <4>3, <4>4
    <3>4. a \notin gone
      BY <1>5, <3>2, <3>3
    <3> QED
      BY <1>4, <3>2, <3>4
  <2>6. ASSUME NEW a \in A, t.item[a].phase = "queued", QueueOf(a) = q
        PROVE  \E i \in DOMAIN t.queue[q] : t.queue[q][i] = a
    <3>1. a \notin gone /\ s.item[a].phase = "queued"
      BY <1>4, <2>6
    <3>2. PICK i \in DOMAIN s.queue[q] : s.queue[q][i] = a
      BY <2>3, <2>6, <3>1
    <3>3. i \notin 1..k[q]
      BY <1>5, <3>1, <3>2
    <3>4. PICK j \in Int : j = i - k[q]
      BY <2>1
    <3>5. k[q] + j = i /\ j \in DOMAIN t.queue[q]
      BY <2>1, <3>3, <3>4
    <3> QED
      BY <2>1, <3>2, <3>5
  <2> QED
    BY <2>4, <2>5, <2>6 DEF ToSet
<1> QED
  BY <1>6, <1>7, <1>8, <1>9 DEF t

\* A queue that may be touched has a first item, and a time at which it starts.
LEMMA HeadTimeType ==
  ASSUME NEW s \in SchedulerState, NEW q \in Usable(s)
  PROVE  /\ q \in QueueName /\ 1 \in DOMAIN s.queue[q] /\ Head(s.queue[q]) = s.queue[q][1]
         /\ HeadTime(s, q) \in Int
<1>1. q \in QueueName /\ s.queue[q] # << >>
  BY DEF Usable
<1>2. s.queue[q] \in Seq(Activities) /\ DOMAIN s.queue[q] = 1..Len(s.queue[q])
  BY <1>1, QueueType
<1>3. 1 \in DOMAIN s.queue[q] /\ Head(s.queue[q]) = s.queue[q][1]
  BY <1>1, <1>2, EmptySeq
<1>4. s.item[Head(s.queue[q])].next \in Int
  BY <1>1, <1>3, QueueType
<1> QED
  BY <1>1, <1>3, <1>4 DEF HeadTime, SchedulerState

\* The wake-up is for the first of the times at which a queue starts.
LEMMA NextStartIs ==
  ASSUME NEW s \in SchedulerState, Usable(s) # {}
  PROVE  /\ GetNextStartTime(s) \in Int
         /\ \A q \in Usable(s) : GetNextStartTime(s) <= HeadTime(s, q)
         /\ \E q \in Usable(s) : GetNextStartTime(s) = HeadTime(s, q)
<1>1. \A q \in Usable(s) : HeadTime(s, q) \in Int
  BY HeadTimeType
<1>2. \E q \in Usable(s) : \A r \in Usable(s) : HeadTime(s, q) <= HeadTime(s, r)
  <2>1. Usable(s) \subseteq {"utc", "local"}
    BY DEF Usable, QueueName
  <2>2. CASE "utc" \in Usable(s) /\ "local" \in Usable(s)
    <3>1. HeadTime(s, "utc") <= HeadTime(s, "local") \/ HeadTime(s, "local") <= HeadTime(s, "utc")
      BY <1>1, <2>2
    <3> QED
      BY <1>1, <2>1, <2>2, <3>1
  <2>3. CASE ~("utc" \in Usable(s) /\ "local" \in Usable(s))
    <3>1. PICK q \in Usable(s) : \A r \in Usable(s) : r = q
      BY <2>1, <2>3
    <3> QED
      BY <1>1, <3>1
  <2> QED
    BY <2>2, <2>3
<1>3. PICK q \in Usable(s) : /\ GetNextStartTime(s) = HeadTime(s, q)
                             /\ \A r \in Usable(s) : HeadTime(s, q) <= HeadTime(s, r)
  BY <1>2 DEF GetNextStartTime
<1> QED
  BY <1>1, <1>3

LEMMA WakeIsSetIs ==
  ASSUME NEW s \in SchedulerState
  PROVE  WakeIsSet(s) <=>
           \A q \in Usable(s) : s.wake.scheduled /\ s.wake.at <= HeadTime(s, q)
<1>1. s.wake.at \in Int
  BY DEF SchedulerState
<1>2. \A q \in Usable(s) : HeadTime(s, q) \in Int
  BY HeadTimeType
<1>3. CASE Usable(s) # {}
  BY <1>1, <1>2, <1>3, NextStartIs DEF WakeIsSet
<1> QED
  BY <1>3 DEF WakeIsSet

-----------------------------------------------------------------------------
(* The calls.                                                              *)

\* The last request is the call that is waited for, and that is for the wake-up
\* there is.
Heard(s) ==
  LET set == [kind |-> "set", at |-> s.wake.at]
  IN /\ s.wake.scheduled /\ s.powerd.call # NoCall => s.powerd.call = set
     /\ s.wake.scheduled /\ s.powerd.requests # << >> =>
          Last(s.powerd.requests) = set /\ s.powerd.call = set
     /\ s.powerd.reply # "none" => s.powerd.requests = << >> /\ s.powerd.call # NoCall
     /\ WakeIsHeard(s)

LEMMA AppendIs ==
  ASSUME NEW requests \in Seq(Request), NEW r \in Request
  PROVE  /\ Append(requests, r) \in Seq(Request) /\ Append(requests, r) # << >>
         /\ Last(Append(requests, r)) = r
<1>1. /\ Append(requests, r) \in Seq(Request) /\ Len(Append(requests, r)) = Len(requests) + 1
      /\ Append(requests, r)[Len(requests) + 1] = r
  BY AppendProperties
<1>2. Len(requests) \in Nat
  BY LenProperties
<1> QED
  BY <1>1, <1>2, EmptySeq DEF Last

LEMMA SendIs ==
  ASSUME NEW s \in SchedulerState, NEW r \in Request
  PROVE  /\ Send(s, r) \in SchedulerState
         /\ Send(s, r).item = s.item /\ Send(s, r).queue = s.queue
         /\ Send(s, r).offset = s.offset /\ Send(s, r).wake = s.wake
         /\ Send(s, r).powerd.call = r /\ Send(s, r).powerd.reply = "none"
         /\ Send(s, r).powerd.requests # << >> /\ Last(Send(s, r).powerd.requests) = r
         /\ Send(s, r).powerd.alarm = s.powerd.alarm
         /\ Send(s, r).powerd.waking = s.powerd.waking
         /\ Send(s, r).powerd.refused = s.powerd.refused
<1>1. s.powerd \in PowerDaemon
  BY DEF SchedulerState
<1>2. /\ Append(s.powerd.requests, r) \in Seq(Request) /\ Append(s.powerd.requests, r) # << >>
      /\ Last(Append(s.powerd.requests, r)) = r
  BY <1>1, AppendIs DEF PowerDaemon
<1>3. Send(s, r) = [s EXCEPT !.powerd =
        [s.powerd EXCEPT !.call = r, !.reply = "none",
                         !.requests = Append(s.powerd.requests, r)]]
  BY DEF Send, SchedulerState, PowerDaemon
<1> DEFINE p == [s.powerd EXCEPT !.call = r, !.reply = "none",
                                 !.requests = Append(s.powerd.requests, r)]
<1>4. /\ p \in PowerDaemon /\ p.call = r /\ p.reply = "none"
      /\ p.requests = Append(s.powerd.requests, r)
      /\ p.alarm = s.powerd.alarm /\ p.waking = s.powerd.waking
      /\ p.refused = s.powerd.refused
  BY <1>1, <1>2 DEF PowerDaemon
<1> HIDE DEF p
<1>5. /\ Send(s, r) \in SchedulerState /\ Send(s, r).powerd = p
      /\ Send(s, r).item = s.item /\ Send(s, r).queue = s.queue
      /\ Send(s, r).offset = s.offset /\ Send(s, r).wake = s.wake
  BY <1>3, <1>4 DEF SchedulerState, p
<1> QED
  BY <1>2, <1>4, <1>5

\* The wake-up follows the queues, and the daemon is told.
LEMMA SetWakeKeeps ==
  ASSUME NEW s \in SchedulerState, Heard(s)
  PROVE  /\ SetWake(s) \in SchedulerState
         /\ SetWake(s).item = s.item /\ SetWake(s).queue = s.queue
         /\ SetWake(s).offset = s.offset
         /\ WakeIsSet(SetWake(s)) /\ Heard(SetWake(s))
<1> DEFINE t == SetWake(s)
<1>1. CASE Usable(s) = {}
  <2>1. t = CancelTimeout(s)
    BY <1>1 DEF SetWake
  <2>2. CASE s.wake.scheduled
    <3> DEFINE r == [kind |-> "clear", at |-> 0]
               u == Send(s, r)
    <3>1. r \in Request
      BY DEF Request
    <3>2. t = [u EXCEPT !.wake.scheduled = FALSE]
      BY <2>1, <2>2 DEF CancelTimeout
    <3> HIDE DEF r, t
    <3>3. /\ u \in SchedulerState /\ u.item = s.item /\ u.queue = s.queue
          /\ u.offset = s.offset /\ u.powerd.reply = "none"
      BY <3>1, SendIs
    <3> HIDE DEF u
    <3>4. /\ t \in SchedulerState /\ t.item = s.item /\ t.queue = s.queue
          /\ t.offset = s.offset /\ t.powerd = u.powerd /\ t.wake.scheduled = FALSE
      BY <3>2, <3>3 DEF SchedulerState
    <3>5. Usable(t) = {}
      BY <1>1, <3>4 DEF Usable
    <3>6. Heard(t)
      BY <3>3, <3>4 DEF Heard, WakeIsHeard
    <3> QED
      BY <3>4, <3>5, <3>6 DEF WakeIsSet, t
  <2>3. CASE ~s.wake.scheduled
    BY <1>1, <2>1, <2>3 DEF CancelTimeout, WakeIsSet
  <2> QED
    BY <2>2, <2>3
<1>2. CASE Usable(s) # {}
  <2> DEFINE at == GetNextStartTime(s)
  <2>1. t = IF s.wake = [scheduled |-> TRUE, at |-> at] THEN s ELSE UpdateTimeout(s, at)
    BY <1>2 DEF SetWake, Then
  <2>2. at \in Int /\ \A q \in Usable(s) : at <= HeadTime(s, q)
    BY <1>2, NextStartIs
  <2> HIDE DEF at, t
  <2>3. CASE s.wake = [scheduled |-> TRUE, at |-> at]
    <3>1. t = s /\ s.wake.scheduled /\ s.wake.at = at
      BY <2>1, <2>3
    <3>2. WakeIsSet(s)
      BY <2>2, <3>1, WakeIsSetIs
    <3> QED
      BY <3>1, <3>2 DEF t
  <2>4. CASE s.wake # [scheduled |-> TRUE, at |-> at]
    <3> DEFINE r == [kind |-> "set", at |-> at]
               u == Send(s, r)
    <3>1. r \in Request
      BY <2>2 DEF Request
    <3>2. t = [u EXCEPT !.wake = [scheduled |-> TRUE, at |-> at]]
      BY <2>1, <2>4 DEF UpdateTimeout
    <3> HIDE DEF r
    <3>3. /\ u \in SchedulerState /\ u.item = s.item /\ u.queue = s.queue
          /\ u.offset = s.offset /\ u.powerd.reply = "none"
          /\ u.powerd.requests # << >> /\ Last(u.powerd.requests) = r /\ u.powerd.call = r
      BY <3>1, SendIs
    <3> HIDE DEF u
    <3>4. /\ t \in SchedulerState /\ t.item = s.item /\ t.queue = s.queue
          /\ t.offset = s.offset /\ t.powerd = u.powerd
          /\ t.wake.scheduled /\ t.wake.at = at
      BY <2>2, <3>2, <3>3 DEF SchedulerState
    <3>5. Usable(t) = Usable(s) /\ \A q : HeadTime(t, q) = HeadTime(s, q)
      BY <3>4 DEF Usable, HeadTime
    <3>6. WakeIsSet(t)
      BY <2>2, <3>4, <3>5, WakeIsSetIs
    <3>7. Heard(t)
      BY <3>3, <3>4 DEF Heard, WakeIsHeard, r
    <3> QED
      BY <3>4, <3>6, <3>7 DEF t
  <2> QED
    BY <2>3, <2>4
<1> QED
  BY <1>1, <1>2

\* Whatever was wrong with the wake-up, it is right when what is due has left.
LEMMA DequeueKeeps ==
  ASSUME Timed, NEW s \in SchedulerState, NEW A \in SUBSET Activities, Queued(s, A), InOrder(s),
         Heard(s)
  PROVE  LET t == DequeueAndUpdateTimeout(s)
         IN  t \in SchedulerState /\ Queued(t, A) /\ InOrder(t) /\ WakeIsSet(t) /\ Heard(t)
<1> DEFINE u == ProcessQueue(s)
           t == SetWake(u)
<1>1. /\ u \in SchedulerState /\ Queued(u, A) /\ InOrder(u)
      /\ u.offset = s.offset /\ u.wake = s.wake /\ u.powerd = s.powerd
  BY ProcessQueueKeeps
<1> HIDE DEF u
<1>2. Heard(u)
  BY <1>1 DEF Heard, WakeIsHeard
<1>3. /\ t \in SchedulerState /\ t.item = u.item /\ t.queue = u.queue
      /\ WakeIsSet(t) /\ Heard(t)
  BY <1>1, <1>2, SetWakeKeeps
<1> HIDE DEF t
<1>4. Queued(t, A) /\ InOrder(t)
  BY <1>1, <1>3 DEF Queued, InOrder
<1>5. DequeueAndUpdateTimeout(s) = t
  BY ThenIs DEF t, u
<1> QED
  BY <1>3, <1>4, <1>5

-----------------------------------------------------------------------------
(* Putting in and taking out.                                              *)

\* The state with a put into its queue.
Put(s, a) == [s EXCEPT !.queue[QueueOf(a)] = Insert(s.item, s.queue[QueueOf(a)], a)]

LEMMA PutKeeps ==
  ASSUME Timed, NEW s \in SchedulerState, NEW A \in SUBSET Activities, Queued(s, A), InOrder(s),
         NEW a \in Activities, a \notin A, s.item[a].phase = "queued"
  PROVE  /\ Put(s, a) \in SchedulerState /\ Queued(Put(s, a), A \cup {a}) /\ InOrder(Put(s, a))
         /\ Put(s, a).item = s.item /\ Put(s, a).offset = s.offset
         /\ Put(s, a).wake = s.wake /\ Put(s, a).powerd = s.powerd
         /\ \A q \in QueueName : q # QueueOf(a) => Put(s, a).queue[q] = s.queue[q]
         /\ Put(s, a).queue[QueueOf(a)][1] # a =>
              /\ s.queue[QueueOf(a)] # << >>
              /\ Put(s, a).queue[QueueOf(a)][1] = s.queue[QueueOf(a)][1]
         /\ Put(s, a).queue[QueueOf(a)] # << >>
<1> DEFINE Q == QueueOf(a)
           seq == s.queue[Q]
           n == Len(seq)
           D == {i \in DOMAIN seq : s.item[seq[i]].next <= s.item[a].next}
           k == Cardinality(D)
           new == InsertAt(seq, k + 1, a)
           t == Put(s, a)
<1>1. Q \in QueueName
  BY TimeType
<1>2. /\ seq \in Seq(Activities) /\ n \in Nat /\ DOMAIN seq = 1..n
      /\ \A i \in 1..n : seq[i] \in Activities /\ s.item[seq[i]].next \in Int
  BY <1>1, QueueType
<1>3. s.item[a].next \in Int
  BY DEF SchedulerState, ItemState
<1>4. /\ t = [s EXCEPT !.queue = [s.queue EXCEPT ![Q] = new]]
      /\ s.queue \in [QueueName -> Seq(Activities)]
  BY DEF Put, Insert, SchedulerState
<1>5. /\ IsInjective(seq) /\ \A i, j \in 1..n : seq[i] = seq[j] => i = j
      /\ \A b \in Activities : (b \in A /\ s.item[b].phase = "queued" /\ QueueOf(b) = Q) <=>
                               \E i \in 1..n : seq[i] = b
  BY <1>1, <1>2 DEF Queued, ToSet, IsInjective
<1>6. \A i, j \in 1..n : i < j => s.item[seq[i]].next <= s.item[seq[j]].next
  BY <1>1, <1>2 DEF InOrder
<1> HIDE DEF Q, seq, n, new, t
<1>7. k \in 0..n /\ D = 1..k
  <2>1. D \in SUBSET (1..n)
    BY <1>2
  <2>2. ASSUME NEW i \in D, NEW j \in 1..i PROVE j \in D
    <3>1. i \in 1..n /\ j \in 1..n /\ s.item[seq[i]].next <= s.item[a].next
      BY <1>2, <2>1
    <3>2. s.item[seq[j]].next <= s.item[seq[i]].next
      BY <1>2, <1>6, <3>1
    <3>3. s.item[seq[j]].next <= s.item[a].next
      BY <1>2, <1>3, <3>1, <3>2
    <3> QED
      BY <1>2, <3>1, <3>3
  <2> HIDE DEF D
  <2> QED
    BY <1>2, <2>1, <2>2, PrefixIsInterval
<1>8. \A i \in 1..n : IF i <= k THEN s.item[seq[i]].next <= s.item[a].next
                      ELSE s.item[a].next <= s.item[seq[i]].next
  <2> TAKE i \in 1..n
  <2>1. i <= k <=> s.item[seq[i]].next <= s.item[a].next
    <3>1. i \in D <=> i \in 1..k
      BY <1>7
    <3>2. i \in D <=> s.item[seq[i]].next <= s.item[a].next
      BY <1>2
    <3> HIDE DEF D
    <3> QED
      BY <1>7, <3>1, <3>2
  <2>2. s.item[seq[i]].next \in Int
    BY <1>2
  <2> HIDE DEF D
  <2> QED
    BY <1>3, <2>1, <2>2
<1> HIDE DEF D, k
<1>9. /\ new \in Seq(Activities) /\ Len(new) = n + 1 /\ DOMAIN new = 1..(n + 1)
      /\ \A i \in 1..(n + 1) : new[i] = IF i < k + 1 THEN seq[i]
                                        ELSE IF i = k + 1 THEN a ELSE seq[i - 1]
  <2>1. k + 1 \in 1..(n + 1)
    BY <1>2, <1>7
  <2>2. n = Len(seq) /\ new = InsertAt(seq, k + 1, a)
    BY DEF n, new
  <2>3. PICK m \in 1..(Len(seq) + 1) : m = k + 1
    BY <2>1, <2>2
  <2>4. /\ InsertAt(seq, m, a) \in Seq(Activities)
        /\ Len(InsertAt(seq, m, a)) = Len(seq) + 1
        /\ \A i \in 1..(Len(seq) + 1) :
             InsertAt(seq, m, a)[i] = IF i < m THEN seq[i] ELSE IF i = m THEN a ELSE seq[i - 1]
    <3>1. seq \in Seq(Activities)
      BY <1>2
    <3> QED
      BY <3>1, InsertSeq
  <2>5. new = InsertAt(seq, m, a)
    BY <2>2, <2>3
  <2> QED
    BY <2>2, <2>3, <2>4, <2>5, LenProperties
<1>10. /\ t \in SchedulerState /\ t.item = s.item /\ t.offset = s.offset
       /\ t.wake = s.wake /\ t.powerd = s.powerd
       /\ t.queue[Q] = new /\ \A q \in QueueName : q # Q => t.queue[q] = s.queue[q]
  BY <1>1, <1>4, <1>9 DEF SchedulerState
\* Where the items at i and j of the new queue were.
<1>11. \A i \in 1..(n + 1) : \/ i < k + 1 /\ i \in 1..n /\ new[i] = seq[i]
                             \/ i = k + 1 /\ new[i] = a
                             \/ i > k + 1 /\ i - 1 \in 1..n /\ new[i] = seq[i - 1]
  BY <1>2, <1>7, <1>9
<1>12. \A i \in 1..n : seq[i] # a
  BY <1>5
<1>13. InOrder(t)
  <2>1. ASSUME NEW i \in 1..(n + 1), NEW j \in 1..(n + 1), i < j
        PROVE  s.item[new[i]].next <= s.item[new[j]].next
    <3>1. CASE i < k + 1 /\ j < k + 1
      BY <1>2, <1>6, <1>7, <1>11, <2>1, <3>1
    <3>2. CASE i < k + 1 /\ j = k + 1
      BY <1>2, <1>7, <1>8, <1>11, <2>1, <3>2
    <3>3. CASE i < k + 1 /\ j > k + 1
      <4>1. i \in 1..n /\ j - 1 \in 1..n /\ i < j - 1 /\ new[i] = seq[i] /\ new[j] = seq[j - 1]
        BY <1>2, <1>7, <1>11, <3>3
      <4> QED
        BY <1>6, <4>1
    <3>4. CASE i = k + 1
      <4>1. j - 1 \in 1..n /\ ~(j - 1 <= k) /\ new[i] = a /\ new[j] = seq[j - 1]
        BY <1>2, <1>7, <1>11, <2>1, <3>4
      <4> QED
        BY <1>8, <4>1
    <3>5. CASE i > k + 1
      <4>1. /\ i - 1 \in 1..n /\ j - 1 \in 1..n /\ i - 1 < j - 1
            /\ new[i] = seq[i - 1] /\ new[j] = seq[j - 1]
        BY <1>2, <1>7, <1>11, <2>1, <3>5
      <4> QED
        BY <1>6, <4>1
    <3> QED
      BY <1>2, <1>7, <2>1, <3>1, <3>2, <3>3, <3>4, <3>5
  <2> QED
    BY <1>1, <1>9, <1>10, <2>1 DEF InOrder
<1>14. Queued(t, A \cup {a})
  <2>1. IsInjective(new)
    <3> SUFFICES ASSUME NEW i \in 1..(n + 1), NEW j \in 1..(n + 1), new[i] = new[j]
                 PROVE  i = j
      BY <1>9 DEF IsInjective
    <3> QED
      BY <1>2, <1>5, <1>7, <1>11, <1>12
  <2>2. ToSet(new) = {b \in A \cup {a} : s.item[b].phase = "queued" /\ QueueOf(b) = Q}
    <3>1. ASSUME NEW i \in 1..(n + 1)
          PROVE  new[i] \in A \cup {a} /\ s.item[new[i]].phase = "queued" /\ QueueOf(new[i]) = Q
      <4>1. new[i] = a \/ \E j \in 1..n : new[i] = seq[j]
        BY <1>11
      <4> QED
        BY <1>2, <1>5, <4>1 DEF Q
    <3>2. ASSUME NEW b \in A \cup {a}, s.item[b].phase = "queued", QueueOf(b) = Q
          PROVE  \E i \in 1..(n + 1) : new[i] = b
      <4>1. CASE b = a
        <5>1. k + 1 \in 1..(n + 1)
          BY <1>2, <1>7
        <5> QED
          BY <1>7, <1>9, <4>1, <5>1
      <4>2. CASE b # a
        <5>1. PICK i \in 1..n : seq[i] = b
          BY <1>5, <3>2, <4>2
        <5>2. CASE i < k + 1
          BY <1>2, <1>9, <5>1, <5>2
        <5>3. CASE ~(i < k + 1)
          <6>1. /\ i + 1 \in 1..(n + 1) /\ ~(i + 1 < k + 1) /\ i + 1 # k + 1
                /\ (i + 1) - 1 = i
            BY <1>2, <1>7, <5>3
          <6>2. new[i + 1] = seq[i]
            BY <1>9, <6>1
          <6> QED
            BY <5>1, <6>1, <6>2
        <5> QED
          BY <5>2, <5>3
      <4> QED
        BY <4>1, <4>2
    <3> QED
      BY <1>9, <3>1, <3>2 DEF ToSet
  <2>3. ASSUME NEW q \in QueueName
        PROVE  /\ IsInjective(t.queue[q])
               /\ ToSet(t.queue[q]) =
                    {b \in A \cup {a} : t.item[b].phase = "queued" /\ QueueOf(b) = q}
    <3>1. CASE q = Q
      BY <1>10, <2>1, <2>2, <3>1
    <3>2. CASE q # Q
      <4>1. {b \in A \cup {a} : s.item[b].phase = "queued" /\ QueueOf(b) = q}
              = {b \in A : s.item[b].phase = "queued" /\ QueueOf(b) = q}
        BY <3>2 DEF Q
      <4> QED
        BY <1>10, <3>2, <4>1 DEF Queued
    <3> QED
      BY <3>1, <3>2
  <2> QED
    BY <2>3 DEF Queued
<1>15. new[1] # a => seq # << >> /\ new[1] = seq[1]
  <2>1. 1 \in 1..(n + 1)
    BY <1>2
  <2>2. new[1] # a => 1 \in 1..n /\ new[1] = seq[1]
    BY <1>2, <1>7, <1>11, <2>1
  <2> QED
    BY <1>2, <2>2, EmptySeq DEF n
<1>16. new # << >>
  BY <1>2, <1>9, EmptySeq
<1> QED
  BY <1>10, <1>13, <1>14, <1>15, <1>16 DEF t, Q, seq

LEMMA UnlinkKeeps ==
  ASSUME Timed, NEW s \in SchedulerState, NEW A \in SUBSET Activities, Queued(s, A), InOrder(s),
         NEW a \in A, s.item[a].phase = "queued"
  PROVE  /\ Unlink(s, a) \in SchedulerState /\ Queued(Unlink(s, a), A \ {a})
         /\ InOrder(Unlink(s, a))
         /\ Unlink(s, a).item = s.item /\ Unlink(s, a).offset = s.offset
         /\ Unlink(s, a).wake = s.wake /\ Unlink(s, a).powerd = s.powerd
         /\ \A q \in QueueName : q # QueueOf(a) => Unlink(s, a).queue[q] = s.queue[q]
         /\ s.queue[QueueOf(a)] # << >>
         /\ Unlink(s, a).queue[QueueOf(a)] # << >> =>
              \E i \in DOMAIN s.queue[QueueOf(a)] :
                /\ Unlink(s, a).queue[QueueOf(a)][1] = s.queue[QueueOf(a)][i]
                /\ s.queue[QueueOf(a)][1] # a => i = 1
<1> DEFINE Q == QueueOf(a)
           seq == s.queue[Q]
           n == Len(seq)
           k == CHOOSE i \in DOMAIN seq : seq[i] = a
           new == RemoveAt(seq, k)
           t == Unlink(s, a)
<1>1. Q \in QueueName /\ a \in Activities
  BY TimeType
<1>2. /\ seq \in Seq(Activities) /\ n \in Nat /\ n = Len(seq) /\ DOMAIN seq = 1..n
      /\ \A i \in 1..n : seq[i] \in Activities /\ s.item[seq[i]].next \in Int
  BY <1>1, QueueType
<1>3. /\ t = [s EXCEPT !.queue = [s.queue EXCEPT ![Q] = new]]
      /\ s.queue \in [QueueName -> Seq(Activities)]
  BY DEF Unlink, SchedulerState
<1>4. /\ \A i, j \in 1..n : seq[i] = seq[j] => i = j
      /\ \A b \in A : (s.item[b].phase = "queued" /\ QueueOf(b) = Q) <=>
                       \E i \in 1..n : seq[i] = b
      /\ \A i \in 1..n : seq[i] \in A
  BY <1>1, <1>2 DEF Queued, ToSet, IsInjective
<1>5. \A i, j \in 1..n : i < j => s.item[seq[i]].next <= s.item[seq[j]].next
  BY <1>1, <1>2 DEF InOrder
<1>6. k \in 1..n /\ seq[k] = a
  <2>1. \E i \in 1..n : seq[i] = a
    BY <1>4
  <2> QED
    BY <1>2, <2>1
<1> HIDE DEF Q, seq, n, k, t
<1>7. /\ new \in Seq(Activities) /\ Len(new) = n - 1 /\ DOMAIN new = 1..(n - 1)
      /\ \A i \in 1..(n - 1) : new[i] = IF i < k THEN seq[i] ELSE seq[i + 1]
  <2>1. seq \in Seq(Activities) /\ k \in 1..Len(seq)
    BY <1>2, <1>6
  <2>2. /\ new \in Seq(Activities) /\ Len(new) = Len(seq) - 1
        /\ \A i \in 1..(Len(seq) - 1) : new[i] = IF i < k THEN seq[i] ELSE seq[i + 1]
    BY <2>1, RemoveSeq
  <2> QED
    BY <1>2, <2>2, LenProperties
<1> HIDE DEF new
<1>8. /\ t \in SchedulerState /\ t.item = s.item /\ t.offset = s.offset
      /\ t.wake = s.wake /\ t.powerd = s.powerd
      /\ t.queue[Q] = new /\ \A q \in QueueName : q # Q => t.queue[q] = s.queue[q]
  BY <1>1, <1>3, <1>7 DEF SchedulerState
\* Where the item at i of the new queue was.
<1> DEFINE was(i) == IF i < k THEN i ELSE i + 1
<1>9. /\ \A i \in 1..(n - 1) : was(i) \in 1..n /\ was(i) # k /\ new[i] = seq[was(i)]
      /\ \A i, j \in 1..(n - 1) : i < j => was(i) < was(j)
      /\ \A i, j \in 1..(n - 1) : was(i) = was(j) => i = j
  BY <1>2, <1>6, <1>7
<1>10. \A j \in 1..n : j # k => \E i \in 1..(n - 1) : was(i) = j
  <2> TAKE j \in 1..n
  <2>1. CASE j < k
    BY <1>2, <1>6, <2>1
  <2>2. CASE j > k
    <3>1. j - 1 \in 1..(n - 1) /\ ~(j - 1 < k) /\ (j - 1) + 1 = j
      BY <1>2, <1>6, <2>2
    <3> QED
      BY <3>1
  <2> QED
    BY <1>2, <1>6, <2>1, <2>2
<1> HIDE DEF was
<1>11. InOrder(t)
  <2>1. ASSUME NEW i \in 1..(n - 1), NEW j \in 1..(n - 1), i < j
        PROVE  s.item[new[i]].next <= s.item[new[j]].next
    BY <1>5, <1>9, <2>1
  <2> QED
    BY <1>7, <1>8, <2>1 DEF InOrder
<1>12. Queued(t, A \ {a})
  <2>1. IsInjective(new)
    BY <1>4, <1>7, <1>9 DEF IsInjective
  <2>2. ToSet(new) = {b \in A \ {a} : s.item[b].phase = "queued" /\ QueueOf(b) = Q}
    <3>1. ASSUME NEW i \in 1..(n - 1)
          PROVE  new[i] \in A \ {a} /\ s.item[new[i]].phase = "queued" /\ QueueOf(new[i]) = Q
      <4>1. was(i) \in 1..n /\ seq[was(i)] # a /\ new[i] = seq[was(i)]
        BY <1>4, <1>6, <1>9
      <4> QED
        BY <1>4, <4>1
    <3>2. ASSUME NEW b \in A \ {a}, s.item[b].phase = "queued", QueueOf(b) = Q
          PROVE  \E i \in 1..(n - 1) : new[i] = b
      <4>1. PICK j \in 1..n : seq[j] = b
        BY <1>4, <3>2
      <4>2. PICK i \in 1..(n - 1) : was(i) = j
        BY <1>6, <1>10, <4>1
      <4> QED
        BY <1>9, <4>1, <4>2
    <3> QED
      BY <1>7, <3>1, <3>2 DEF ToSet
  <2>3. ASSUME NEW q \in QueueName
        PROVE  /\ IsInjective(t.queue[q])
               /\ ToSet(t.queue[q]) =
                    {b \in A \ {a} : t.item[b].phase = "queued" /\ QueueOf(b) = q}
    <3>1. CASE q = Q
      BY <1>8, <2>1, <2>2, <3>1
    <3>2. CASE q # Q
      <4>1. {b \in A \ {a} : s.item[b].phase = "queued" /\ QueueOf(b) = q}
              = {b \in A : s.item[b].phase = "queued" /\ QueueOf(b) = q}
        BY <3>2 DEF Q
      <4> QED
        BY <1>8, <3>2, <4>1 DEF Queued
    <3> QED
      BY <3>1, <3>2
  <2> QED
    BY <2>3 DEF Queued
<1>13. seq # << >>
  BY <1>2, <1>6, EmptySeq
<1>14. ASSUME new # << >>
       PROVE  \E i \in DOMAIN seq : new[1] = seq[i] /\ (seq[1] # a => i = 1)
  <2>1. n - 1 \in Nat \ {0}
    BY <1>2, <1>7, <1>14, EmptySeq
  <2>2. 1 \in 1..(n - 1)
    BY <1>2, <2>1
  <2>3. was(1) \in DOMAIN seq /\ new[1] = seq[was(1)]
    BY <1>2, <1>9, <2>2
  <2>4. ASSUME seq[1] # a PROVE was(1) = 1
    <3>1. k \in Nat /\ k >= 1 /\ k # 1
      BY <1>2, <1>6, <2>4
    <3> QED
      BY <3>1 DEF was
  <2> QED
    BY <2>3, <2>4
<1> QED
  BY <1>8, <1>11, <1>12, <1>13, <1>14 DEF t, Q, seq

-----------------------------------------------------------------------------
(* Operations of the Scheduler.                                            *)

\* Queues and wake-up of s are as they are to be.
InPlace(s) == Linked(s) /\ InOrder(s) /\ WakeIsSet(s) /\ Heard(s)

\* A wake-up that is early enough stays so while the queues only start later.
LEMMA WakeStays ==
  ASSUME NEW s \in SchedulerState, NEW t \in SchedulerState, WakeIsSet(s), t.wake = s.wake,
         \A q \in Usable(t) : q \in Usable(s) /\ HeadTime(s, q) <= HeadTime(t, q)
  PROVE  WakeIsSet(t)
<1>1. s.wake.at \in Int
  BY DEF SchedulerState
<1>2. ASSUME NEW q \in Usable(t)
      PROVE  t.wake.scheduled /\ t.wake.at <= HeadTime(t, q)
  <2>1. q \in Usable(s) /\ HeadTime(s, q) <= HeadTime(t, q)
    OBVIOUS
  <2>2. s.wake.scheduled /\ s.wake.at <= HeadTime(s, q)
    BY <2>1, WakeIsSetIs
  <2>3. HeadTime(s, q) \in Int /\ HeadTime(t, q) \in Int
    BY <2>1, HeadTimeType
  <2> QED
    BY <1>1, <2>1, <2>2, <2>3
<1> QED
  BY <1>2, WakeIsSetIs

\* What changes of the items in the queues is not their start time.
LEMMA SameQueues ==
  ASSUME NEW s \in SchedulerState, NEW t \in SchedulerState, NEW A \in SUBSET Activities,
         Queued(s, A), InOrder(s), t.queue = s.queue, t.offset = s.offset,
         \A a \in A : s.item[a].phase = "queued" => t.item[a].next = s.item[a].next
  PROVE  /\ InOrder(t)
         /\ Usable(t) = Usable(s) /\ \A q \in Usable(s) : HeadTime(t, q) = HeadTime(s, q)
<1>1. ASSUME NEW q \in QueueName, NEW i \in DOMAIN s.queue[q]
      PROVE  t.item[s.queue[q][i]].next = s.item[s.queue[q][i]].next
  BY DEF Queued, ToSet
<1>2. InOrder(t)
  BY <1>1 DEF InOrder
<1>3. Usable(t) = Usable(s)
  BY DEF Usable
<1>4. ASSUME NEW q \in Usable(s) PROVE HeadTime(t, q) = HeadTime(s, q)
  <2>1. q \in QueueName /\ 1 \in DOMAIN s.queue[q] /\ Head(s.queue[q]) = s.queue[q][1]
    BY HeadTimeType
  <2> QED
    BY <1>1, <2>1 DEF HeadTime
<1> QED
  BY <1>2, <1>3, <1>4

LEMMA AddItemKeeps ==
  ASSUME Timed, NEW s \in SchedulerState, NEW a \in Activities, Queued(s, Activities \ {a}),
         InOrder(s), WakeIsSet(s), Heard(s), s.item[a].phase = "queued"
  PROVE  AddItem(s, a) \in SchedulerState /\ InPlace(AddItem(s, a))
<1> DEFINE Q == QueueOf(a)
           A == Activities \ {a}
           t == Put(s, a)
<1>1. A \in SUBSET Activities /\ a \notin A /\ A \cup {a} = Activities /\ Queued(s, A)
  OBVIOUS
<1> HIDE DEF A
<1>2. /\ t \in SchedulerState /\ Queued(t, A \cup {a}) /\ InOrder(t)
      /\ t.item = s.item /\ t.offset = s.offset /\ t.wake = s.wake /\ t.powerd = s.powerd
      /\ \A q \in QueueName : q # Q => t.queue[q] = s.queue[q]
      /\ t.queue[Q][1] # a => s.queue[Q] # << >> /\ t.queue[Q][1] = s.queue[Q][1]
      /\ t.queue[Q] # << >>
  BY <1>1, PutKeeps
<1>3. Q \in QueueName
  BY TimeType
<1>4. AddItem(s, a) = IF Head(t.queue[Q]) = a THEN DequeueAndUpdateTimeout(t) ELSE t
  BY DEF AddItem, Put
<1> HIDE DEF t, Q
<1>5. Queued(t, Activities)
  BY <1>1, <1>2
<1>6. Heard(t)
  BY <1>2 DEF Heard, WakeIsHeard
<1>7. Head(t.queue[Q]) = t.queue[Q][1]
  <2>1. t.queue[Q] \in Seq(Activities)
    BY <1>2, <1>3, QueueType
  <2> QED
    BY <1>2, <2>1
<1>8. CASE t.queue[Q][1] = a
  <2>1. LET u == DequeueAndUpdateTimeout(t)
        IN  u \in SchedulerState /\ Queued(u, Activities) /\ InOrder(u) /\ WakeIsSet(u) /\ Heard(u)
    BY <1>2, <1>5, <1>6, DequeueKeeps
  <2> QED
    BY <1>4, <1>7, <1>8, <2>1, LinkedIs DEF InPlace
<1>9. CASE t.queue[Q][1] # a
  <2>1. ASSUME NEW q \in Usable(t)
        PROVE  q \in Usable(s) /\ HeadTime(s, q) = HeadTime(t, q)
    <3>1. q \in Usable(s)
      BY <1>2, <1>9 DEF Usable
    <3>2. /\ q \in QueueName /\ Head(s.queue[q]) = s.queue[q][1] /\ Head(t.queue[q]) = t.queue[q][1]
      BY <1>2, <3>1, HeadTimeType
    <3>3. Head(t.queue[q]) = Head(s.queue[q])
      BY <1>2, <1>9, <3>2
    <3> QED
      BY <1>2, <3>1, <3>3 DEF HeadTime
  <2>2. ASSUME NEW q \in Usable(t)
        PROVE  q \in Usable(s) /\ HeadTime(s, q) <= HeadTime(t, q)
    <3>1. HeadTime(t, q) \in Int
      BY <1>2, HeadTimeType
    <3> QED
      BY <2>1, <3>1
  <2>3. WakeIsSet(t)
    BY <1>2, <2>2, WakeStays
  <2> QED
    BY <1>2, <1>4, <1>5, <1>6, <1>7, <1>9, <2>3, LinkedIs DEF InPlace
<1> QED
  BY <1>8, <1>9

\* An item that is taken off leaves the wake-up early enough.
LEMMA UnlinkWakes ==
  ASSUME Timed, NEW s \in SchedulerState, NEW a \in Activities, InPlace(s),
         s.item[a].phase = "queued"
  PROVE  /\ Unlink(s, a) \in SchedulerState /\ Queued(Unlink(s, a), Activities \ {a})
         /\ InOrder(Unlink(s, a)) /\ WakeIsSet(Unlink(s, a)) /\ Heard(Unlink(s, a))
         /\ Unlink(s, a).item = s.item
<1> DEFINE Q == QueueOf(a)
           t == Unlink(s, a)
<1>1. Q \in QueueName /\ Queued(s, Activities) /\ InOrder(s) /\ WakeIsSet(s) /\ Heard(s)
  BY TimeType, LinkedIs DEF InPlace
<1>2. /\ t \in SchedulerState /\ Queued(t, Activities \ {a}) /\ InOrder(t)
      /\ t.item = s.item /\ t.offset = s.offset /\ t.wake = s.wake /\ t.powerd = s.powerd
      /\ \A q \in QueueName : q # Q => t.queue[q] = s.queue[q]
      /\ s.queue[Q] # << >>
      /\ t.queue[Q] # << >> => \E i \in DOMAIN s.queue[Q] : t.queue[Q][1] = s.queue[Q][i]
  BY <1>1, UnlinkKeeps
<1> HIDE DEF t, Q
<1>3. Heard(t)
  BY <1>1, <1>2 DEF Heard, WakeIsHeard
<1>4. ASSUME NEW q \in Usable(t)
      PROVE  q \in Usable(s) /\ HeadTime(s, q) <= HeadTime(t, q)
  <2>1. q \in Usable(s)
    BY <1>2 DEF Usable
  <2>2. /\ q \in QueueName /\ t.queue[q] # << >> /\ 1 \in DOMAIN s.queue[q]
        /\ Head(s.queue[q]) = s.queue[q][1] /\ Head(t.queue[q]) = t.queue[q][1]
        /\ HeadTime(s, q) \in Int /\ HeadTime(t, q) \in Int
    BY <1>2, <2>1, HeadTimeType DEF Usable
  <2>3. PICK i \in DOMAIN s.queue[q] : t.queue[q][1] = s.queue[q][i]
    BY <1>2, <2>2
  <2>4. DOMAIN s.queue[q] = 1..Len(s.queue[q]) /\ Len(s.queue[q]) \in Nat
    BY <2>2, QueueType
  <2>5. /\ s.item[s.queue[q][1]].next \in Int /\ s.item[s.queue[q][i]].next \in Int
        /\ s.offset.value \in Int
    BY <2>2, QueueType DEF SchedulerState
  <2>6. s.item[s.queue[q][1]].next <= s.item[s.queue[q][i]].next
    <3>1. CASE i = 1
      BY <2>5, <3>1
    <3>2. CASE i # 1
      <4>1. 1 < i
        BY <2>4, <3>2
      <4> QED
        BY <1>1, <2>2, <4>1 DEF InOrder
    <3> QED
      BY <3>1, <3>2
  <2> DEFINE c == IF q = "local" THEN s.offset.value ELSE 0
  <2>7. c \in Int
    BY <2>5
  <2>8. /\ HeadTime(s, q) = s.item[s.queue[q][1]].next - c
        /\ HeadTime(t, q) = s.item[s.queue[q][i]].next - c
    BY <1>2, <2>2, <2>3 DEF HeadTime
  <2> HIDE DEF c
  <2> QED
    BY <2>1, <2>5, <2>6, <2>7, <2>8
<1>5. WakeIsSet(t)
  BY <1>1, <1>2, <1>4, WakeStays
<1> QED
  BY <1>2, <1>3, <1>5 DEF t

LEMMA RemoveItemKeeps ==
  ASSUME Timed, NEW s \in SchedulerState, NEW a \in Activities, InPlace(s),
         s.item[a].phase = "queued"
  PROVE  /\ RemoveItem(s, a) \in SchedulerState /\ Queued(RemoveItem(s, a), Activities \ {a})
         /\ InOrder(RemoveItem(s, a)) /\ WakeIsSet(RemoveItem(s, a)) /\ Heard(RemoveItem(s, a))
<1> DEFINE t == Unlink(s, a)
<1>1. /\ t \in SchedulerState /\ Queued(t, Activities \ {a}) /\ InOrder(t) /\ WakeIsSet(t)
      /\ Heard(t)
  BY UnlinkWakes
<1> HIDE DEF t
<1>2. LET u == DequeueAndUpdateTimeout(t)
      IN  /\ u \in SchedulerState /\ Queued(u, Activities \ {a}) /\ InOrder(u) /\ WakeIsSet(u)
          /\ Heard(u)
  BY <1>1, DequeueKeeps
<1> QED
  BY <1>1, <1>2 DEF RemoveItem, t

-----------------------------------------------------------------------------
(* The start times change.                                                 *)

LEMMA RecalcType ==
  ASSUME Timed, NEW s \in SchedulerState, NEW A
  PROVE  /\ Recalc(s, A) \in [Activities -> ItemState]
         /\ \A a \in Activities : /\ Recalc(s, A)[a].phase = s.item[a].phase
                                  /\ a \notin A => Recalc(s, A)[a] = s.item[a]
<1> SUFFICES ASSUME NEW a \in Activities
             PROVE  /\ Recalc(s, A)[a] \in ItemState
                    /\ Recalc(s, A)[a].phase = s.item[a].phase
                    /\ a \notin A => Recalc(s, A)[a] = s.item[a]
  BY DEF Recalc
<1> DEFINE next == CalcNextStartTime(plan[a], s.item[a].lastFinished, GetTime(s, a))
<1>1. s.item[a] \in ItemState
  BY DEF SchedulerState
<1>2. next \in Int
  <2>1. plan[a] \in Schedule /\ s.item[a].lastFinished \in Int /\ GetTime(s, a) \in Int
    BY <1>1, TimeType DEF Timed, ItemState
  <2> QED
    BY <2>1, NextStartType
<1>3. Recalc(s, A)[a] = IF a \in A THEN [s.item[a] EXCEPT !.next = next] ELSE s.item[a]
  BY DEF Recalc
<1> HIDE DEF next
<1> QED
  BY <1>1, <1>2, <1>3 DEF ItemState

\* Inserted into an empty queue one after the other, the items are those there were,
\* in order.
LEMMA SortedIs ==
  ASSUME NEW items \in [Activities -> ItemState], NEW seq \in Seq(Activities)
  PROVE  /\ Sorted(items, seq) \in Seq(Activities)
         /\ IsInjective(seq) => IsInjective(Sorted(items, seq))
         /\ ToSet(Sorted(items, seq)) = ToSet(seq)
         /\ \A k, l \in DOMAIN Sorted(items, seq) :
              k < l => items[Sorted(items, seq)[k]].next <= items[Sorted(items, seq)[l]].next
<1> DEFINE n == Len(seq)
           key(i) == items[seq[i]].next
           before == [i \in 1..n |->
                        {j \in 1..n : key(j) < key(i) \/ (key(j) = key(i) /\ j < i)}]
           rank(i) == Cardinality(before[i])
           pos(k) == CHOOSE i \in 1..n : rank(i) = k - 1
           new == Sorted(items, seq)
<1>1. n \in Nat /\ DOMAIN seq = 1..n /\ \A i \in 1..n : seq[i] \in Activities
  BY LenProperties
<1>2. \A i \in 1..n : key(i) \in Int
  BY <1>1 DEF ItemState
<1>3. \A i \in 1..n : Rank(items, seq, i) = rank(i)
  BY <1>1 DEF Rank
<1>4. new = [k \in 1..n |-> seq[CHOOSE i \in 1..n : Rank(items, seq, i) = k - 1]]
  BY <1>1 DEF Sorted
<1> HIDE DEF n, key
<1>5. /\ before \in [1..n -> SUBSET (1..n)]
      /\ \A i, j \in 1..n : i \in before[j] <=> key(i) < key(j) \/ (key(i) = key(j) /\ i < j)
  BY <1>1
<1> HIDE DEF before, new
<1>6. /\ \A i \in 1..n : rank(i) \in 0..(n - 1)
      /\ \A i, j \in 1..n : i \in before[j] <=> rank(i) < rank(j)
      /\ \A k \in 1..n : \E i \in 1..n : rank(i) = k - 1
  <2>1. \A i \in 1..n : i \notin before[i]
    BY <1>1, <1>2, <1>5
  <2>2. \A i, j \in 1..n : i \in before[j] => before[i] \subseteq before[j]
    <3> SUFFICES ASSUME NEW i \in 1..n, NEW j \in 1..n, i \in before[j], NEW h \in before[i]
                 PROVE  h \in before[j]
      OBVIOUS
    <3>1. h \in 1..n
      BY <1>5
    <3>2. key(h) \in Int /\ key(i) \in Int /\ key(j) \in Int
      BY <1>2, <3>1
    <3>3. /\ key(h) < key(i) \/ (key(h) = key(i) /\ h < i)
          /\ key(i) < key(j) \/ (key(i) = key(j) /\ i < j)
      BY <1>5, <3>1
    <3>4. key(h) < key(j) \/ (key(h) = key(j) /\ h < j)
      BY <1>1, <3>1, <3>2, <3>3
    <3> QED
      BY <1>5, <3>1, <3>4
  <2>3. \A i, j \in 1..n : i # j => i \in before[j] \/ j \in before[i]
    BY <1>1, <1>2, <1>5
  <2> QED
    BY <1>1, <1>5, <2>1, <2>2, <2>3, RanksDiffer
<1>7. \A k \in 1..n : pos(k) \in 1..n /\ rank(pos(k)) = k - 1
  BY <1>6
<1>8. \A k \in 1..n : new[k] = seq[pos(k)]
  <2> TAKE k \in 1..n
  <2>1. new[k] = seq[CHOOSE i \in 1..n : Rank(items, seq, i) = k - 1]
    BY <1>4
  <2>2. \A i \in 1..n : (Rank(items, seq, i) = k - 1) <=> (rank(i) = k - 1)
    BY <1>3
  <2>3. (CHOOSE i \in 1..n : Rank(items, seq, i) = k - 1) = pos(k)
    BY <2>2
  <2> QED
    BY <2>1, <2>3
<1> HIDE DEF pos, rank
<1>9. \A i, j \in 1..n : rank(i) = rank(j) => i = j
  <2> SUFFICES ASSUME NEW i \in 1..n, NEW j \in 1..n, rank(i) = rank(j), i # j
               PROVE  FALSE
    OBVIOUS
  <2>1. rank(i) \in Int /\ ~(rank(i) < rank(j)) /\ ~(rank(j) < rank(i))
    BY <1>1, <1>6
  <2>2. i \notin before[j] /\ j \notin before[i]
    BY <1>6, <2>1
  <2> QED
    BY <1>1, <1>2, <1>5, <2>2
<1>10. new \in Seq(Activities) /\ DOMAIN new = 1..n
  <2>1. new \in [1..n -> Activities]
    BY <1>1, <1>4, <1>7, <1>8
  <2> QED
    BY <1>1, <2>1, SeqDef
<1>11. IsInjective(seq) => IsInjective(new)
  <2> SUFFICES ASSUME IsInjective(seq), NEW k \in 1..n, NEW l \in 1..n, new[k] = new[l]
               PROVE  k = l
    BY <1>10 DEF IsInjective
  <2>1. pos(k) = pos(l)
    BY <1>1, <1>7, <1>8 DEF IsInjective
  <2>2. k - 1 = l - 1
    BY <1>7, <2>1
  <2> QED
    BY <1>1, <2>2
<1>12. ToSet(new) = ToSet(seq)
  <2>1. ASSUME NEW k \in 1..n PROVE \E i \in 1..n : new[k] = seq[i]
    BY <1>7, <1>8
  <2>2. ASSUME NEW i \in 1..n PROVE \E k \in 1..n : new[k] = seq[i]
    <3>1. PICK k \in 1..n : k = rank(i) + 1
      BY <1>1, <1>6
    <3>2. rank(pos(k)) = rank(i) /\ pos(k) \in 1..n
      BY <1>1, <1>6, <1>7, <3>1
    <3>3. pos(k) = i
      BY <1>9, <3>2
    <3> QED
      BY <1>8, <3>3
  <2>3. ToSet(new) = {new[k] : k \in 1..n} /\ ToSet(seq) = {seq[i] : i \in 1..n}
    BY <1>1, <1>10 DEF ToSet
  <2>4. ToSet(new) \subseteq ToSet(seq)
    BY <2>1, <2>3
  <2>5. ToSet(seq) \subseteq ToSet(new)
    BY <2>2, <2>3
  <2> QED
    BY <2>4, <2>5
<1>13. ASSUME NEW k \in 1..n, NEW l \in 1..n, k < l
       PROVE  items[new[k]].next <= items[new[l]].next
  <2>1. rank(pos(k)) < rank(pos(l)) /\ pos(k) \in 1..n /\ pos(l) \in 1..n
    BY <1>1, <1>7, <1>13
  <2>2. pos(k) \in before[pos(l)]
    BY <1>6, <2>1
  <2>3. key(pos(k)) < key(pos(l)) \/ key(pos(k)) = key(pos(l))
    BY <1>5, <2>1, <2>2
  <2>4. key(pos(k)) \in Int /\ key(pos(l)) \in Int
    BY <1>2, <2>1
  <2>5. key(pos(k)) <= key(pos(l))
    BY <2>3, <2>4
  <2> QED
    BY <1>8, <2>5 DEF key
<1> QED
  BY <1>10, <1>11, <1>12, <1>13 DEF new

LEMMA ReQueueKeeps ==
  ASSUME Timed, NEW s \in SchedulerState, Linked(s), Heard(s)
  PROVE  /\ ReQueue(s) \in SchedulerState /\ Linked(ReQueue(s)) /\ InOrder(ReQueue(s))
         /\ Heard(ReQueue(s))
<1> DEFINE A == ToSet(s.queue["utc"] \o s.queue["local"])
           items == Recalc(s, A)
           t == ReQueue(s)
<1>1. items \in [Activities -> ItemState] /\ \A a \in Activities : items[a].phase = s.item[a].phase
  BY RecalcType
<1>2. /\ t = [s EXCEPT !.item = items,
                       !.queue = [q \in QueueName |-> Sorted(items, s.queue[q])]]
      /\ \A q \in QueueName : s.queue[q] \in Seq(Activities)
  BY QueueType DEF ReQueue
<1> HIDE DEF A, items, t
<1>3. \A q \in QueueName :
        /\ Sorted(items, s.queue[q]) \in Seq(Activities)
        /\ IsInjective(Sorted(items, s.queue[q]))
        /\ ToSet(Sorted(items, s.queue[q])) = ToSet(s.queue[q])
        /\ \A k, l \in DOMAIN Sorted(items, s.queue[q]) :
             k < l => items[Sorted(items, s.queue[q])[k]].next
                        <= items[Sorted(items, s.queue[q])[l]].next
  BY <1>1, <1>2, SortedIs DEF Linked
<1>4. /\ t \in SchedulerState /\ t.item = items /\ t.wake = s.wake /\ t.powerd = s.powerd
      /\ \A q \in QueueName : t.queue[q] = Sorted(items, s.queue[q])
  BY <1>1, <1>2, <1>3 DEF SchedulerState
<1>5. InOrder(t)
  BY <1>3, <1>4 DEF InOrder
<1>6. Linked(t)
  BY <1>1, <1>3, <1>4 DEF Linked
<1>7. Heard(t)
  BY <1>4 DEF Heard, WakeIsHeard
<1> QED
  BY <1>4, <1>5, <1>6, <1>7 DEF t

LEMMA TimeChangedKeeps ==
  ASSUME Timed, NEW s \in SchedulerState, Linked(s), Heard(s)
  PROVE  TimeChanged(s) \in SchedulerState /\ InPlace(TimeChanged(s))
<1> DEFINE t == ReQueue(s)
<1>1. t \in SchedulerState /\ Queued(t, Activities) /\ InOrder(t) /\ Heard(t)
  BY ReQueueKeeps, LinkedIs
<1>2. TimeChanged(s) = DequeueAndUpdateTimeout(t)
  BY DEF TimeChanged, Then
<1> HIDE DEF t
<1>3. LET u == DequeueAndUpdateTimeout(t)
      IN  u \in SchedulerState /\ Queued(u, Activities) /\ InOrder(u) /\ WakeIsSet(u) /\ Heard(u)
  BY <1>1, DequeueKeeps
<1> QED
  BY <1>2, <1>3, LinkedIs DEF InPlace

LEMMA SetLocalOffsetKeeps ==
  ASSUME Timed, NEW s \in SchedulerState, InPlace(s), NEW value \in Int
  PROVE  SetLocalOffset(s, value) \in SchedulerState /\ InPlace(SetLocalOffset(s, value))
<1> DEFINE t == [s EXCEPT !.offset = [set |-> TRUE, value |-> value]]
<1>1. /\ t \in SchedulerState /\ t.item = s.item /\ t.queue = s.queue
      /\ t.wake = s.wake /\ t.powerd = s.powerd
  BY DEF SchedulerState
<1>2. SetLocalOffset(s, value) = IF s.offset = [set |-> TRUE, value |-> value] THEN s
                                 ELSE DequeueAndUpdateTimeout(t)
  BY DEF SetLocalOffset
<1> HIDE DEF t
<1>3. Queued(t, Activities) /\ InOrder(t) /\ Heard(t)
  BY <1>1, LinkedIs DEF InPlace, Linked, InOrder, Heard, WakeIsHeard
<1>4. LET u == DequeueAndUpdateTimeout(t)
      IN  u \in SchedulerState /\ Queued(u, Activities) /\ InOrder(u) /\ WakeIsSet(u) /\ Heard(u)
  BY <1>1, <1>3, DequeueKeeps
<1> QED
  BY <1>2, <1>4, LinkedIs DEF InPlace

-----------------------------------------------------------------------------
(* Steps.                                                                  *)

\* The invariant.
Sound == TypeOK /\ InPlace(Now)

LEMMA TypeIs ==
  ASSUME TypeOK
  PROVE  Timed /\ Now \in SchedulerState
BY DEF TypeOK, Timed

LEMMA Lands ==
  ASSUME NEW s \in SchedulerState, Become(s)
  PROVE  Now' = s
BY DEF Become, Now, SchedulerState

\* What is in place does not depend on the time.
LEMMA SoundStep ==
  ASSUME TypeOK, NEW s \in SchedulerState, Now' = s, InPlace(s), plan' = plan,
         clock' \in [now : Int, zone : Int]
  PROVE  Sound'
<1>1. Linked(Now)'
  BY DEF InPlace, Linked, QueueOf
<1>2. InOrder(Now)'
  BY DEF InPlace
<1>3. WakeIsSet(Now)'
  BY DEF InPlace
<1>4. Heard(Now)'
  BY DEF InPlace
<1>5. TypeOK'
  BY DEF TypeOK
<1> QED
  BY <1>1, <1>2, <1>3, <1>4, <1>5 DEF Sound, InPlace

\* The items change, but not when those in the queues start.
LEMMA ItemStep ==
  ASSUME NEW s \in SchedulerState, NEW t \in SchedulerState,
         NEW A \in SUBSET Activities, NEW B \in SUBSET Activities,
         Queued(s, A), InOrder(s), WakeIsSet(s), Heard(s),
         t.queue = s.queue, t.offset = s.offset, t.wake = s.wake, t.powerd = s.powerd,
         \A a \in A : s.item[a].phase = "queued" => t.item[a].next = s.item[a].next,
         \A a \in Activities :
           (a \in B /\ t.item[a].phase = "queued") <=> (a \in A /\ s.item[a].phase = "queued")
  PROVE  Queued(t, B) /\ InOrder(t) /\ WakeIsSet(t) /\ Heard(t)
<1>1. /\ InOrder(t) /\ Usable(t) = Usable(s)
      /\ \A q \in Usable(s) : HeadTime(t, q) = HeadTime(s, q)
  BY SameQueues
<1>2. \A q \in Usable(t) : q \in Usable(s) /\ HeadTime(s, q) <= HeadTime(t, q)
  BY <1>1, HeadTimeType
<1>3. WakeIsSet(t)
  BY <1>2, WakeStays
<1>4. Queued(t, B)
  <2>1. ASSUME NEW q \in QueueName
        PROVE  {a \in B : t.item[a].phase = "queued" /\ QueueOf(a) = q}
                 = {a \in A : s.item[a].phase = "queued" /\ QueueOf(a) = q}
    OBVIOUS
  <2> QED
    BY <2>1 DEF Queued
<1>5. Heard(t)
  BY DEF Heard, WakeIsHeard
<1> QED
  BY <1>1, <1>3, <1>4, <1>5

\* Only the daemon changes.
LEMMA PowerStep ==
  ASSUME NEW s \in SchedulerState, NEW t \in SchedulerState, InPlace(s),
         t.item = s.item, t.queue = s.queue, t.offset = s.offset, t.wake = s.wake, Heard(t)
  PROVE  InPlace(t)
<1>1. Linked(t) /\ InOrder(t)
  BY DEF InPlace, Linked, InOrder
<1>2. Usable(t) = Usable(s) /\ \A q : HeadTime(t, q) = HeadTime(s, q)
  BY DEF Usable, HeadTime
<1>3. WakeIsSet(t)
  BY <1>2, WakeIsSetIs DEF InPlace
<1> QED
  BY <1>1, <1>3 DEF InPlace

LEMMA InitSound == Init => Sound
<1> SUFFICES ASSUME Init PROVE Sound
  OBVIOUS
<1>1. clock \in [now : Int, zone : Int]
  BY SchedulerAssumption DEF Init
<1>2. plan \in [Activities -> Schedule]
  <2>1. plan \in [Activities -> {CreateSchedule(spec) : spec \in UNION Range(Specs)} \ {Error}]
    BY DEF Init
  <2>2. ASSUME NEW a \in Activities PROVE plan[a] \in Schedule
    <3>1. PICK spec \in Specs[a] : plan[a] = CreateSchedule(spec)
      BY DEF Init
    <3>2. spec \in Specification
      BY <3>1, SchedulerAssumption
    <3>3. plan[a] # Error
      BY <2>1
    <3> QED
      BY <3>1, <3>2, <3>3, ScheduleType
  <2> QED
    BY <2>1, <2>2
<1>3. item \in [Activities -> ItemState] /\ \A a \in Activities : item[a].phase = "idle"
  BY <1>2 DEF Init, ItemState, Schedule, Never
<1>4. /\ queue \in [QueueName -> Seq(Activities)] /\ \A q \in QueueName : queue[q] = << >>
      /\ offset \in [set : BOOLEAN, value : Int]
      /\ wake \in [scheduled : BOOLEAN, at : Int] /\ ~wake.scheduled
  BY EmptySeq DEF Init
<1>5. powerd \in PowerDaemon /\ powerd.reply = "none"
  BY EmptySeq DEF Init, PowerDaemon, Never
<1>6. TypeOK
  BY <1>1, <1>2, <1>3, <1>4, <1>5 DEF TypeOK, Now, SchedulerState
<1>7. Linked(Now)
  <2>1. ASSUME NEW q \in QueueName
        PROVE  IsInjective(queue[q]) /\ ToSet(queue[q]) = {}
    BY <1>4 DEF IsInjective, ToSet
  <2> QED
    BY <1>3, <2>1 DEF Linked, Now
<1>8. InOrder(Now)
  BY <1>4 DEF InOrder, Now
<1>9. WakeIsSet(Now)
  <2>1. Usable(Now) = {}
    BY <1>4 DEF Usable, Now
  <2> QED
    BY <2>1 DEF WakeIsSet
<1>10. Heard(Now)
  BY <1>4, <1>5 DEF Heard, WakeIsHeard, Now
<1> QED
  BY <1>6, <1>7, <1>8, <1>9, <1>10 DEF Sound, InPlace

-----------------------------------------------------------------------------
(* Each action keeps the invariant.                                        *)

LEMMA QueueItemStep ==
  ASSUME Sound, NEW a \in Activities, QueueItem(a)
  PROVE  Sound'
<1> DEFINE items == Recalc(Now, {a})
           t == [[Now EXCEPT !.item = items] EXCEPT !.item[a].scheduled = FALSE,
                                                    !.item[a].phase = "queued"]
<1>1. Timed /\ Now \in SchedulerState /\ InPlace(Now) /\ Now.item[a].phase = "idle"
  BY TypeIs DEF Sound, QueueItem, Now
<1>2. /\ items \in [Activities -> ItemState]
      /\ \A b \in Activities : b # a => items[b] = Now.item[b]
  BY <1>1, RecalcType
<1>3. Become(AddItem(t, a)) /\ plan' = plan /\ clock' = clock
  BY DEF QueueItem
<1> HIDE DEF items
<1> DEFINE new == [items EXCEPT ![a] = [items[a] EXCEPT !.scheduled = FALSE, !.phase = "queued"]]
<1>4. t = [Now EXCEPT !.item = new]
  BY <1>1, <1>2 DEF SchedulerState, ItemState
<1>5. new \in [Activities -> ItemState] /\ new[a].phase = "queued"
      /\ \A b \in Activities : b # a => new[b] = Now.item[b]
  BY <1>2 DEF ItemState
<1> HIDE DEF t, new
<1>6. /\ t \in SchedulerState /\ t.item = new /\ t.queue = Now.queue /\ t.offset = Now.offset
      /\ t.wake = Now.wake /\ t.powerd = Now.powerd
  BY <1>1, <1>4, <1>5 DEF SchedulerState
<1>7. Queued(t, Activities \ {a}) /\ InOrder(t) /\ WakeIsSet(t) /\ Heard(t)
  <2> DEFINE A == Activities
             B == Activities \ {a}
  <2>1. /\ \A b \in A : Now.item[b].phase = "queued" => t.item[b].next = Now.item[b].next
        /\ \A b \in Activities :
             (b \in B /\ t.item[b].phase = "queued") <=> (b \in A /\ Now.item[b].phase = "queued")
    BY <1>1, <1>5, <1>6
  <2>2. A \in SUBSET Activities /\ B \in SUBSET Activities /\ Queued(Now, A)
    BY <1>1, LinkedIs DEF InPlace
  <2>3. InOrder(Now) /\ WakeIsSet(Now) /\ Heard(Now)
    BY <1>1 DEF InPlace
  <2> HIDE DEF A, B
  <2>4. Queued(t, B) /\ InOrder(t) /\ WakeIsSet(t) /\ Heard(t)
    BY <1>1, <1>6, <2>1, <2>2, <2>3, ItemStep
  <2> QED
    BY <2>4 DEF B
<1>8. AddItem(t, a) \in SchedulerState /\ InPlace(AddItem(t, a))
  BY <1>1, <1>5, <1>6, <1>7, AddItemKeeps
<1> QED
  BY <1>1, <1>3, <1>8, Lands, SoundStep DEF Sound, TypeOK

\* The item that was taken off is gone.
LEMMA GoneKeeps ==
  ASSUME NEW s \in SchedulerState, NEW a \in Activities, Queued(s, Activities \ {a}),
         InOrder(s), WakeIsSet(s), Heard(s),
         NEW t \in SchedulerState, t.queue = s.queue, t.offset = s.offset, t.wake = s.wake,
         t.powerd = s.powerd, t.item[a].phase = "gone",
         \A b \in Activities : b # a => t.item[b] = s.item[b]
  PROVE  InPlace(t)
<1> DEFINE A == Activities \ {a}
           B == Activities
<1>1. /\ \A b \in A : s.item[b].phase = "queued" => t.item[b].next = s.item[b].next
      /\ \A b \in Activities :
           (b \in B /\ t.item[b].phase = "queued") <=> (b \in A /\ s.item[b].phase = "queued")
  OBVIOUS
<1>2. A \in SUBSET Activities /\ B \in SUBSET Activities /\ Queued(s, A)
  OBVIOUS
<1> HIDE DEF A
<1>3. Queued(t, B) /\ InOrder(t) /\ WakeIsSet(t) /\ Heard(t)
  BY <1>1, <1>2, ItemStep
<1> QED
  BY <1>3, LinkedIs DEF InPlace

LEMMA UnQueueItemStep ==
  ASSUME Sound, NEW a \in Activities, UnQueueItem(a)
  PROVE  Sound'
<1> DEFINE s == RemoveItem(Now, a)
           t == [s EXCEPT !.item[a].scheduled = FALSE, !.item[a].phase = "gone"]
<1>1. Timed /\ Now \in SchedulerState /\ InPlace(Now) /\ Now.item[a].phase = "queued"
  BY TypeIs DEF Sound, UnQueueItem, Now
<1>2. /\ s \in SchedulerState /\ Queued(s, Activities \ {a}) /\ InOrder(s) /\ WakeIsSet(s)
      /\ Heard(s)
  BY <1>1, RemoveItemKeeps
<1>3. Become(t) /\ plan' = plan /\ clock' = clock
  BY DEF UnQueueItem
<1> HIDE DEF s
<1> DEFINE new == [s.item EXCEPT ![a] = [s.item[a] EXCEPT !.scheduled = FALSE, !.phase = "gone"]]
<1>4. t = [s EXCEPT !.item = new]
  BY <1>2 DEF SchedulerState, ItemState
<1>5. new \in [Activities -> ItemState] /\ new[a].phase = "gone"
      /\ \A b \in Activities : b # a => new[b] = s.item[b]
  <2>1. s.item \in [Activities -> ItemState]
    BY <1>2 DEF SchedulerState
  <2> QED
    BY <2>1 DEF ItemState
<1> HIDE DEF t, new
<1>6. /\ t \in SchedulerState /\ t.item = new /\ t.queue = s.queue /\ t.offset = s.offset
      /\ t.wake = s.wake /\ t.powerd = s.powerd
  BY <1>2, <1>4, <1>5 DEF SchedulerState
<1>7. InPlace(t)
  BY <1>2, <1>5, <1>6, GoneKeeps
<1> QED
  BY <1>1, <1>3, <1>6, <1>7, Lands, SoundStep DEF Sound, TypeOK

LEMMA ClearScheduleStep ==
  ASSUME Sound, NEW a \in Activities, ClearSchedule(a)
  PROVE  Sound'
<1> DEFINE s == Unlink(Now, a)
           t == [s EXCEPT !.item[a].phase = "gone"]
<1>1. Timed /\ Now \in SchedulerState /\ InPlace(Now) /\ Now.item[a].phase = "queued"
  BY TypeIs DEF Sound, ClearSchedule, Now
<1>2. /\ s \in SchedulerState /\ Queued(s, Activities \ {a}) /\ InOrder(s) /\ WakeIsSet(s)
      /\ Heard(s)
  BY <1>1, UnlinkWakes
<1>3. Become(t) /\ plan' = plan /\ clock' = clock
  BY DEF ClearSchedule
<1> HIDE DEF s
<1> DEFINE new == [s.item EXCEPT ![a] = [s.item[a] EXCEPT !.phase = "gone"]]
<1>4. t = [s EXCEPT !.item = new]
  BY <1>2 DEF SchedulerState, ItemState
<1>5. new \in [Activities -> ItemState] /\ new[a].phase = "gone"
      /\ \A b \in Activities : b # a => new[b] = s.item[b]
  <2>1. s.item \in [Activities -> ItemState]
    BY <1>2 DEF SchedulerState
  <2> QED
    BY <2>1 DEF ItemState
<1> HIDE DEF t, new
<1>6. /\ t \in SchedulerState /\ t.item = new /\ t.queue = s.queue /\ t.offset = s.offset
      /\ t.wake = s.wake /\ t.powerd = s.powerd
  BY <1>2, <1>4, <1>5 DEF SchedulerState
<1>7. InPlace(t)
  BY <1>2, <1>5, <1>6, GoneKeeps
<1> QED
  BY <1>1, <1>3, <1>6, <1>7, Lands, SoundStep DEF Sound, TypeOK

LEMMA FinishItemStep ==
  ASSUME Sound, NEW a \in Activities, FinishItem(a)
  PROVE  Sound'
<1> DEFINE last == item[a].lastFinished
           again == ShouldReschedule(plan[a], item[a].next)
           finished == InformActivityFinished(plan[a], last, GetTime(Now, a))
           done == [item[a] EXCEPT !.phase = IF again THEN "idle" ELSE "gone",
                                   !.stored = last, !.lastFinished = finished]
           t == [Now EXCEPT !.item = item']
<1>1. /\ Timed /\ Now \in SchedulerState /\ InPlace(Now) /\ Now.item[a].phase = "started"
      /\ item[a] \in ItemState /\ item \in [Activities -> ItemState]
  BY TypeIs DEF Sound, FinishItem, Now, SchedulerState
<1>2. /\ item' = [item EXCEPT ![a] = done]
      /\ plan' = plan /\ clock' = clock
      /\ queue' = queue /\ offset' = offset /\ wake' = wake /\ powerd' = powerd
  BY <1>1 DEF FinishItem, ItemState
<1>3. last \in Int /\ finished \in Int
  BY <1>1, TimeType DEF InformActivityFinished, ItemState
<1> HIDE DEF last, again, finished
<1>4. done \in ItemState /\ done.phase # "queued"
  BY <1>1, <1>3 DEF ItemState
<1> HIDE DEF done
<1>5. /\ item' \in [Activities -> ItemState] /\ item'[a].phase # "queued"
      /\ \A b \in Activities : b # a => item'[b] = item[b]
  BY <1>1, <1>2, <1>4
<1>6. /\ t \in SchedulerState /\ t.item = item' /\ t.queue = Now.queue /\ t.offset = Now.offset
      /\ t.wake = Now.wake /\ t.powerd = Now.powerd
  BY <1>1, <1>5 DEF SchedulerState, Now
<1>7. Now' = t
  BY <1>2 DEF Now
<1> HIDE DEF t
<1>8. InPlace(t)
  <2> DEFINE A == Activities
  <2>1. /\ \A b \in A : Now.item[b].phase = "queued" => t.item[b].next = Now.item[b].next
        /\ \A b \in Activities :
             (b \in A /\ t.item[b].phase = "queued") <=> (b \in A /\ Now.item[b].phase = "queued")
    BY <1>1, <1>5, <1>6 DEF Now
  <2>2. Queued(Now, A) /\ InOrder(Now) /\ WakeIsSet(Now) /\ Heard(Now)
    BY <1>1, LinkedIs DEF InPlace
  <2>3. A \in SUBSET Activities /\ Now \in SchedulerState
    BY <1>1
  <2> HIDE DEF A
  <2>4. Queued(t, A) /\ InOrder(t) /\ WakeIsSet(t) /\ Heard(t)
    BY <1>6, <2>1, <2>2, <2>3, ItemStep
  <2> QED
    BY <2>4, LinkedIs DEF InPlace, A
<1> QED
  BY <1>1, <1>2, <1>6, <1>7, <1>8, SoundStep DEF Sound, TypeOK

LEMMA HandleSystemTimeResponseStep ==
  ASSUME Sound, HandleSystemTimeResponse
  PROVE  Sound'
<1> DEFINE s == SetLocalOffset(Now, clock.zone)
           t == TimeChanged(s)
<1>1. Timed /\ Now \in SchedulerState /\ InPlace(Now) /\ clock.zone \in Int
  BY TypeIs DEF Sound, Timed
<1>2. s \in SchedulerState /\ InPlace(s)
  BY <1>1, SetLocalOffsetKeeps
<1>3. Become(t) /\ plan' = plan /\ clock' = clock
  BY DEF HandleSystemTimeResponse, Then
<1> HIDE DEF s
<1>4. t \in SchedulerState /\ InPlace(t)
  BY <1>1, <1>2, TimeChangedKeeps DEF InPlace
<1> QED
  BY <1>1, <1>3, <1>4, Lands, SoundStep DEF Sound, TypeOK

LEMMA WakeStep ==
  ASSUME Sound, Wake
  PROVE  Sound'
<1> DEFINE s == [Now EXCEPT !.powerd.waking = FALSE, !.wake.scheduled = FALSE]
           t == DequeueAndUpdateTimeout(s)
<1>1. Timed /\ Now \in SchedulerState /\ InPlace(Now)
  BY TypeIs DEF Sound
<1>2. Become(t) /\ plan' = plan /\ clock' = clock
  BY DEF Wake
<1> DEFINE p == [Now.powerd EXCEPT !.waking = FALSE]
           w == [Now.wake EXCEPT !.scheduled = FALSE]
<1>3. s = [Now EXCEPT !.powerd = p, !.wake = w]
  BY <1>1 DEF SchedulerState, PowerDaemon
<1>4. /\ p \in PowerDaemon /\ p.call = Now.powerd.call /\ p.reply = Now.powerd.reply
      /\ p.requests = Now.powerd.requests
      /\ w \in [scheduled : BOOLEAN, at : Int] /\ w.scheduled = FALSE
  BY <1>1 DEF SchedulerState, PowerDaemon
<1> HIDE DEF s, p, w
<1>5. /\ s \in SchedulerState /\ s.item = Now.item /\ s.queue = Now.queue
      /\ s.powerd = p /\ s.wake = w
  BY <1>1, <1>3, <1>4 DEF SchedulerState
<1>6. Queued(s, Activities) /\ InOrder(s) /\ Heard(s)
  BY <1>1, <1>4, <1>5, LinkedIs DEF InPlace, Linked, InOrder, Heard, WakeIsHeard
<1> DEFINE A == Activities
<1>7. A \in SUBSET Activities /\ Queued(s, A)
  BY <1>6
<1> HIDE DEF A
<1>8. t \in SchedulerState /\ Queued(t, A) /\ InOrder(t) /\ WakeIsSet(t) /\ Heard(t)
  BY <1>1, <1>5, <1>6, <1>7, DequeueKeeps
<1>9. InPlace(t)
  BY <1>8, LinkedIs DEF InPlace, A
<1> QED
  BY <1>1, <1>2, <1>8, <1>9, Lands, SoundStep DEF Sound, TypeOK

LEMMA ClockStep ==
  ASSUME Sound, plan' = plan, clock' \in [now : Int, zone : Int],
         item' = item, queue' = queue, offset' = offset, wake' = wake, powerd' = powerd
  PROVE  Sound'
<1>1. Now' = Now
  BY DEF Now
<1> QED
  BY <1>1, TypeIs, SoundStep DEF Sound

LEMMA TickStep == ASSUME Sound, Tick PROVE Sound'
<1>1. clock \in [now : Int, zone : Int]
  BY DEF Sound, TypeOK
<1>2. clock' \in [now : Int, zone : Int]
  BY <1>1, SchedulerAssumption DEF Tick
<1> QED
  BY <1>2, ClockStep DEF Tick

LEMMA SetTimeStep ==
  ASSUME Sound, NEW now \in {Start, MaxClock}, SetTime(now)
  PROVE  Sound'
<1>1. clock \in [now : Int, zone : Int]
  BY DEF Sound, TypeOK
<1>2. clock' \in [now : Int, zone : Int]
  BY <1>1, SchedulerAssumption DEF SetTime
<1> QED
  BY <1>2, ClockStep DEF SetTime

LEMMA SetZoneStep ==
  ASSUME Sound, NEW zone \in Zones, SetZone(zone)
  PROVE  Sound'
<1>1. clock \in [now : Int, zone : Int]
  BY DEF Sound, TypeOK
<1>2. clock' \in [now : Int, zone : Int]
  BY <1>1, SchedulerAssumption DEF SetZone
<1> QED
  BY <1>2, ClockStep DEF SetZone

\* What is left when the first request is read.
LEMMA TailIs ==
  ASSUME NEW requests \in Seq(Request), requests # << >>
  PROVE  /\ Head(requests) \in Request /\ Tail(requests) \in Seq(Request)
         /\ Len(requests) = 1 => Tail(requests) = << >> /\ Last(requests) = Head(requests)
         /\ Len(requests) # 1 => Tail(requests) # << >> /\ Last(Tail(requests)) = Last(requests)
<1>1. /\ Head(requests) \in Request /\ Tail(requests) \in Seq(Request)
      /\ Len(Tail(requests)) = Len(requests) - 1
      /\ \A i \in 1..Len(Tail(requests)) : Tail(requests)[i] = requests[i + 1]
  BY HeadTailProperties
<1>2. Len(requests) \in Nat /\ Len(requests) # 0 /\ Head(requests) = requests[1]
  BY LenProperties, EmptySeq
<1>3. Len(requests) = 1 => Tail(requests) = << >> /\ Last(requests) = Head(requests)
  <2>1. Len(requests) = 1 => Len(Tail(requests)) = 0
    BY <1>1
  <2>2. Len(Tail(requests)) = 0 => Tail(requests) = << >>
    BY <1>1, EmptySeq
  <2> QED
    BY <1>2, <2>1, <2>2 DEF Last
<1>4. Len(requests) # 1 => Tail(requests) # << >> /\ Last(Tail(requests)) = Last(requests)
  BY <1>1, <1>2, EmptySeq DEF Last
<1> QED
  BY <1>1, <1>3, <1>4

LEMMA PowerdReadsStep ==
  ASSUME Sound, NEW outcome \in {"ok", "error", "refuse"}, PowerdReads(outcome)
  PROVE  Sound'
<1> DEFINE requests == Now.powerd.requests
           set == [kind |-> "set", at |-> wake.at]
           r == Head(requests)
           p == [powerd EXCEPT
                   !.requests = Tail(requests),
                   !.alarm = IF outcome # "ok" THEN @ ELSE IF r.kind = "set" THEN r.at ELSE Never,
                   !.refused = IF outcome = "ok" THEN FALSE ELSE @ \/ outcome = "refuse",
                   !.reply = IF Len(requests) = 1 /\ powerd.call # NoCall THEN outcome ELSE @]
           t == [Now EXCEPT !.powerd = p]
<1>1. /\ Timed /\ Now \in SchedulerState /\ InPlace(Now)
      /\ powerd \in PowerDaemon /\ Now.powerd = powerd /\ Now.wake = wake
  BY TypeIs DEF Sound, Now, SchedulerState
<1>2. /\ powerd' = p /\ requests # << >>
      /\ plan' = plan /\ clock' = clock
      /\ queue' = queue /\ offset' = offset /\ wake' = wake /\ item' = item
  BY <1>1 DEF PowerdReads, PowerDaemon
<1>3. /\ r \in Request /\ Tail(requests) \in Seq(Request)
      /\ Len(requests) = 1 => Tail(requests) = << >> /\ Last(requests) = r
      /\ Len(requests) # 1 => Tail(requests) # << >> /\ Last(Tail(requests)) = Last(requests)
  BY <1>1, <1>2, TailIs DEF PowerDaemon
<1>4. /\ wake.scheduled => Last(requests) = set /\ powerd.call = set
      /\ powerd.reply = "none"
  BY <1>1, <1>2 DEF InPlace, Heard
<1> DEFINE rest == Tail(requests)
           one == Len(requests) = 1
<1>5. /\ p.call = powerd.call /\ p.requests = rest /\ p.waking = powerd.waking
      /\ p.reply = (IF one /\ powerd.call # NoCall THEN outcome ELSE powerd.reply)
      /\ outcome = "refuse" => p.refused
      /\ outcome = "ok" /\ r.kind = "set" => p.alarm = r.at
  BY <1>1 DEF PowerDaemon
<1>6. p \in PowerDaemon
  <2>1. r.at \in Int /\ Never \in Int /\ outcome \in {"none", "ok", "error", "refuse"}
    BY <1>3 DEF Request, Never
  <2> QED
    BY <1>1, <1>3, <2>1 DEF PowerDaemon
<1> HIDE DEF p, r, rest, one
<1>7. /\ t \in SchedulerState /\ t.item = Now.item /\ t.queue = Now.queue
      /\ t.offset = Now.offset /\ t.wake = wake /\ t.powerd = p
  BY <1>1, <1>6 DEF SchedulerState
<1>8. Now' = t
  BY <1>2 DEF Now
<1> HIDE DEF t, requests
<1>9. one => rest = << >> /\ Last(requests) = r
  BY <1>3 DEF one, rest
<1>10. ~one => rest # << >> /\ Last(rest) = Last(requests)
  BY <1>3 DEF one, rest
<1>11. WakeIsHeard(t)
  <2> SUFFICES ASSUME wake.scheduled
               PROVE  \/ p.alarm = wake.at /\ p.requests = << >>
                      \/ p.requests # << >> /\ Last(p.requests) = set
                      \/ p.reply = "error" /\ p.call = set
                      \/ p.waking \/ p.refused
    BY <1>7 DEF WakeIsHeard
  <2>1. CASE ~one
    BY <1>4, <1>5, <1>10, <2>1
  <2>2. CASE one
    <3>1. r = set /\ powerd.call = set /\ powerd.call # NoCall
      BY <1>4, <1>9, <2>2 DEF NoCall
    <3>2. CASE outcome = "ok"
      BY <1>5, <1>9, <2>2, <3>1, <3>2
    <3>3. CASE outcome = "error"
      BY <1>5, <2>2, <3>1, <3>3
    <3>4. CASE outcome = "refuse"
      BY <1>5, <3>4
    <3> QED
      BY <3>2, <3>3, <3>4
  <2> QED
    BY <2>1, <2>2
<1>12. Heard(t)
  BY <1>4, <1>5, <1>7, <1>9, <1>10, <1>11 DEF Heard
<1>13. InPlace(t)
  BY <1>1, <1>7, <1>12, PowerStep
<1> QED
  BY <1>1, <1>2, <1>7, <1>8, <1>13, SoundStep DEF Sound, TypeOK

LEMMA HandleTimeoutResponseStep ==
  ASSUME Sound, HandleTimeoutResponse
  PROVE  Sound'
<1>1. /\ Timed /\ Now \in SchedulerState /\ InPlace(Now)
      /\ powerd \in PowerDaemon /\ Now.powerd = powerd /\ Now.wake = wake
  BY TypeIs DEF Sound, Now, SchedulerState
<1>2. powerd.requests = << >> /\ powerd.call # NoCall /\ powerd.reply # "none"
  BY <1>1 DEF InPlace, Heard, HandleTimeoutResponse
<1>3. /\ plan' = plan /\ clock' = clock
      /\ queue' = queue /\ offset' = offset /\ wake' = wake /\ item' = item
  BY DEF HandleTimeoutResponse
<1>4. CASE powerd.reply = "error"
  <2> DEFINE t == Send(Now, powerd.call)
  <2>1. powerd.call \in Request
    BY <1>1, <1>2 DEF PowerDaemon
  <2>2. /\ t \in SchedulerState /\ t.item = Now.item /\ t.queue = Now.queue
        /\ t.offset = Now.offset /\ t.wake = wake /\ t.powerd.call = powerd.call
        /\ t.powerd.reply = "none" /\ t.powerd.requests # << >>
        /\ Last(t.powerd.requests) = powerd.call
    BY <1>1, <2>1, SendIs
  <2>3. powerd' = t.powerd
    BY <1>4 DEF HandleTimeoutResponse
  <2> HIDE DEF t
  <2>4. Now' = t
    BY <1>3, <2>2, <2>3 DEF Now, SchedulerState
  <2>5. Heard(t)
    BY <1>1, <1>2, <2>2 DEF InPlace, Heard, WakeIsHeard
  <2>6. InPlace(t)
    BY <1>1, <2>2, <2>5, PowerStep
  <2> QED
    BY <1>1, <1>3, <2>2, <2>4, <2>6, SoundStep DEF Sound, TypeOK
<1>5. CASE powerd.reply # "error"
  <2> DEFINE p == [powerd EXCEPT !.call = NoCall, !.reply = "none"]
             t == [Now EXCEPT !.powerd = p]
  <2>1. powerd' = p
    BY <1>5 DEF HandleTimeoutResponse
  <2>2. /\ p \in PowerDaemon /\ p.call = NoCall /\ p.reply = "none"
        /\ p.requests = powerd.requests /\ p.alarm = powerd.alarm
        /\ p.waking = powerd.waking /\ p.refused = powerd.refused
    BY <1>1 DEF PowerDaemon
  <2> HIDE DEF p
  <2>3. /\ t \in SchedulerState /\ t.item = Now.item /\ t.queue = Now.queue
        /\ t.offset = Now.offset /\ t.wake = wake /\ t.powerd = p
    BY <1>1, <2>2 DEF SchedulerState
  <2>4. Now' = t
    BY <1>3, <2>1 DEF Now
  <2> HIDE DEF t
  <2>5. Heard(t)
    BY <1>1, <1>2, <1>5, <2>2, <2>3 DEF InPlace, Heard, WakeIsHeard
  <2>6. InPlace(t)
    BY <1>1, <2>3, <2>5, PowerStep
  <2> QED
    BY <1>1, <1>3, <2>3, <2>4, <2>6, SoundStep DEF Sound, TypeOK
<1> QED
  BY <1>4, <1>5

LEMMA AlarmGoesOffStep ==
  ASSUME Sound, AlarmGoesOff
  PROVE  Sound'
<1> DEFINE p == [powerd EXCEPT !.alarm = Never, !.waking = TRUE]
           t == [Now EXCEPT !.powerd = p]
<1>1. /\ Timed /\ Now \in SchedulerState /\ InPlace(Now)
      /\ powerd \in PowerDaemon /\ Now.powerd = powerd
  BY TypeIs DEF Sound, Now, SchedulerState
<1>2. /\ powerd' = p /\ plan' = plan /\ clock' = clock
      /\ queue' = queue /\ offset' = offset /\ wake' = wake /\ item' = item
  BY DEF AlarmGoesOff
<1>3. /\ p \in PowerDaemon /\ p.call = powerd.call /\ p.reply = powerd.reply
      /\ p.requests = powerd.requests /\ p.waking
  <2>1. Never \in Int
    BY DEF Never
  <2> QED
    BY <1>1, <2>1 DEF PowerDaemon
<1> HIDE DEF p
<1>4. /\ t \in SchedulerState /\ t.item = Now.item /\ t.queue = Now.queue
      /\ t.offset = Now.offset /\ t.wake = Now.wake /\ t.powerd = p
  BY <1>1, <1>3 DEF SchedulerState
<1>5. Now' = t
  BY <1>2 DEF Now
<1> HIDE DEF t
<1>6. Heard(t)
  BY <1>1, <1>3, <1>4 DEF InPlace, Heard, WakeIsHeard
<1>7. InPlace(t)
  BY <1>1, <1>4, <1>6, PowerStep
<1> QED
  BY <1>1, <1>2, <1>4, <1>5, <1>7, SoundStep DEF Sound, TypeOK

LEMMA RestartStep ==
  ASSUME Sound, Restart
  PROVE  Sound'
<1>1. /\ item \in [Activities -> ItemState] /\ plan \in [Activities -> Schedule]
      /\ clock \in [now : Int, zone : Int] /\ powerd \in PowerDaemon
  BY DEF Sound, TypeOK, Now, SchedulerState
<1>2. clock' = clock /\ plan' = plan
  BY DEF Restart
<1>3. item' \in [Activities -> ItemState] /\ \A a \in Activities : item'[a].phase # "queued"
  <2> DEFINE loaded(a) == SetLastFinishedTime(plan[a], item[a].stored, clock.now)
             again(a) == [item[a] EXCEPT !.phase = "idle", !.scheduled = FALSE,
                                         !.lastFinished = loaded(a)]
  <2>1. \A a \in Activities : loaded(a) \in Int
    BY <1>1 DEF SetLastFinishedTime, Never, ItemState
  <2> HIDE DEF loaded
  <2>2. \A a \in Activities : again(a) \in ItemState /\ again(a).phase = "idle"
    BY <1>1, <2>1 DEF ItemState
  <2> HIDE DEF again
  <2>3. item' = [a \in Activities |-> IF item[a].phase = "gone" THEN item[a] ELSE again(a)]
    BY DEF Restart, again, loaded
  <2> QED
    BY <1>1, <2>2, <2>3
<1>4. /\ queue' \in [QueueName -> Seq(Activities)] /\ \A q \in QueueName : queue'[q] = << >>
      /\ offset' \in [set : BOOLEAN, value : Int]
      /\ wake' \in [scheduled : BOOLEAN, at : Int] /\ ~wake'.scheduled
  <2>1. /\ queue' = [q \in QueueName |-> << >>] /\ offset' = [set |-> FALSE, value |-> 0]
        /\ wake' = [scheduled |-> FALSE, at |-> 0]
    BY DEF Restart
  <2> QED
    BY <2>1, EmptySeq
<1>5. powerd' \in PowerDaemon /\ powerd'.reply = "none"
  BY <1>1 DEF Restart, PowerDaemon
<1>6. TypeOK'
  BY <1>1, <1>2, <1>3, <1>4, <1>5 DEF TypeOK, Now, SchedulerState
<1>7. Linked(Now)'
  <2>1. ASSUME NEW q \in QueueName
        PROVE  IsInjective(queue'[q]) /\ ToSet(queue'[q]) = {}
    BY <1>4 DEF IsInjective, ToSet
  <2> QED
    BY <1>3, <2>1 DEF Linked, Now
<1>8. InOrder(Now)'
  BY <1>4 DEF InOrder, Now
<1>9. WakeIsSet(Now)'
  <2>1. Usable(Now)' = {}
    BY <1>4 DEF Usable, Now
  <2> QED
    BY <2>1 DEF WakeIsSet
<1>10. Heard(Now)'
  BY <1>4, <1>5 DEF Heard, WakeIsHeard, Now
<1> QED
  BY <1>6, <1>7, <1>8, <1>9, <1>10 DEF Sound, InPlace

LEMMA NextSound ==
  ASSUME Sound, [Next]_vars
  PROVE  Sound'
<1>1. ASSUME NEW a \in Activities, QueueItem(a) PROVE Sound'
  BY <1>1, QueueItemStep
<1>2. ASSUME NEW a \in Activities, UnQueueItem(a) PROVE Sound'
  BY <1>2, UnQueueItemStep
<1>3. ASSUME NEW a \in Activities, ClearSchedule(a) PROVE Sound'
  BY <1>3, ClearScheduleStep
<1>4. ASSUME NEW a \in Activities, FinishItem(a) PROVE Sound'
  BY <1>4, FinishItemStep
<1>5. CASE Tick
  BY <1>5, TickStep
<1>6. ASSUME NEW now \in {Start, MaxClock}, SetTime(now) PROVE Sound'
  BY <1>6, SetTimeStep
<1>7. ASSUME NEW zone \in Zones, SetZone(zone) PROVE Sound'
  BY <1>7, SetZoneStep
<1>8. CASE HandleSystemTimeResponse
  BY <1>8, HandleSystemTimeResponseStep
<1>9. ASSUME NEW outcome \in {"ok", "error", "refuse"}, PowerdReads(outcome) PROVE Sound'
  BY <1>9, PowerdReadsStep
<1>10. CASE HandleTimeoutResponse
  BY <1>10, HandleTimeoutResponseStep
<1>11. CASE AlarmGoesOff
  BY <1>11, AlarmGoesOffStep
<1>12. CASE Wake
  BY <1>12, WakeStep
<1>13. CASE Restart
  BY <1>13, RestartStep
<1>14. CASE UNCHANGED vars
  <2>1. clock' \in [now : Int, zone : Int]
    BY <1>14 DEF Sound, TypeOK, vars
  <2> QED
    BY <1>14, <2>1, ClockStep DEF vars
<1> QED
  BY <1>1, <1>2, <1>3, <1>4, <1>5, <1>6, <1>7, <1>8, <1>9, <1>10, <1>11, <1>12, <1>13, <1>14 DEF Next

LEMMA SoundAlways == Spec => []Sound
<1>1. Sound /\ [Next]_vars => Sound'
  BY NextSound
<1> QED
  BY <1>1, InitSound, PTL DEF Spec

-----------------------------------------------------------------------------
(* Scheduling points.                                                      *)

\* The interval divides its multiples.
LEMMA Multiple ==
  ASSUME NEW interval \in Nat \ {0}, NEW k \in Int
  PROVE  k * interval \in Int /\ (k * interval) % interval = 0
<1> DEFINE x == k * interval
           q == x \div interval
           d == k - q
<1>1. x \in Int
  OBVIOUS
<1> HIDE DEF x
<1>2. q \in Int /\ x = interval * q + (x % interval) /\ x % interval \in 0..(interval - 1)
  BY <1>1
<1> HIDE DEF q
<1>3. d \in Int /\ interval * d = x % interval
  <2>1. interval * (k - q) = interval * k - interval * q
    BY <1>2
  <2>2. x = interval * k
    BY DEF x
  <2> QED
    BY <1>1, <1>2, <2>1, <2>2
<1> HIDE DEF d
<1>4. d >= 1 => interval * d >= interval
  BY <1>3
<1>5. d <= -1 => interval * d <= -interval
  BY <1>3
<1>6. d = 0 => interval * d = 0
  BY <1>3
<1>7. d = 0
  BY <1>2, <1>3, <1>4, <1>5
<1>8. x % interval = 0
  BY <1>3, <1>6, <1>7
<1> QED
  BY <1>1, <1>8 DEF x

\* The point after now, and the one before it.
LEMMA NextPointIs ==
  ASSUME NEW base \in Int, NEW interval \in Nat \ {0}, NEW now \in Int
  PROVE  LET next == NextPoint(base, interval, now)
         IN  /\ next \in Int /\ next >= base
             /\ (next - base) % interval = 0 /\ (next - interval - base) % interval = 0
             /\ now > base => now < next /\ next - interval <= now
<1> DEFINE next == NextPoint(base, interval, now)
<1>1. CASE now > base
  <2> DEFINE x == now - base
             q == x \div interval
  <2>1. x \in Nat /\ x > 0
    BY <1>1
  <2> HIDE DEF x
  <2>2. q \in Int /\ x = interval * q + (x % interval) /\ x % interval \in 0..(interval - 1)
    BY <2>1
  <2>3. next = base + (q + 1) * interval
    BY <1>1 DEF NextPoint, x
  <2> HIDE DEF q, next
  <2>4. (q + 1) * interval = interval * q + interval
    BY <2>2
  <2>5. interval * q \in Int /\ q * interval = interval * q
    BY <2>2
  <2>6. /\ next \in Int /\ next - base = (q + 1) * interval
        /\ next - interval - base = q * interval
    BY <2>3, <2>4, <2>5
  <2>7. ((q + 1) * interval) % interval = 0 /\ (q * interval) % interval = 0
    <3>1. q \in Int /\ q + 1 \in Int
      BY <2>2
    <3>2. \A k \in Int : (k * interval) % interval = 0
      BY Multiple
    <3> QED
      BY <3>1, <3>2
  <2>8. now < next /\ next - interval <= now
    <3>1. x = now - base
      BY DEF x
    <3> QED
      BY <2>2, <2>4, <2>5, <2>6, <3>1
  <2> QED
    BY <1>1, <2>6, <2>7, <2>8 DEF next
<1>2. CASE ~(now > base)
  <2>1. next = base
    BY <1>2 DEF NextPoint
  <2>2. next - base = 0 * interval /\ next - interval - base = (-1) * interval
    BY <2>1
  <2>3. (0 * interval) % interval = 0 /\ ((-1) * interval) % interval = 0
    BY Multiple
  <2> HIDE DEF next
  <2> QED
    BY <1>2, <2>1, <2>2, <2>3 DEF next
<1> QED
  BY <1>1, <1>2

\* Of times that are not negative, an unsigned is no more than they are.
LEMMA UnsignedIs ==
  ASSUME NEW x \in Nat
  PROVE  Unsigned(x) \in Nat /\ Unsigned(x) <= x
<1> DEFINE q == x \div Word
<1>1. Word \in Nat \ {0}
  BY WordAssumption
<1>2. q \in Int /\ x = Word * q + (x % Word) /\ x % Word \in 0..(Word - 1)
  BY <1>1
<1> HIDE DEF q
<1>3. q >= 0
  <2> SUFFICES ASSUME q <= -1 PROVE FALSE
    BY <1>2
  <2>1. Word * q <= -Word
    BY <1>1, <1>2
  <2> QED
    BY <1>1, <1>2, <2>1
<1>4. Word * q >= 0
  BY <1>1, <1>2, <1>3
<1>5. Word * q \in Int
  BY <1>1, <1>2
<1> QED
  BY <1>1, <1>2, <1>4, <1>5 DEF Unsigned

\* What is to start next starts no earlier than the first point; and one that has
\* begun before it last finished starts after another one, also to catch up. (One
\* without precise times that finished on day one has not, to its schedule.)
LEMMA StartsLater ==
  ASSUME NEW schedule \in Schedule, schedule.kind # "relative",
         NEW lastFinished \in Int, NEW now \in Int, NEW began \in Int,
         NEW base, base = GetBaseStartTime(schedule, Never),
         schedule.kind = "smart" => schedule.start = DayOne,
         \/ began = Never /\ lastFinished = Never
         \/ /\ schedule.kind # "once" /\ began > Never /\ began >= base /\ began < now
            /\ \/ began < lastFinished /\ lastFinished <= now
               \/ schedule.kind = "smart" /\ lastFinished = Never
  PROVE  LET next == CalcNextStartTime(schedule, lastFinished, now)
         IN  /\ next >= base
             /\ began # Never =>
                  \E t \in (began + 1)..next : (t - base) % schedule.interval = 0
<1> DEFINE next == CalcNextStartTime(schedule, lastFinished, now)
           interval == schedule.interval
           point == NextPoint(base, interval, now)
<1>1. /\ schedule.kind \in {"once", "precise", "smart"} /\ interval \in Nat \ {0}
      /\ schedule.start \in Int
  BY DEF Schedule
<1>2. base \in Int /\ base = IF schedule.kind = "smart" THEN SmartBase ELSE schedule.start
  BY <1>1, TimesAssumption DEF GetBaseStartTime
<1>3. GetBaseStartTime(schedule, lastFinished) = base
  BY <1>1, <1>2 DEF GetBaseStartTime
<1> DEFINE slipped == Slipped(schedule, lastFinished, point)
<1>4. next = IF schedule.kind = "once" THEN schedule.start ELSE IF slipped THEN now ELSE point
  BY <1>3 DEF CalcNextStartTime
<1> HIDE DEF interval
<1>5. /\ point \in Int /\ point >= base
      /\ (point - base) % interval = 0 /\ (point - interval - base) % interval = 0
      /\ now > base => now < point /\ point - interval <= now
  BY <1>1, <1>2, NextPointIs
<1> HIDE DEF point, next
<1>6. CASE schedule.kind = "once"
  BY <1>2, <1>4, <1>6 DEF next
<1>7. CASE schedule.kind # "once" /\ began = Never
  <2>1. lastFinished = Never
    BY <1>7 DEF Never
  <2>2. slipped => now >= base
    <3> SUFFICES ASSUME slipped PROVE now > base
      BY <1>2
    <3>5. schedule.kind # "smart"
      BY <2>1 DEF Slipped
    <3>1. Unsigned(point - base) > interval
      BY <1>2, <2>1, <3>5 DEF Slipped, interval
    <3>2. point - base \in Nat
      BY <1>2, <1>5
    <3>3. point - base > interval
      BY <1>1, <3>1, <3>2, UnsignedIs
    <3>4. point # base
      BY <1>1, <1>2, <3>3
    <3> QED
      BY <1>1, <1>2, <3>4 DEF point, NextPoint
  <2> QED
    BY <1>2, <1>4, <1>5, <1>7, <2>2 DEF next
<1>8. CASE schedule.kind # "once" /\ began # Never
  <2>1. /\ began >= base /\ began > Never /\ began < now /\ now > base
        /\ \/ began < lastFinished /\ lastFinished <= now /\ lastFinished # Never
           \/ schedule.kind = "smart" /\ lastFinished = Never
    BY <1>2, <1>8 DEF Never
  <2>2. CASE ~slipped
    <3>1. next = point /\ point \in (began + 1)..next
      BY <1>4, <1>5, <1>8, <2>1, <2>2
    <3> QED
      BY <1>5, <3>1 DEF next, interval
  <2>3. CASE slipped
    <3>6. began < lastFinished /\ lastFinished <= now /\ lastFinished # Never
      BY <2>1, <2>3 DEF Slipped
    <3>1. point > lastFinished /\ Unsigned(point - lastFinished) > interval
      BY <2>3, <3>6 DEF Slipped, interval
    <3>2. point - lastFinished \in Nat
      BY <1>5, <3>1
    <3>3. point - lastFinished > interval
      BY <1>1, <3>1, <3>2, UnsignedIs
    <3>4. next = now /\ point - interval \in (began + 1)..next
      BY <1>1, <1>4, <1>5, <1>8, <2>1, <2>3, <3>3, <3>6
    <3>5. next >= base
      BY <1>2, <2>1, <3>4
    <3> QED
      BY <1>5, <3>4, <3>5 DEF next, interval
  <2> QED
    BY <2>2, <2>3
<1> QED
  BY <1>6, <1>7, <1>8

-----------------------------------------------------------------------------
(* Catching up.                                                            *)

\* No time that the clock shows is mistaken for Schedule::NEVER: it does not start
\* before 1970, in any zone.
ClockSet == \A z \in Zones \cup {0} : Start + z > Never

First(a) == GetBaseStartTime(plan[a], Never)

Point(a, t) == (t - First(a)) % plan[a].interval = 0

PointIn(a, from, to) == \E t \in (from + 1)..to : Point(a, t)

\* The offset is that of the zone as soon as it is known.
Timely(s) ==
  /\ clock.now >= Start /\ clock.zone \in Zones
  /\ s.offset \in {[set |-> FALSE, value |-> 0], [set |-> TRUE, value |-> clock.zone]}

\* An item that has begun finished later, before it is queued again; and then it is
\* not to start before another scheduling point.
Paced(s, a) ==
  LET i == s.item[a]
  IN /\ i.phase = "queued" => i.next >= First(a)
     /\ i.began = Never => i.phase # "started" /\ i.lastFinished = Never
     /\ i.began # Never =>
          /\ i.began <= Local(a, clock.now) /\ i.began >= First(a) /\ i.began > Never
          /\ plan[a].local => s.offset.set
          /\ i.lastFinished # Never =>
               /\ i.lastFinished <= Local(a, clock.now)
               /\ plan[a].kind = "smart" => i.lastFinished > DayOne
          /\ i.phase \in {"idle", "queued"} =>
               /\ plan[a].kind # "once" /\ i.began < Local(a, clock.now)
               /\ \/ i.began < i.lastFinished
                  \/ plan[a].kind = "smart" /\ i.lastFinished = Never
          /\ i.phase = "queued" => PointIn(a, i.began, i.next)

\* From the state before to s, an item started only after another point.
Follows(s, a) ==
  IF s.item[a].phase = "started"
  THEN \/ item[a].phase = "started" \/ item[a].began = Never
       \/ PointIn(a, item[a].began, s.item[a].began)
  ELSE s.item[a].began = item[a].began

SmartStarts == \A a \in Activities : plan[a].kind = "smart" => plan[a].start = DayOne

\* The Activities that catch up.
Steady == {a \in Activities : plan[a].kind # "relative"}

Goes(s) == Timely(s) /\ \A a \in Steady : Paced(s, a) /\ Follows(s, a)

\* Only items and offset matter.
LEMMA SameGoes ==
  ASSUME NEW s, NEW t, Goes(s), t.item = s.item, t.offset = s.offset
  PROVE  Goes(t)
BY DEF Goes, Timely, Paced, Follows

\* What the clock shows, in the zone of a schedule.
LEMMA TimeIs ==
  ASSUME Timed, ClockSet, NEW s \in SchedulerState, Timely(s), NEW a \in Activities
  PROVE  /\ GetTime(s, a) \in Int /\ Local(a, clock.now) \in Int
         /\ Local(a, clock.now) > Never
         /\ (plan[a].local => s.offset.set) => GetTime(s, a) = Local(a, clock.now)
<1>1. clock.now \in Int /\ clock.zone \in Int /\ plan[a].local \in BOOLEAN
  BY DEF Timed, Schedule
<1>2. clock.now >= Start /\ Start \in Int /\ Start > -1 /\ Start + clock.zone > -1
  <2>1. 0 \in Zones \cup {0} /\ clock.zone \in Zones \cup {0}
    BY DEF Timely
  <2>2. Start + 0 > -1 /\ Start + clock.zone > -1
    BY <2>1 DEF ClockSet, Never
  <2>3. Start \in Int /\ clock.now >= Start
    BY SchedulerAssumption DEF Timely
  <2> QED
    BY <2>2, <2>3
<1>3. \/ s.offset.set = FALSE /\ s.offset.value = 0
      \/ s.offset.set = TRUE /\ s.offset.value = clock.zone
  BY DEF Timely
<1>4. GetTime(s, a) = clock.now + IF plan[a].local THEN s.offset.value ELSE 0
  BY DEF GetTime
<1>5. Local(a, clock.now) = IF plan[a].local THEN clock.now + clock.zone ELSE clock.now
  BY DEF Local
<1> QED
  BY <1>1, <1>2, <1>3, <1>4, <1>5 DEF Never

LEMMA FirstType ==
  ASSUME Timed, NEW a \in Activities
  PROVE  First(a) \in Int
BY TimesAssumption DEF Timed, First, GetBaseStartTime, Schedule

\* The next start of an item that is to be queued, or is.
LEMMA RecalcPaces ==
  ASSUME Timed, ClockSet, SmartStarts, NEW s \in SchedulerState, Timely(s),
         NEW a \in Steady, Paced(s, a), s.item[a].phase \in {"idle", "queued"}
  PROVE  LET next == CalcNextStartTime(plan[a], s.item[a].lastFinished, GetTime(s, a))
         IN  /\ next >= First(a)
             /\ s.item[a].began # Never => PointIn(a, s.item[a].began, next)
<1> DEFINE i == s.item[a]
           now == GetTime(s, a)
<1>1. /\ a \in Activities /\ plan[a] \in Schedule /\ plan[a].kind # "relative"
      /\ i.lastFinished \in Int /\ i.began \in Int
  BY DEF Timed, Steady, SchedulerState, ItemState
<1>2. /\ now \in Int
      /\ (plan[a].local => s.offset.set) => now = Local(a, clock.now)
  BY <1>1, TimeIs
<1>3. plan[a].kind = "smart" => plan[a].start = DayOne
  BY <1>1 DEF SmartStarts
<1>4. \/ i.began = Never /\ i.lastFinished = Never
      \/ /\ plan[a].kind # "once" /\ i.began > Never /\ i.began >= First(a) /\ i.began < now
         /\ \/ i.began < i.lastFinished /\ i.lastFinished <= now
            \/ plan[a].kind = "smart" /\ i.lastFinished = Never
  <2>1. i.began > Never /\ i.began < i.lastFinished => i.lastFinished # Never
    BY <1>1 DEF Never
  <2> QED
    BY <1>2, <2>1 DEF Paced
<1> HIDE DEF i, now
<1>5. /\ CalcNextStartTime(plan[a], i.lastFinished, now) >= First(a)
      /\ i.began # Never =>
           \E t \in (i.began + 1)..CalcNextStartTime(plan[a], i.lastFinished, now) :
             (t - First(a)) % plan[a].interval = 0
  <2> DEFINE base == First(a)
  <2>1. base = GetBaseStartTime(plan[a], Never)
    BY DEF First
  <2> HIDE DEF base
  <2>2. /\ plan[a].kind = "smart" => plan[a].start = DayOne
        /\ \/ i.began = Never /\ i.lastFinished = Never
           \/ /\ plan[a].kind # "once" /\ i.began > Never /\ i.began >= base /\ i.began < now
              /\ \/ i.began < i.lastFinished /\ i.lastFinished <= now
                 \/ plan[a].kind = "smart" /\ i.lastFinished = Never
    BY <1>3, <1>4 DEF base
  <2>3. /\ CalcNextStartTime(plan[a], i.lastFinished, now) >= base
        /\ i.began # Never =>
             \E t \in (i.began + 1)..CalcNextStartTime(plan[a], i.lastFinished, now) :
               (t - base) % plan[a].interval = 0
    BY <1>1, <1>2, <2>1, <2>2, StartsLater
  <2> QED
    BY <2>3 DEF base
<1> QED
  BY <1>5 DEF i, now, PointIn, Point

\* An item that leaves its queue is due.
LEMMA GoneIs ==
  ASSUME Timed, NEW s \in SchedulerState, NEW A \in SUBSET Activities, Queued(s, A),
         NEW a \in Activities
  PROVE  \/ ProcessQueue(s).item[a] = s.item[a]
         \/ /\ ProcessQueue(s).item[a] = [s.item[a] EXCEPT !.phase = "started", !.scheduled = TRUE,
                                                           !.began = Local(a, clock.now)]
            /\ a \in A /\ s.item[a].phase = "queued" /\ s.item[a].next <= GetTime(s, a)
            /\ plan[a].local => s.offset.set
<1> DEFINE due == [q \in QueueName |-> IF q \in Usable(s) THEN Due(s, q) ELSE {}]
           gone == UNION {{s.queue[q][i] : i \in due[q]} : q \in QueueName}
           t == ProcessQueue(s)
<1>1. t.item[a] = IF a \in gone
                  THEN [s.item[a] EXCEPT !.phase = "started", !.scheduled = TRUE,
                                         !.began = Local(a, clock.now)]
                  ELSE s.item[a]
  BY DEF ProcessQueue, SchedulerState
<1> HIDE DEF t
<1>2. ASSUME a \in gone
      PROVE  /\ a \in A /\ s.item[a].phase = "queued" /\ s.item[a].next <= GetTime(s, a)
             /\ plan[a].local => s.offset.set
  <2>1. PICK q \in QueueName : \E i \in due[q] : a = s.queue[q][i]
    BY <1>2
  <2>2. PICK i \in due[q] : a = s.queue[q][i]
    BY <2>1
  <2>3. q \in Usable(s) /\ i \in Due(s, q)
    BY <2>2
  <2>4. /\ i \in DOMAIN s.queue[q]
        /\ \A j \in 1..i : s.item[s.queue[q][j]].next <= GetTime(s, s.queue[q][j])
    BY <2>3 DEF Due
  <2>5. i \in 1..i
    BY <2>4, QueueType
  <2>6. a \in ToSet(s.queue[q])
    BY <2>2, <2>4 DEF ToSet
  <2>7. a \in A /\ s.item[a].phase = "queued" /\ QueueOf(a) = q
    BY <2>6 DEF Queued
  <2>8. plan[a].local => s.offset.set
    BY <2>3, <2>7 DEF QueueOf, Usable
  <2> QED
    BY <2>2, <2>4, <2>5, <2>7, <2>8
<1> QED
  BY <1>1, <1>2 DEF t

\* What is not in a queue stays as it is.
LEMMA LeavesAlone ==
  ASSUME Timed, NEW s \in SchedulerState, NEW A \in SUBSET Activities, Queued(s, A),
         NEW a \in Activities \ A
  PROVE  ProcessQueue(s).item[a] = s.item[a]
BY GoneIs

\* What starts starts after another point.
LEMMA ProcessQueueGoes ==
  ASSUME Timed, ClockSet, NEW s \in SchedulerState, NEW A \in SUBSET Activities, Queued(s, A),
         Goes(s), ProcessQueue(s).offset = s.offset
  PROVE  Goes(ProcessQueue(s))
<1> DEFINE t == ProcessQueue(s)
<1>1. Timely(t) /\ Timely(s)
  BY DEF Goes, Timely
<1>2. ASSUME NEW a \in Steady
      PROVE  Paced(t, a) /\ Follows(t, a)
  <2> DEFINE i == s.item[a]
             here == Local(a, clock.now)
  <2>1. a \in Activities /\ Paced(s, a) /\ Follows(s, a) /\ i \in ItemState
    BY DEF Steady, Goes, SchedulerState
  <2>2. CASE t.item[a] = i
    BY <1>1, <2>1, <2>2 DEF Paced, Follows
  <2>3. CASE /\ t.item[a] = [i EXCEPT !.phase = "started", !.scheduled = TRUE, !.began = here]
             /\ i.phase = "queued" /\ i.next <= GetTime(s, a)
             /\ plan[a].local => s.offset.set
    <3>1. /\ here \in Int /\ here > Never /\ GetTime(s, a) = here
      BY <1>1, <2>1, <2>3, TimeIs
    <3>2. t.item[a].phase = "started" /\ t.item[a].began = here
      BY <2>1, <2>3 DEF ItemState
    <3>3. i.next \in Int /\ i.next <= here /\ i.next >= First(a) /\ First(a) \in Int
      BY <2>1, <2>3, <3>1, FirstType DEF Paced, ItemState
    <3> HIDE DEF here, t
    <3>4. Paced(t, a)
      <4>1. here # Never /\ here <= here /\ here >= First(a)
        BY <3>1, <3>3 DEF Never
      <4>2. plan[a].local => t.offset.set
        BY <2>3 DEF t
      <4>3. /\ t.item[a].lastFinished = i.lastFinished
            /\ i.lastFinished # Never =>
                 /\ i.lastFinished <= here
                 /\ plan[a].kind = "smart" => i.lastFinished > DayOne
        BY <2>1, <2>3 DEF Paced, ItemState, t, here
      <4> HIDE DEF i
      <4> QED
        BY <3>1, <3>2, <4>1, <4>2, <4>3 DEF Paced, here
    <3>5. Follows(t, a)
      <4>1. i.began = item[a].began
        BY <2>1, <2>3 DEF Follows
      <4>2. ASSUME i.began # Never PROVE PointIn(a, i.began, here)
        <5>1. PICK p \in (i.began + 1)..i.next : Point(a, p)
          BY <2>1, <2>3, <4>2 DEF Paced, PointIn
        <5>2. p \in (i.began + 1)..here
          BY <2>1, <3>1, <3>3, <5>1 DEF ItemState
        <5> QED
          BY <5>1, <5>2 DEF PointIn
      <4> QED
        BY <3>2, <4>1, <4>2 DEF Follows
    <3> QED
      BY <3>4, <3>5 DEF t
  <2> QED
    BY <2>1, <2>2, <2>3, GoneIs
<1> QED
  BY <1>1, <1>2 DEF Goes

LEMMA DequeueGoes ==
  ASSUME Timed, ClockSet, NEW s \in SchedulerState, NEW A \in SUBSET Activities, Queued(s, A),
         InOrder(s), Heard(s), Goes(s)
  PROVE  Goes(DequeueAndUpdateTimeout(s))
<1> DEFINE u == ProcessQueue(s)
           t == SetWake(u)
<1>1. /\ u \in SchedulerState /\ Queued(u, A) /\ InOrder(u)
      /\ u.offset = s.offset /\ u.wake = s.wake /\ u.powerd = s.powerd
  BY ProcessQueueKeeps
<1>2. Goes(u)
  BY <1>1, ProcessQueueGoes
<1> HIDE DEF u
<1>3. Heard(u)
  BY <1>1 DEF Heard, WakeIsHeard
<1>4. t.item = u.item /\ t.offset = u.offset
  BY <1>1, <1>3, SetWakeKeeps
<1> HIDE DEF t
<1>5. Goes(t)
  BY <1>2, <1>4, SameGoes
<1>6. DequeueAndUpdateTimeout(s) = t
  BY ThenIs DEF t, u
<1> QED
  BY <1>5, <1>6

LEMMA AddItemGoes ==
  ASSUME Timed, ClockSet, NEW s \in SchedulerState, NEW a \in Activities,
         Queued(s, Activities \ {a}), InOrder(s), Heard(s), s.item[a].phase = "queued", Goes(s)
  PROVE  Goes(AddItem(s, a))
<1> DEFINE A == Activities \ {a}
           t == Put(s, a)
<1>1. A \in SUBSET Activities /\ a \notin A /\ A \cup {a} = Activities /\ Queued(s, A)
  OBVIOUS
<1> HIDE DEF A
<1>2. /\ t \in SchedulerState /\ Queued(t, A \cup {a}) /\ InOrder(t)
      /\ t.item = s.item /\ t.offset = s.offset /\ t.wake = s.wake /\ t.powerd = s.powerd
  BY <1>1, PutKeeps
<1>3. AddItem(s, a) = IF Head(t.queue[QueueOf(a)]) = a THEN DequeueAndUpdateTimeout(t) ELSE t
  BY DEF AddItem, Put
<1> HIDE DEF t
<1>4. Queued(t, Activities)
  BY <1>1, <1>2
<1>5. Heard(t)
  BY <1>2 DEF Heard, WakeIsHeard
<1>6. Goes(t)
  BY <1>2, SameGoes
<1>7. Goes(DequeueAndUpdateTimeout(t))
  BY <1>2, <1>4, <1>5, <1>6, DequeueGoes
<1> QED
  BY <1>3, <1>6, <1>7

LEMMA RemoveItemGoes ==
  ASSUME Timed, ClockSet, NEW s \in SchedulerState, NEW a \in Activities, InPlace(s),
         s.item[a].phase = "queued", Goes(s)
  PROVE  Goes(Unlink(s, a)) /\ Goes(RemoveItem(s, a))
<1> DEFINE t == Unlink(s, a)
<1>1. Queued(s, Activities) /\ InOrder(s)
  BY LinkedIs DEF InPlace
<1>2. t.item = s.item /\ t.offset = s.offset
  BY <1>1, UnlinkKeeps
<1>3. /\ t \in SchedulerState /\ Queued(t, Activities \ {a}) /\ InOrder(t) /\ WakeIsSet(t)
      /\ Heard(t)
  BY UnlinkWakes
<1> HIDE DEF t
<1>4. Goes(t)
  BY <1>2, SameGoes
<1>5. Goes(DequeueAndUpdateTimeout(t))
  BY <1>3, <1>4, DequeueGoes
<1> QED
  BY <1>4, <1>5 DEF RemoveItem, t

\* What is calculated again is what is in the queues.
LEMMA ReQueueGoes ==
  ASSUME Timed, ClockSet, SmartStarts, NEW s \in SchedulerState, Linked(s), Goes(s)
  PROVE  Goes(ReQueue(s))
<1> DEFINE u == s.queue["utc"]
           l == s.queue["local"]
           A == ToSet(u \o l)
           t == ReQueue(s)
<1>1. /\ u \in Seq(Activities) /\ l \in Seq(Activities)
      /\ DOMAIN u = 1..Len(u) /\ DOMAIN l = 1..Len(l) /\ Len(u) \in Nat /\ Len(l) \in Nat
  BY QueueType DEF QueueName
<1>2. ToSet(u) = {a \in Activities : s.item[a].phase = "queued" /\ QueueOf(a) = "utc"}
      /\ ToSet(l) = {a \in Activities : s.item[a].phase = "queued" /\ QueueOf(a) = "local"}
  BY DEF Linked, QueueName
<1>3. t.item = Recalc(s, A) /\ t.offset = s.offset
  BY DEF ReQueue, SchedulerState
<1> HIDE DEF u, l, t
<1>4. ASSUME NEW a \in A PROVE s.item[a].phase = "queued"
  <2>1. PICK i \in DOMAIN (u \o l) : (u \o l)[i] = a
    BY <1>4 DEF A, ToSet
  <2>2. i \in 1..(Len(u) + Len(l))
    BY <1>1, <2>1
  <2>3. CASE i <= Len(u)
    <3>1. a = u[i] /\ i \in DOMAIN u
      BY <1>1, <2>1, <2>2, <2>3
    <3> QED
      BY <1>2, <3>1 DEF ToSet
  <2>4. CASE i > Len(u)
    <3>1. a = l[i - Len(u)] /\ i - Len(u) \in DOMAIN l
      BY <1>1, <2>1, <2>2, <2>4
    <3> QED
      BY <1>2, <3>1 DEF ToSet
  <2> QED
    BY <1>1, <2>2, <2>3, <2>4
<1> HIDE DEF A
<1>5. Timely(t) /\ Timely(s)
  BY <1>3 DEF Goes, Timely
<1>6. ASSUME NEW a \in Steady
      PROVE  Paced(t, a) /\ Follows(t, a)
  <2> DEFINE next == CalcNextStartTime(plan[a], s.item[a].lastFinished, GetTime(s, a))
  <2>1. a \in Activities /\ Paced(s, a) /\ Follows(s, a) /\ s.item[a] \in ItemState
    BY DEF Steady, Goes, SchedulerState
  <2>2. t.item[a] = IF a \in A THEN [s.item[a] EXCEPT !.next = next] ELSE s.item[a]
    BY <1>3, <2>1 DEF Recalc
  <2>3. a \in A => /\ s.item[a].phase = "queued" /\ next >= First(a)
                   /\ s.item[a].began # Never => PointIn(a, s.item[a].began, next)
    BY <1>4, <1>5, <2>1, RecalcPaces
  <2> HIDE DEF next
  <2>4. /\ t.item[a].phase = s.item[a].phase /\ t.item[a].began = s.item[a].began
        /\ t.item[a].lastFinished = s.item[a].lastFinished
        /\ t.item[a].next = IF a \in A THEN next ELSE s.item[a].next
    BY <2>1, <2>2 DEF ItemState
  <2>5. Paced(t, a)
    BY <1>3, <2>1, <2>3, <2>4 DEF Paced
  <2>6. Follows(t, a)
    BY <2>1, <2>4 DEF Follows
  <2> QED
    BY <2>5, <2>6
<1> QED
  BY <1>5, <1>6 DEF Goes, t

LEMMA TimeChangedGoes ==
  ASSUME Timed, ClockSet, SmartStarts, NEW s \in SchedulerState, Linked(s), Heard(s), Goes(s)
  PROVE  Goes(TimeChanged(s))
<1> DEFINE t == ReQueue(s)
<1>1. t \in SchedulerState /\ Queued(t, Activities) /\ InOrder(t) /\ Heard(t)
  BY ReQueueKeeps, LinkedIs
<1>2. Goes(t)
  BY ReQueueGoes
<1>3. TimeChanged(s) = DequeueAndUpdateTimeout(t)
  BY DEF TimeChanged, Then
<1> HIDE DEF t
<1> QED
  BY <1>1, <1>2, <1>3, DequeueGoes

\* The offset becomes known.
LEMMA SetLocalOffsetGoes ==
  ASSUME Timed, ClockSet, NEW s \in SchedulerState, InPlace(s), Goes(s)
  PROVE  Goes(SetLocalOffset(s, clock.zone))
<1> DEFINE value == clock.zone
           t == [s EXCEPT !.offset = [set |-> TRUE, value |-> value]]
<1>1. value \in Int
  BY DEF Timed
<1>2. /\ t \in SchedulerState /\ t.item = s.item /\ t.queue = s.queue
      /\ t.wake = s.wake /\ t.powerd = s.powerd /\ t.offset = [set |-> TRUE, value |-> value]
  BY <1>1 DEF SchedulerState
<1>3. SetLocalOffset(s, value) = IF s.offset = [set |-> TRUE, value |-> value] THEN s
                                 ELSE DequeueAndUpdateTimeout(t)
  BY DEF SetLocalOffset
<1> HIDE DEF t
<1>4. Queued(t, Activities) /\ InOrder(t) /\ Heard(t)
  BY <1>2, LinkedIs DEF InPlace, Linked, InOrder, Heard, WakeIsHeard
<1>5. Goes(t)
  BY <1>2 DEF Goes, Timely, Paced, Follows
<1>6. Goes(DequeueAndUpdateTimeout(t))
  BY <1>2, <1>4, <1>5, DequeueGoes
<1> QED
  BY <1>3, <1>6

-----------------------------------------------------------------------------
(* Each action lets the Activities catch up once.                          *)

\* The invariant, while neither time nor zone has changed and there was no restart.
Pace ==
  /\ changes \in Nat /\ SmartStarts
  /\ changes = 0 => Timely(Now) /\ \A a \in Steady : Paced(Now, a)

CatchesUp ==
  \A a \in Activities :
    Begins(a) /\ changes = 0 /\ item[a].began # Never /\ plan[a].kind # "relative" =>
      Points(a, item[a].began, item'[a].began) # {}

LEMMA NowGoes ==
  ASSUME Pace, changes = 0
  PROVE  Goes(Now)
BY DEF Pace, Goes, Follows, Now

LEMMA PointIs ==
  ASSUME NEW a \in Steady, NEW from, NEW to, PointIn(a, from, to)
  PROVE  Points(a, from, to) # {}
<1>1. GetBaseStartTime(plan[a], item[a].lastFinished) = First(a)
  BY DEF First, GetBaseStartTime, Steady
<1>2. PICK t \in (from + 1)..to : (t - First(a)) % plan[a].interval = 0
  BY DEF PointIn, Point
<1>3. t \in Points(a, from, to)
  BY <1>1, <1>2 DEF Points
<1> QED
  BY <1>3

LEMMA GoesStep ==
  ASSUME TypeOK, Pace, NEW t \in SchedulerState, Now' = t, changes = 0 => Goes(t),
         plan' = plan, clock' = clock, changes' = changes
  PROVE  Pace' /\ CatchesUp
<1>1. Pace'
  <2>1. changes' \in Nat /\ SmartStarts'
    BY DEF Pace, SmartStarts
  <2>2. ASSUME changes' = 0
        PROVE  Timely(Now)' /\ \A a \in Steady' : Paced(Now, a)'
    <3>1. Goes(t)
      BY <2>2
    <3>2. Timely(Now)'
      BY <3>1 DEF Goes, Timely
    <3>3. ASSUME NEW a \in Steady PROVE Paced(Now, a)'
      <4>1. Paced(t, a)
        BY <3>1 DEF Goes
      <4> QED
        BY <4>1 DEF Paced, First, PointIn, Point, Local
    <3>4. Steady' = Steady
      BY DEF Steady
    <3> QED
      BY <3>2, <3>3, <3>4
  <2> QED
    BY <2>1, <2>2 DEF Pace
<1>2. CatchesUp
  <2> SUFFICES ASSUME NEW a \in Activities, Begins(a), changes = 0, item[a].began # Never,
                      plan[a].kind # "relative"
               PROVE  Points(a, item[a].began, item'[a].began) # {}
    BY DEF CatchesUp
  <2>1. a \in Steady /\ Follows(t, a)
    BY DEF Steady, Goes
  <2>2. t.item = item'
    BY DEF Now
  <2>3. PointIn(a, item[a].began, item'[a].began)
    BY <2>1, <2>2 DEF Follows, Begins
  <2> QED
    BY <2>1, <2>3, PointIs
<1> QED
  BY <1>1, <1>2

LEMMA QueueItemPaced ==
  ASSUME ClockSet, Sound, Pace, NEW a \in Activities, QueueItem(a)
  PROVE  Pace' /\ CatchesUp
<1> DEFINE items == Recalc(Now, {a})
           t == [[Now EXCEPT !.item = items] EXCEPT !.item[a].scheduled = FALSE,
                                                    !.item[a].phase = "queued"]
           next == CalcNextStartTime(plan[a], Now.item[a].lastFinished, GetTime(Now, a))
<1>1. Timed /\ Now \in SchedulerState /\ InPlace(Now) /\ Now.item[a].phase = "idle"
  BY TypeIs DEF Sound, QueueItem, Now
<1>2. /\ items \in [Activities -> ItemState]
      /\ \A b \in Activities : b # a => items[b] = Now.item[b]
      /\ items[a] = [Now.item[a] EXCEPT !.next = next]
  <2>1. items[a] = [Now.item[a] EXCEPT !.next = next]
    BY DEF Recalc
  <2> QED
    BY <1>1, <2>1, RecalcType
<1>3. Become(AddItem(t, a)) /\ plan' = plan /\ clock' = clock /\ changes' = changes
  BY DEF QueueItem
<1> HIDE DEF items, next
<1> DEFINE new == [items EXCEPT ![a] = [items[a] EXCEPT !.scheduled = FALSE, !.phase = "queued"]]
<1>4. t = [Now EXCEPT !.item = new]
  <2>1. items \in [Activities -> ItemState]
    BY <1>2
  <2> QED
    BY <1>1, <2>1 DEF SchedulerState, ItemState
<1>5. /\ new \in [Activities -> ItemState] /\ new[a].phase = "queued"
      /\ \A b \in Activities : b # a => new[b] = Now.item[b]
      /\ new[a].began = Now.item[a].began /\ new[a].lastFinished = Now.item[a].lastFinished
      /\ new[a].next = next
  <2>1. Now.item[a] \in ItemState /\ items[a] \in ItemState
    BY <1>1, <1>2 DEF SchedulerState
  <2>2. /\ items[a].began = Now.item[a].began /\ items[a].next = next
        /\ items[a].lastFinished = Now.item[a].lastFinished
    BY <1>2, <2>1 DEF ItemState
  <2>3. new[a] = [items[a] EXCEPT !.scheduled = FALSE, !.phase = "queued"]
    BY <1>2
  <2>4. /\ new[a] \in ItemState /\ new[a].phase = "queued"
        /\ new[a].began = items[a].began /\ new[a].next = items[a].next
        /\ new[a].lastFinished = items[a].lastFinished
    <3> HIDE DEF new
    <3> QED
      BY <2>1, <2>3 DEF ItemState
  <2>5. \A b \in Activities : b # a => new[b] = items[b]
    BY <1>2
  <2>6. new = [b \in Activities |-> new[b]]
    BY <1>2
  <2> HIDE DEF new
  <2>7. new \in [Activities -> ItemState]
    BY <1>2, <2>4, <2>5, <2>6
  <2> QED
    BY <1>2, <2>2, <2>4, <2>5, <2>7
<1> HIDE DEF t, new
<1>6. /\ t \in SchedulerState /\ t.item = new /\ t.queue = Now.queue /\ t.offset = Now.offset
      /\ t.wake = Now.wake /\ t.powerd = Now.powerd
  BY <1>1, <1>4, <1>5 DEF SchedulerState
<1>7. Queued(t, Activities \ {a}) /\ InOrder(t) /\ WakeIsSet(t) /\ Heard(t)
  <2> DEFINE A == Activities
             B == Activities \ {a}
  <2>1. /\ \A b \in A : Now.item[b].phase = "queued" => t.item[b].next = Now.item[b].next
        /\ \A b \in Activities :
             (b \in B /\ t.item[b].phase = "queued") <=> (b \in A /\ Now.item[b].phase = "queued")
    BY <1>1, <1>5, <1>6
  <2>2. A \in SUBSET Activities /\ B \in SUBSET Activities /\ Queued(Now, A)
    BY <1>1, LinkedIs DEF InPlace
  <2>3. InOrder(Now) /\ WakeIsSet(Now) /\ Heard(Now)
    BY <1>1 DEF InPlace
  <2> HIDE DEF A, B
  <2>4. Queued(t, B) /\ InOrder(t) /\ WakeIsSet(t) /\ Heard(t)
    BY <1>1, <1>6, <2>1, <2>2, <2>3, ItemStep
  <2> QED
    BY <2>4 DEF B
<1>8. AddItem(t, a) \in SchedulerState /\ InPlace(AddItem(t, a))
  BY <1>1, <1>5, <1>6, <1>7, AddItemKeeps
<1>9. ASSUME changes = 0 PROVE Goes(AddItem(t, a))
  <2>1. Goes(Now)
    BY <1>9, NowGoes
  <2>2. Timely(Now) /\ Timely(t)
    BY <1>6, <2>1 DEF Goes, Timely
  <2>3. ASSUME NEW b \in Steady PROVE Paced(t, b) /\ Follows(t, b)
    <3>1. b \in Activities /\ Paced(Now, b) /\ Follows(Now, b)
      BY <2>1 DEF Goes, Steady
    <3>2. CASE b # a
      <4>1. t.item[b] = Now.item[b]
        BY <1>5, <1>6, <3>1, <3>2
      <4> QED
        BY <1>6, <3>1, <4>1 DEF Paced, Follows
    <3>3. CASE b = a
      <4>1. next >= First(a) /\ (Now.item[a].began # Never => PointIn(a, Now.item[a].began, next))
        BY <1>1, <2>2, <3>1, <3>3, RecalcPaces DEF Pace, next
      <4>2. Paced(t, a)
        BY <1>1, <1>5, <1>6, <3>1, <3>3, <4>1 DEF Paced
      <4>3. Follows(t, a)
        BY <1>1, <1>5, <1>6, <3>1, <3>3 DEF Follows
      <4> QED
        BY <3>3, <4>2, <4>3
    <3> QED
      BY <3>2, <3>3
  <2>4. Goes(t)
    BY <2>2, <2>3 DEF Goes
  <2> QED
    BY <1>1, <1>5, <1>6, <1>7, <2>4, AddItemGoes
<1>10. Now' = AddItem(t, a)
  BY <1>3, <1>8, Lands
<1> QED
  BY <1>3, <1>8, <1>9, <1>10, GoesStep DEF Sound

\* An item that was taken off is not to start.
LEMMA GoneGoes ==
  ASSUME NEW s \in SchedulerState, Goes(s), NEW t \in SchedulerState, NEW a \in Activities,
         t.offset = s.offset, t.item[a].phase = "gone", s.item[a].phase # "started",
         t.item[a].began = s.item[a].began, t.item[a].lastFinished = s.item[a].lastFinished,
         \A b \in Activities : b # a => t.item[b] = s.item[b]
  PROVE  Goes(t)
<1>1. Timely(t)
  BY DEF Goes, Timely
<1>2. ASSUME NEW b \in Steady PROVE Paced(t, b) /\ Follows(t, b)
  <2>1. b \in Activities /\ Paced(s, b) /\ Follows(s, b)
    BY DEF Goes, Steady
  <2>2. CASE b # a
    <3>1. t.item[b] = s.item[b]
      BY <2>1, <2>2
    <3> QED
      BY <2>1, <3>1 DEF Paced, Follows
  <2>3. CASE b = a
    BY <2>1, <2>3 DEF Paced, Follows
  <2> QED
    BY <2>2, <2>3
<1> QED
  BY <1>1, <1>2 DEF Goes

\* What was taken off its queue is not started.
LEMMA RemoveItemLeaves ==
  ASSUME Timed, NEW s \in SchedulerState, NEW a \in Activities, InPlace(s),
         s.item[a].phase = "queued"
  PROVE  RemoveItem(s, a).item[a].phase = "queued"
<1> DEFINE t == Unlink(s, a)
           u == ProcessQueue(t)
           A == Activities \ {a}
<1>1. t.item = s.item
  BY DEF Unlink
<1>2. t \in SchedulerState /\ A \in SUBSET Activities /\ Queued(t, A) /\ InOrder(t) /\ Heard(t)
  BY UnlinkWakes
<1> HIDE DEF t
<1>3. /\ u \in SchedulerState /\ u.wake = t.wake /\ u.powerd = t.powerd
  BY <1>2, ProcessQueueKeeps
<1>4. Heard(u)
  BY <1>2, <1>3 DEF Heard, WakeIsHeard
<1>5. u.item[a] = t.item[a]
  BY <1>2, LeavesAlone DEF A
<1> HIDE DEF u
<1>6. SetWake(u).item = u.item
  BY <1>3, <1>4, SetWakeKeeps
<1>7. RemoveItem(s, a) \in {t, SetWake(u)}
  BY ThenIs DEF RemoveItem, t, u
<1> QED
  BY <1>1, <1>5, <1>6, <1>7

LEMMA UnQueueItemPaced ==
  ASSUME ClockSet, Sound, Pace, NEW a \in Activities, UnQueueItem(a)
  PROVE  Pace' /\ CatchesUp
<1> DEFINE s == RemoveItem(Now, a)
           t == [s EXCEPT !.item[a].scheduled = FALSE, !.item[a].phase = "gone"]
<1>1. Timed /\ Now \in SchedulerState /\ InPlace(Now) /\ Now.item[a].phase = "queued"
  BY TypeIs DEF Sound, UnQueueItem, Now
<1>2. s \in SchedulerState /\ s.item[a].phase # "started"
  BY <1>1, RemoveItemKeeps, RemoveItemLeaves
<1>3. Become(t) /\ plan' = plan /\ clock' = clock /\ changes' = changes
  BY DEF UnQueueItem
<1>4. changes = 0 => Goes(s)
  BY <1>1, NowGoes, RemoveItemGoes
<1> HIDE DEF s
<1> DEFINE new == [s.item EXCEPT ![a] = [s.item[a] EXCEPT !.scheduled = FALSE, !.phase = "gone"]]
<1>5. t = [s EXCEPT !.item = new]
  BY <1>2 DEF SchedulerState, ItemState
<1>6. /\ new \in [Activities -> ItemState] /\ new[a].phase = "gone"
      /\ new[a].began = s.item[a].began /\ new[a].lastFinished = s.item[a].lastFinished
      /\ \A b \in Activities : b # a => new[b] = s.item[b]
  <2>1. s.item \in [Activities -> ItemState]
    BY <1>2 DEF SchedulerState
  <2> QED
    BY <2>1 DEF ItemState
<1> HIDE DEF t, new
<1>7. t \in SchedulerState /\ t.item = new /\ t.offset = s.offset
  BY <1>2, <1>5, <1>6 DEF SchedulerState
<1>8. changes = 0 => Goes(t)
  BY <1>2, <1>4, <1>6, <1>7, GoneGoes
<1>9. Now' = t
  BY <1>3, <1>7, Lands
<1> QED
  BY <1>3, <1>7, <1>8, <1>9, GoesStep DEF Sound

LEMMA ClearSchedulePaced ==
  ASSUME ClockSet, Sound, Pace, NEW a \in Activities, ClearSchedule(a)
  PROVE  Pace' /\ CatchesUp
<1> DEFINE s == Unlink(Now, a)
           t == [s EXCEPT !.item[a].phase = "gone"]
<1>1. Timed /\ Now \in SchedulerState /\ InPlace(Now) /\ Now.item[a].phase = "queued"
  BY TypeIs DEF Sound, ClearSchedule, Now
<1>2. s \in SchedulerState /\ s.item = Now.item
  <2>1. s.item = Now.item
    BY DEF Unlink
  <2> QED
    BY <1>1, <2>1, UnlinkWakes
<1>3. Become(t) /\ plan' = plan /\ clock' = clock /\ changes' = changes
  BY DEF ClearSchedule
<1>4. changes = 0 => Goes(s)
  BY <1>1, NowGoes, RemoveItemGoes
<1> HIDE DEF s
<1> DEFINE new == [s.item EXCEPT ![a] = [s.item[a] EXCEPT !.phase = "gone"]]
<1>5. t = [s EXCEPT !.item = new]
  BY <1>2 DEF SchedulerState, ItemState
<1>6. /\ new \in [Activities -> ItemState] /\ new[a].phase = "gone"
      /\ new[a].began = s.item[a].began /\ new[a].lastFinished = s.item[a].lastFinished
      /\ \A b \in Activities : b # a => new[b] = s.item[b]
  <2>1. s.item \in [Activities -> ItemState]
    BY <1>2 DEF SchedulerState
  <2> QED
    BY <2>1 DEF ItemState
<1> HIDE DEF t, new
<1>7. t \in SchedulerState /\ t.item = new /\ t.offset = s.offset
  BY <1>2, <1>5, <1>6 DEF SchedulerState
<1>8. s.item[a].phase # "started"
  BY <1>1, <1>2
<1>9. changes = 0 => Goes(t)
  BY <1>2, <1>4, <1>6, <1>7, <1>8, GoneGoes
<1>10. Now' = t
  BY <1>3, <1>7, Lands
<1> QED
  BY <1>3, <1>7, <1>9, <1>10, GoesStep DEF Sound

LEMMA FinishItemPaced ==
  ASSUME ClockSet, Sound, Pace, NEW a \in Activities, FinishItem(a)
  PROVE  Pace' /\ CatchesUp
<1> DEFINE last == item[a].lastFinished
           again == ShouldReschedule(plan[a], item[a].next)
           here == GetTime(Now, a)
           finished == InformActivityFinished(plan[a], last, here)
           done == [item[a] EXCEPT !.phase = IF again THEN "idle" ELSE "gone",
                                   !.stored = last, !.lastFinished = finished]
           t == [Now EXCEPT !.item = item']
<1>1. /\ Timed /\ Now \in SchedulerState /\ Now.item[a].phase = "started"
      /\ item[a].phase = "started" /\ item[a].began # Local(a, clock.now)
      /\ item[a] \in ItemState /\ item \in [Activities -> ItemState] /\ Now.item = item
      /\ Now.offset = offset
  BY TypeIs DEF Sound, FinishItem, Now, SchedulerState
<1>2. /\ item' = [item EXCEPT ![a] = done]
      /\ plan' = plan /\ clock' = clock /\ changes' = changes
      /\ queue' = queue /\ offset' = offset /\ wake' = wake /\ powerd' = powerd
  BY <1>1 DEF FinishItem, ItemState
<1>3. last \in Int /\ finished \in Int /\ here \in Int
  BY <1>1, TimeType DEF InformActivityFinished, ItemState
<1>4. again => plan[a].kind # "once"
  BY DEF ShouldReschedule
<1>5. finished = IF plan[a].kind # "once" /\ here > plan[a].start THEN here ELSE last
  BY DEF InformActivityFinished
<1> HIDE DEF last, again, finished, here
<1>6. /\ done \in ItemState /\ done.phase = IF again THEN "idle" ELSE "gone"
      /\ done.began = item[a].began /\ done.lastFinished = finished
  BY <1>1, <1>3 DEF ItemState
<1> HIDE DEF done
<1>7. /\ item' \in [Activities -> ItemState] /\ item'[a] = done
      /\ \A b \in Activities : b # a => item'[b] = item[b]
  BY <1>1, <1>2, <1>6
<1>8. t \in SchedulerState /\ t.item = item' /\ t.offset = Now.offset
  BY <1>1, <1>7 DEF SchedulerState, Now
<1>9. Now' = t
  BY <1>2 DEF Now
<1> HIDE DEF t
<1>10. ASSUME changes = 0 PROVE Goes(t)
  <2>1. Goes(Now)
    BY <1>10, NowGoes
  <2>2. Timely(Now) /\ Timely(t)
    BY <1>8, <2>1 DEF Goes, Timely
  <2>3. ASSUME NEW b \in Steady PROVE Paced(t, b) /\ Follows(t, b)
    <3>1. b \in Activities /\ Paced(Now, b) /\ Follows(Now, b)
      BY <2>1 DEF Goes, Steady
    <3>2. CASE b # a
      <4>1. t.item[b] = Now.item[b]
        BY <1>1, <1>7, <1>8, <3>1, <3>2
      <4> QED
        BY <1>8, <3>1, <4>1 DEF Paced, Follows
    <3>3. CASE b = a
      <4> DEFINE began == item[a].began
      <4>1. /\ began # Never /\ began <= Local(a, clock.now) /\ began >= First(a)
            /\ began > Never /\ (plan[a].local => offset.set)
            /\ last # Never =>
                 /\ last <= Local(a, clock.now)
                 /\ plan[a].kind = "smart" => last > DayOne
        BY <1>1, <3>1, <3>3 DEF Paced, last
      <4>2. here = Local(a, clock.now) /\ here > began
        <5>1. here = Local(a, clock.now)
          BY <1>1, <2>2, <4>1, TimeIs DEF here
        <5> QED
          BY <1>1, <1>3, <4>1, <5>1 DEF ItemState
      <4>3. \/ plan[a].kind = "once" /\ finished = last
            \/ finished = here /\ (plan[a].kind = "smart" => here > DayOne)
            \/ plan[a].kind = "smart" /\ finished = Never
        <5>1. CASE plan[a].kind = "smart"
          <6>1. plan[a].start = DayOne /\ DayOne \in Int
            BY <5>1, TimesAssumption DEF Pace, SmartStarts
          <6>2. CASE here > DayOne
            BY <1>5, <5>1, <6>1, <6>2
          <6>3. CASE ~(here > DayOne)
            <7>1. finished = last
              BY <1>5, <6>1, <6>3
            <7>2. last = Never
              BY <1>3, <4>1, <4>2, <5>1, <6>1, <6>3
            <7> QED
              BY <5>1, <7>1, <7>2
          <6> QED
            BY <6>2, <6>3
        <5>2. CASE plan[a].kind = "precise"
          <6>1. First(a) = plan[a].start /\ plan[a].start \in Int
            BY <1>1, <5>2 DEF First, GetBaseStartTime, Timed, Schedule
          <6>2. here > plan[a].start
            BY <1>1, <1>3, <4>1, <4>2, <6>1 DEF ItemState
          <6> QED
            BY <1>5, <5>2, <6>2
        <5>3. CASE plan[a].kind = "once"
          BY <1>5, <5>3
        <5> QED
          BY <1>1, <3>1, <3>3, <5>1, <5>2, <5>3 DEF Steady, Timed, Schedule
      <4>4. Paced(t, a)
        <5>1. /\ t.item[a].began = began /\ t.item[a].phase \notin {"queued", "started"}
              /\ t.item[a].lastFinished = finished
              /\ t.item[a].phase = "idle" => plan[a].kind # "once"
          BY <1>4, <1>6, <1>7, <1>8
        <5>2. /\ finished # Never =>
                   /\ finished <= Local(a, clock.now)
                   /\ plan[a].kind = "smart" => finished > DayOne
              /\ t.item[a].phase = "idle" =>
                   \/ began < finished
                   \/ plan[a].kind = "smart" /\ finished = Never
              /\ began < Local(a, clock.now)
          <6>1. began < here /\ here <= Local(a, clock.now)
            BY <1>1, <1>3, <4>2 DEF ItemState
          <6>2. \/ plan[a].kind = "once" /\ finished = last
                \/ finished = here /\ (plan[a].kind = "smart" => here > DayOne)
                \/ plan[a].kind = "smart" /\ finished = Never
            BY <4>3
          <6> HIDE DEF began
          <6> QED
            BY <4>1, <4>2, <5>1, <6>1, <6>2
        <5>3. t.offset = offset
          BY <1>1, <1>8
        <5> HIDE DEF began
        <5> QED
          BY <4>1, <5>1, <5>2, <5>3 DEF Paced
      <4>5. Follows(t, a)
        BY <1>6, <1>7, <1>8 DEF Follows
      <4> QED
        BY <3>3, <4>4, <4>5
    <3> QED
      BY <3>2, <3>3
  <2> QED
    BY <2>2, <2>3 DEF Goes
<1> QED
  BY <1>2, <1>8, <1>9, <1>10, GoesStep DEF Sound

LEMMA HandleSystemTimeResponsePaced ==
  ASSUME ClockSet, Sound, Pace, HandleSystemTimeResponse
  PROVE  Pace' /\ CatchesUp
<1> DEFINE s == SetLocalOffset(Now, clock.zone)
           t == TimeChanged(s)
<1>1. Timed /\ Now \in SchedulerState /\ InPlace(Now) /\ clock.zone \in Int
  BY TypeIs DEF Sound, Timed
<1>2. s \in SchedulerState /\ InPlace(s)
  BY <1>1, SetLocalOffsetKeeps
<1>3. changes = 0 => Goes(s)
  BY <1>1, NowGoes, SetLocalOffsetGoes
<1>4. Become(t) /\ plan' = plan /\ clock' = clock /\ changes' = changes
  BY DEF HandleSystemTimeResponse, Then
<1> HIDE DEF s
<1>5. t \in SchedulerState
  BY <1>1, <1>2, TimeChangedKeeps DEF InPlace
<1>6. changes = 0 => Goes(t)
  BY <1>1, <1>2, <1>3, TimeChangedGoes DEF InPlace, Pace
<1>7. Now' = t
  BY <1>4, <1>5, Lands
<1> QED
  BY <1>4, <1>5, <1>6, <1>7, GoesStep DEF Sound

LEMMA WakePaced ==
  ASSUME ClockSet, Sound, Pace, Wake
  PROVE  Pace' /\ CatchesUp
<1> DEFINE s == [Now EXCEPT !.powerd.waking = FALSE, !.wake.scheduled = FALSE]
           t == DequeueAndUpdateTimeout(s)
           p == [Now.powerd EXCEPT !.waking = FALSE]
           w == [Now.wake EXCEPT !.scheduled = FALSE]
<1>1. Timed /\ Now \in SchedulerState /\ InPlace(Now)
  BY TypeIs DEF Sound
<1>2. Become(t) /\ plan' = plan /\ clock' = clock /\ changes' = changes
  BY DEF Wake
<1>3. s = [Now EXCEPT !.powerd = p, !.wake = w]
  BY <1>1 DEF SchedulerState, PowerDaemon
<1>4. /\ p \in PowerDaemon /\ p.call = Now.powerd.call /\ p.reply = Now.powerd.reply
      /\ p.requests = Now.powerd.requests
      /\ w \in [scheduled : BOOLEAN, at : Int] /\ w.scheduled = FALSE
  BY <1>1 DEF SchedulerState, PowerDaemon
<1> HIDE DEF s, p, w
<1>5. /\ s \in SchedulerState /\ s.item = Now.item /\ s.queue = Now.queue
      /\ s.powerd = p /\ s.wake = w /\ s.offset = Now.offset
  BY <1>1, <1>3, <1>4 DEF SchedulerState
<1>6. Queued(s, Activities) /\ InOrder(s) /\ Heard(s)
  BY <1>1, <1>4, <1>5, LinkedIs DEF InPlace, Linked, InOrder, Heard, WakeIsHeard
<1> DEFINE A == Activities
<1>7. A \in SUBSET Activities /\ Queued(s, A)
  BY <1>6
<1> HIDE DEF A
<1>8. t \in SchedulerState
  BY <1>1, <1>5, <1>6, <1>7, DequeueKeeps
<1>9. changes = 0 => Goes(s)
  BY <1>5, NowGoes, SameGoes
<1>10. changes = 0 => Goes(t)
  BY <1>1, <1>5, <1>6, <1>7, <1>9, DequeueGoes
<1>11. Now' = t
  BY <1>2, <1>8, Lands
<1> QED
  BY <1>2, <1>8, <1>10, <1>11, GoesStep DEF Sound

\* Time passes, or only the daemon does something.
LEMMA RestPaced ==
  ASSUME TypeOK, Pace, item' = item, offset' = offset, plan' = plan, changes' = changes,
         clock'.zone = clock.zone, clock'.now \in Int, clock'.now >= clock.now
  PROVE  Pace' /\ CatchesUp
<1>1. /\ clock.now \in Int /\ clock.zone \in Int /\ clock'.zone \in Int
      /\ item \in [Activities -> ItemState]
  BY DEF TypeOK, Now, SchedulerState
<1>2. CatchesUp
  BY DEF CatchesUp, Begins
<1>3. SmartStarts' /\ Steady' = Steady
  BY DEF Pace, SmartStarts, Steady
<1>4. ASSUME changes = 0
      PROVE  Timely(Now)' /\ \A a \in Steady : Paced(Now, a)'
  <2>1. Timely(Now) /\ \A a \in Steady : Paced(Now, a)
    BY <1>4 DEF Pace
  <2>2. Timely(Now)'
    <3>1. clock'.now >= Start
      BY <1>1, <2>1, SchedulerAssumption DEF Timely
    <3> QED
      BY <2>1, <3>1 DEF Timely, Now
  <2>3. ASSUME NEW a \in Steady PROVE Paced(Now, a)'
    <3>1. a \in Activities /\ Paced(Now, a) /\ item[a] \in ItemState
      BY <1>1, <2>1 DEF Steady
    <3>2. /\ Local(a, clock.now) \in Int /\ Local(a, clock.now)' \in Int
          /\ Local(a, clock.now)' >= Local(a, clock.now)
      BY <1>1 DEF Local
    <3>3. ASSUME NEW x \in Int
          PROVE  /\ x <= Local(a, clock.now) => x <= Local(a, clock.now)'
                 /\ x < Local(a, clock.now) => x < Local(a, clock.now)'
      BY <3>2
    <3> DEFINE i == item[a]
    <3>4. i.began \in Int /\ i.lastFinished \in Int
      BY <3>1 DEF ItemState
    <3>5. /\ i.began <= Local(a, clock.now) => i.began <= Local(a, clock.now)'
          /\ i.began < Local(a, clock.now) => i.began < Local(a, clock.now)'
          /\ i.lastFinished <= Local(a, clock.now) => i.lastFinished <= Local(a, clock.now)'
      BY <3>3, <3>4
    <3>6. /\ First(a)' = First(a) /\ Now'.item[a] = i /\ Now.item[a] = i
          /\ Now'.offset = Now.offset
          /\ \A from, to : PointIn(a, from, to)' = PointIn(a, from, to)
      BY DEF First, Now, PointIn, Point
    <3> HIDE DEF i
    <3> QED
      BY <3>1, <3>5, <3>6 DEF Paced
  <2> QED
    BY <2>2, <2>3
<1> QED
  BY <1>2, <1>3, <1>4 DEF Pace

\* Afterwards nothing is said.
LEMMA ChangePaced ==
  ASSUME Pace, changes' = changes + 1, plan' = plan,
         \A a \in Activities : item'[a].phase = item[a].phase \/ item'[a].phase # "started"
  PROVE  Pace' /\ CatchesUp
<1>1. changes' \in Nat /\ changes' # 0
  BY DEF Pace
<1>2. CatchesUp
  BY DEF CatchesUp, Begins
<1>3. SmartStarts'
  BY DEF Pace, SmartStarts
<1> QED
  BY <1>1, <1>2, <1>3 DEF Pace

\* A schedule without precise times was given no start.
LEMMA SmartStartIs ==
  ASSUME NEW spec \in Specification, CreateSchedule(spec) # Error,
         CreateSchedule(spec).kind = "smart"
  PROVE  CreateSchedule(spec).start = DayOne
<1> DEFINE interval == StringToInterval(spec.interval, ~spec.precise)
           schedule == [kind     |-> IF spec.relative THEN "relative"
                                     ELSE IF spec.precise THEN "precise" ELSE "smart",
                        start    |-> spec.start,
                        end      |-> spec.end,
                        interval |-> interval,
                        skip     |-> spec.skip,
                        local    |-> IsLocal(spec)]
<1> HIDE DEF interval
<1>1. CASE spec.recurs
  <2>1. CreateSchedule(spec) = schedule /\ (~spec.precise => spec.start = DayOne)
    BY <1>1 DEF CreateSchedule, interval
  <2>2. spec.precise => schedule.kind # "smart"
    OBVIOUS
  <2>3. schedule.start = spec.start
    OBVIOUS
  <2> HIDE DEF schedule
  <2> QED
    BY <2>1, <2>2, <2>3
<1>2. CASE ~spec.recurs
  <2>1. CreateSchedule(spec) = [schedule EXCEPT !.kind = "once", !.interval = 1,
                                                !.end = Unbounded, !.skip = FALSE]
    BY <1>2 DEF CreateSchedule, interval
  <2>2. CreateSchedule(spec).kind = "once"
    BY <2>1
  <2> QED
    BY <2>2
<1> QED
  BY <1>1, <1>2

LEMMA InitPaced == ClockSet /\ Init => Pace
<1> SUFFICES ASSUME ClockSet, Init PROVE Pace
  OBVIOUS
<1>1. SmartStarts
  <2> SUFFICES ASSUME NEW a \in Activities, plan[a].kind = "smart" PROVE plan[a].start = DayOne
    BY DEF SmartStarts
  <2>1. plan \in [Activities -> {CreateSchedule(spec) : spec \in UNION Range(Specs)} \ {Error}]
    BY DEF Init
  <2>2. PICK spec \in Specs[a] : plan[a] = CreateSchedule(spec)
    BY DEF Init
  <2>3. spec \in Specification /\ CreateSchedule(spec) # Error
    BY <2>1, <2>2, SchedulerAssumption
  <2> QED
    BY <2>2, <2>3, SmartStartIs
<1>2. Timely(Now)
  <2>1. clock.zone \in Zones /\ clock.now = Start
    BY SchedulerAssumption DEF Init
  <2> QED
    BY <2>1, SchedulerAssumption DEF Timely, Init, Now
<1>3. ASSUME NEW a \in Steady PROVE Paced(Now, a)
  <2>1. item[a].phase = "idle" /\ item[a].began = Never /\ item[a].lastFinished = Never
    BY DEF Init, Steady
  <2> QED
    BY <2>1 DEF Paced, Now
<1> QED
  BY <1>1, <1>2, <1>3 DEF Pace, Init

LEMMA NextPaced ==
  ASSUME ClockSet, Sound, Pace, [Next]_vars
  PROVE  Pace' /\ CatchesUp
<1>1. TypeOK /\ clock.now \in Int /\ clock.zone \in Int
  BY DEF Sound, TypeOK
<1>2. ASSUME NEW a \in Activities,
             QueueItem(a) \/ UnQueueItem(a) \/ ClearSchedule(a) \/ FinishItem(a)
      PROVE  Pace' /\ CatchesUp
  BY <1>2, QueueItemPaced, UnQueueItemPaced, ClearSchedulePaced, FinishItemPaced
<1>3. CASE Tick
  <2>1. /\ item' = item /\ offset' = offset /\ plan' = plan /\ changes' = changes
        /\ clock' = [clock EXCEPT !.now = clock.now + Step]
    BY <1>3 DEF Tick
  <2>2. clock'.zone = clock.zone /\ clock'.now = clock.now + Step
    BY <2>1 DEF Sound, TypeOK
  <2>3. clock'.now \in Int /\ clock'.now >= clock.now
    BY <1>1, <2>2, SchedulerAssumption
  <2> QED
    BY <1>1, <2>1, <2>2, <2>3, RestPaced
<1>4. ASSUME NEW now \in {Start, MaxClock}, SetTime(now) PROVE Pace' /\ CatchesUp
  BY <1>4, ChangePaced DEF SetTime, Change
<1>5. ASSUME NEW zone \in Zones, SetZone(zone) PROVE Pace' /\ CatchesUp
  BY <1>5, ChangePaced DEF SetZone, Change
<1>6. CASE HandleSystemTimeResponse
  BY <1>6, HandleSystemTimeResponsePaced
<1>7. ASSUME \/ \E outcome \in {"ok", "error", "refuse"} : PowerdReads(outcome)
             \/ HandleTimeoutResponse \/ AlarmGoesOff \/ UNCHANGED vars
      PROVE  Pace' /\ CatchesUp
  <2>1. item' = item /\ offset' = offset /\ plan' = plan /\ changes' = changes /\ clock' = clock
    BY <1>7 DEF PowerdReads, HandleTimeoutResponse, AlarmGoesOff, vars
  <2> QED
    BY <1>1, <2>1, RestPaced
<1>8. CASE Wake
  BY <1>8, WakePaced
<1>9. CASE Restart
  <2>1. /\ changes' = changes + 1 /\ plan' = plan
        /\ item' = [a \in Activities |->
             IF item[a].phase = "gone" THEN item[a]
             ELSE [item[a] EXCEPT !.phase = "idle", !.scheduled = FALSE,
                     !.lastFinished = SetLastFinishedTime(plan[a], item[a].stored, clock.now)]]
    BY <1>9 DEF Restart, Change
  <2>2. item \in [Activities -> ItemState]
    BY <1>1 DEF TypeOK, Now, SchedulerState
  <2>3. ASSUME NEW a \in Activities
        PROVE  item'[a].phase = item[a].phase \/ item'[a].phase # "started"
    BY <2>1, <2>2 DEF ItemState
  <2> QED
    BY <2>1, <2>3, ChangePaced
<1> QED
  BY <1>2, <1>3, <1>4, <1>5, <1>6, <1>7, <1>8, <1>9 DEF Next

-----------------------------------------------------------------------------
(* Theorems.                                                               *)

\* An Activity is in the queue of its kind exactly while its schedule is queued;
\* the queues stay in the order they are dequeued in, though times change and
\* schedules go; and whenever one could be started a wake-up is set, for no later
\* than the first start (Scheduler.cpp, AddItem, RemoveItem, ReQueue and
\* DequeueAndUpdateTimeout): for any schedules, zones and faults.
THEOREM WakeUpSet == Spec => []Consistent
<1>1. Sound => Consistent
  BY DEF Sound, InPlace, Consistent
<1> QED
  BY <1>1, SoundAlways, PTL

\* The wake-up the Scheduler holds to be set is the alarm of the power daemon, or
\* the last of what it has yet to read, or is about to be asked for again; unless
\* the daemon refused, or is waking it up (PowerdScheduler.cpp, UpdateTimeout,
\* CancelTimeout and the handlers of their responses).
THEOREM DaemonHeard == Spec => []DaemonAgrees
<1>1. Sound => DaemonAgrees
  BY DEF Sound, InPlace, Heard, DaemonAgrees
<1> QED
  BY <1>1, SoundAlways, PTL

\* Between two starts of an Activity that recurs, and whose schedule is not relative
\* to its last run, lies one of its scheduling points: however late it is started and
\* finished, the points it missed are made up for once (IntervalSchedule.cpp,
\* CalcNextStartTime, with Scheduler.cpp, TimeChanged and DequeueAndUpdateTimeout);
\* while neither time nor zone is set and the Manager runs on, from a clock that is set.
THEOREM CaughtUpOnce ==
  ASSUME ClockSet
  PROVE  Spec => CatchUpOnce
<1>1. Sound /\ Pace /\ [Next]_vars => Pace' /\ CatchesUp
  BY NextPaced
<1>2. Init => Pace
  BY InitPaced
<1>3. Spec => [][CatchesUp]_vars
  <2>1. Sound /\ Pace /\ [Next]_vars => [CatchesUp]_vars
    BY <1>1
  <2> QED
    BY <1>1, <1>2, <2>1, SoundAlways, PTL DEF Spec
<1>4. CatchUpOnce <=> [][CatchesUp]_vars
  BY DEF CatchUpOnce, CatchesUp
<1> QED
  BY <1>3, <1>4
=============================================================================
