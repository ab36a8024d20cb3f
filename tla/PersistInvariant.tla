--------------------------- MODULE PersistInvariant ---------------------------
(***************************************************************************)
(* What holds of the persist commands, for every value of the constants of *)
(* Persist: the invariant Sound, and lemmas that it is kept.               *)
(*                                                                         *)
(* First, what the operators of Persist do to the chains and to what is    *)
(* hooked. Then the commands are jobs in an order: of the chains it only   *)
(* matters which job comes before which. The invariant is stated of the    *)
(* Activities, the jobs, their order, the tokens, the records and the      *)
(* calls under way; and each change of these is shown to keep it. The      *)
(* steps of Persist are put together of these changes in PersistProofs.    *)
(***************************************************************************)
EXTENDS Persist, FiniteSetTheorems, SequenceTheorems, WellFoundedInduction, TLAPS

-----------------------------------------------------------------------------
(* Sets.                                                                   *)

\* A finite set of numbers has a greatest.
LEMMA MaxInSet ==
  ASSUME NEW S \in SUBSET Nat, IsFiniteSet(S), S # {}
  PROVE  \E m \in S : \A x \in S : m >= x
PROOF
<1> DEFINE NoMax == {U \in FiniteSubsetsOf(Nat) : U # {} /\ \A m \in U : \E x \in U : ~(m >= x)}
<1>1. SUFFICES ASSUME ~(\E m \in S : \A x \in S : m >= x)
               PROVE  FALSE
  OBVIOUS
<1>2. S \in NoMax
  BY <1>1, SMT DEF FiniteSubsetsOf
<1>3. PICK U \in NoMax : \A y \in NoMax : ~(<<y, U>> \in StrictSubsetOrdering(Nat))
  <2> HIDE DEF NoMax
  <2>1. IsWellFoundedOn(StrictSubsetOrdering(Nat), FiniteSubsetsOf(Nat))
    BY FS_StrictSubsetOrderingWellFounded
  <2>2. NoMax \subseteq FiniteSubsetsOf(Nat)
    BY DEF NoMax
  <2> QED
    BY <1>2, <2>1, <2>2, WFMin, Zenon
<1>4. U \in SUBSET Nat /\ IsFiniteSet(U) /\ U # {}
  BY DEF FiniteSubsetsOf
<1>5. PICK m \in U : TRUE
  BY <1>4
<1>6. IsFiniteSet(U \ {m}) /\ (U \ {m}) \in SUBSET Nat
  BY <1>4, FS_RemoveElement
<1>7. U \ {m} \notin NoMax
  BY <1>3, <1>5, <1>6 DEF StrictSubsetOrdering, FiniteSubsetsOf
<1>8. CASE U \ {m} = {}
  BY <1>4, <1>5, <1>8
<1>9. CASE U \ {m} # {}
  <2>1. PICK n \in U \ {m} : \A x \in U \ {m} : n >= x
    BY <1>6, <1>7, <1>9 DEF FiniteSubsetsOf
  <2>2. m \in Nat /\ n \in Nat
    BY <1>4, <1>5
  <2>3. CASE m >= n
    <3>1. \A x \in U : m >= x
      BY <1>4, <2>1, <2>2, <2>3
    <3> QED
      BY <3>1, <1>5
  <2>4. CASE ~(m >= n)
    <3>1. \A x \in U : n >= x
      BY <1>4, <2>1, <2>2, <2>4
    <3> QED
      BY <3>1, <2>1
  <2> QED
    BY <2>3, <2>4
<1> QED
  BY <1>8, <1>9

\* Unused yields what is not in use.
LEMMA UnusedIsFresh ==
  ASSUME NEW used, IsFiniteSet(used)
  PROVE  /\ Cardinality(used) \in Nat
         /\ Unused(used) \in 1..(Cardinality(used) + 1)
         /\ Unused(used) \notin used
PROOF
<1> DEFINE n == Cardinality(used)
<1>1. n \in Nat
  BY FS_CardinalityType
<1>2. IsFiniteSet(1..(n + 1)) /\ Cardinality(1..(n + 1)) = n + 1
  BY <1>1, FS_Interval
<1>3. ~(1..(n + 1) \subseteq used)
  <2>1. SUFFICES ASSUME 1..(n + 1) \subseteq used
                 PROVE  FALSE
    OBVIOUS
  <2>2. Cardinality(1..(n + 1)) <= n
    BY <2>1, FS_Subset
  <2> QED
    BY <1>1, <1>2, <2>2
<1>4. \E i \in 1..(n + 1) : i \notin used
  BY <1>3
<1> HIDE DEF n
<1> QED
  BY <1>1, <1>4 DEF Unused, n

-----------------------------------------------------------------------------
(* Chains.                                                                 *)

\* What of a command does not change while it waits and is sent.
Job(c) == [id |-> c.id, kind |-> c.kind, of |-> c.of, finish |-> c.finish]

\* The jobs of a chain, and of all chains.
JobsIn(chain) == {Job(chain[i]) : i \in DOMAIN chain}
Jobs(Q) == UNION {JobsIn(chain) : chain \in Q}

\* Which job comes before which.
Order(Q) ==
  {p \in Jobs(Q) \X Jobs(Q) : \E chain \in Q : \E i, j \in DOMAIN chain :
     i < j /\ p = <<Job(chain[i]), Job(chain[j])>>}

\* The ids of the commands in the chains.
IdsIn(Q) == {c.id : c \in UNION {ToSet(chain) : chain \in Q}}

\* A command is in one place.
Chained(Q) ==
  /\ Q \subseteq Seq(Command) \ {<< >>}
  /\ \A p, q \in Q : \A i \in DOMAIN p, j \in DOMAIN q : p[i].id = q[j].id => p = q /\ i = j
  /\ IsFiniteSet(IdsIn(Q))

\* What is hooked is what is in the chains, those of an Activity in one chain
\* and in order.
HookedIn(A, Q) ==
  /\ \A q \in Q : \A i \in DOMAIN q :
       \E k \in DOMAIN A[q[i].of].hooked : A[q[i].of].hooked[k] = q[i].id
  /\ \A a \in Activities : \A k \in DOMAIN A[a].hooked :
       \E q \in Q : \E i \in DOMAIN q : q[i].id = A[a].hooked[k] /\ q[i].of = a
  /\ \A a \in Activities : \A k, l \in DOMAIN A[a].hooked : k < l =>
       \A p, q \in Q : \A i \in DOMAIN p, j \in DOMAIN q :
         p[i].id = A[a].hooked[k] /\ q[j].id = A[a].hooked[l] => p = q /\ i < j

LEMMA JobMember ==
  ASSUME NEW Q, NEW x
  PROVE  x \in Jobs(Q) <=> \E q \in Q : \E i \in DOMAIN q : x = Job(q[i])
PROOF
<1> QED
  BY DEF Jobs, JobsIn

LEMMA OrderMember ==
  ASSUME NEW Q, NEW x, NEW y
  PROVE  <<x, y>> \in Order(Q) <=>
           \E q \in Q : \E i, j \in DOMAIN q : i < j /\ x = Job(q[i]) /\ y = Job(q[j])
PROOF
<1>1. ASSUME NEW q \in Q, NEW i \in DOMAIN q
      PROVE  Job(q[i]) \in Jobs(Q)
  BY JobMember
<1> QED
  BY <1>1, Zenon DEF Order

LEMMA IdMember ==
  ASSUME NEW Q, NEW x
  PROVE  x \in IdsIn(Q) <=> \E q \in Q : \E i \in DOMAIN q : x = q[i].id
PROOF
<1> QED
  BY DEF IdsIn, ToSet

LEMMA JobFields ==
  ASSUME NEW c
  PROVE  /\ Job(c).id = c.id /\ Job(c).kind = c.kind
         /\ Job(c).of = c.of /\ Job(c).finish = c.finish
PROOF
<1> QED
  BY DEF Job

\* What appending does to a chain.
LEMMA Appended ==
  ASSUME NEW S, NEW ch \in Seq(S), NEW c \in S
  PROVE  /\ Append(ch, c) \in Seq(S) /\ Append(ch, c) # << >>
         /\ Len(ch) \in Nat
         /\ DOMAIN ch = 1..Len(ch)
         /\ DOMAIN Append(ch, c) = 1..(Len(ch) + 1)
         /\ Len(ch) + 1 \notin DOMAIN ch
         /\ DOMAIN Append(ch, c) = DOMAIN ch \cup {Len(ch) + 1}
         /\ \A i \in DOMAIN ch : Append(ch, c)[i] = ch[i] /\ i < Len(ch) + 1
         /\ Append(ch, c)[Len(ch) + 1] = c
PROOF
<1> QED
  OBVIOUS

\* The chain goes on with one more command, or begins with it.
Extended(Q, ch, c) == (Q \ {ch}) \cup {Append(ch, c)}

LEMMA ChainedCommand ==
  ASSUME NEW Q, Chained(Q), NEW q \in Q
  PROVE  /\ q \in Seq(Command) /\ q # << >> /\ Len(q) \in Nat \ {0}
         /\ DOMAIN q = 1..Len(q) /\ 1 \in DOMAIN q
         /\ \A i \in DOMAIN q : q[i] \in Command /\ i \in Nat /\ i >= 1
         /\ Head(q) = q[1]
PROOF
<1> QED
  BY DEF Chained

\* A command is appended to a chain, or begins one.
LEMMA ExtendChained ==
  ASSUME NEW Q, Chained(Q), NEW ch \in Q \cup {<< >>}, NEW c \in Command, c.id \notin IdsIn(Q)
  PROVE  /\ Chained(Extended(Q, ch, c))
         /\ IdsIn(Extended(Q, ch, c)) = IdsIn(Q) \cup {c.id}
         /\ \A x : x \in Jobs(Extended(Q, ch, c)) <=> x \in Jobs(Q) \/ x = Job(c)
         /\ \A x, y : <<x, y>> \in Order(Extended(Q, ch, c)) <=>
                        <<x, y>> \in Order(Q) \/ (x \in JobsIn(ch) /\ y = Job(c))
         /\ Job(c) \notin Jobs(Q)
PROOF
<1> DEFINE n == Append(ch, c)
           R == Extended(Q, ch, c)
           l == Len(ch) + 1
<1>1. ch \in Seq(Command)
  <2>1. CASE ch = << >>
    BY <2>1, EmptySeq
  <2>2. CASE ch \in Q
    BY <2>2 DEF Chained
  <2> QED
    BY <2>1, <2>2
<1>2. /\ n \in Seq(Command) /\ n # << >> /\ Len(ch) \in Nat
      /\ DOMAIN n = DOMAIN ch \cup {l} /\ l \notin DOMAIN ch
      /\ \A i \in DOMAIN ch : n[i] = ch[i] /\ i < l
      /\ n[l] = c
      /\ DOMAIN ch = 1..Len(ch)
  BY <1>1, Appended
<1>3. \A q \in Q : \A i \in DOMAIN q : q[i].id # c.id
  BY IdMember
<1>4. DOMAIN << >> = {}
  OBVIOUS
<1>5. \A q \in R : (q \in Q /\ q # ch) \/ q = n
  BY DEF Extended
<1>6. n \in R /\ (\A q \in Q : q # ch => q \in R)
  BY DEF Extended
<1> HIDE DEF n, R, l
<1>7. \A q \in Q : \A i \in DOMAIN q : \E p \in R : i \in DOMAIN p /\ p[i] = q[i]
  BY <1>2, <1>6
<1>8. \A p \in R : \A i \in DOMAIN p :
        (\E q \in Q : i \in DOMAIN q /\ p[i] = q[i]) \/ (p = n /\ i = l /\ p[i] = c)
  BY <1>2, <1>4, <1>5
<1>9. \A x : x \in IdsIn(R) <=> x \in IdsIn(Q) \cup {c.id}
  <2>1. ASSUME NEW x \in IdsIn(R)
        PROVE  x \in IdsIn(Q) \cup {c.id}
    BY <2>1, <1>8, IdMember
  <2>2. ASSUME NEW x \in IdsIn(Q) \cup {c.id}
        PROVE  x \in IdsIn(R)
    <3>1. CASE x = c.id
      BY <3>1, <1>2, <1>6, IdMember
    <3>2. CASE x \in IdsIn(Q)
      BY <3>2, <1>7, IdMember
    <3> QED
      BY <3>1, <3>2
  <2> QED
    BY <2>1, <2>2
<1>10. IdsIn(R) = IdsIn(Q) \cup {c.id}
  BY <1>9
<1>11. Chained(R)
  <2>1. R \subseteq Seq(Command) \ {<< >>}
    BY <1>2, <1>5 DEF Chained
  <2>2. ASSUME NEW p \in R, NEW q \in R, NEW i \in DOMAIN p, NEW j \in DOMAIN q, p[i].id = q[j].id
        PROVE  p = q /\ i = j
    <3>1. CASE p # n /\ q # n
      BY <3>1, <2>2, <1>5 DEF Chained
    <3>2. CASE p = n /\ q = n
      <4>1. CASE i = l \/ j = l
        BY <4>1, <3>2, <2>2, <1>2, <1>3, <1>4
      <4>2. CASE i # l /\ j # l
        <5>1. ch \in Q /\ i \in DOMAIN ch /\ j \in DOMAIN ch /\ ch[i].id = ch[j].id
          BY <4>2, <3>2, <2>2, <1>2, <1>4
        <5> QED
          BY <5>1, <3>2 DEF Chained
      <4> QED
        BY <4>1, <4>2
    <3>3. ASSUME NEW u \in Q, u # ch, NEW k \in DOMAIN u, NEW m \in DOMAIN n, u[k].id = n[m].id
          PROVE  FALSE
      <4>1. m # l
        BY <3>3, <1>2, <1>3
      <4>2. ch \in Q /\ m \in DOMAIN ch /\ ch[m].id = u[k].id
        BY <4>1, <3>3, <1>2, <1>4
      <4> QED
        BY <4>2, <3>3 DEF Chained
    <3> QED
      BY <3>1, <3>2, <3>3, <2>2, <1>5
  <2>3. IsFiniteSet(IdsIn(R))
    BY <1>10, FS_AddElement DEF Chained
  <2> QED
    BY <2>1, <2>2, <2>3 DEF Chained
<1>12. ASSUME NEW x
       PROVE  x \in Jobs(R) <=> x \in Jobs(Q) \/ x = Job(c)
  <2>1. ASSUME x \in Jobs(R)
        PROVE  x \in Jobs(Q) \/ x = Job(c)
    BY <2>1, <1>8, JobMember
  <2>2. ASSUME x \in Jobs(Q) \/ x = Job(c)
        PROVE  x \in Jobs(R)
    <3>1. CASE x = Job(c)
      BY <3>1, <1>2, <1>6, JobMember
    <3>2. CASE x \in Jobs(Q)
      BY <3>2, <1>7, JobMember
    <3> QED
      BY <3>1, <3>2, <2>2
  <2> QED
    BY <2>1, <2>2
<1>13. ASSUME NEW x, NEW y
       PROVE  <<x, y>> \in Order(R) <=> <<x, y>> \in Order(Q) \/ (x \in JobsIn(ch) /\ y = Job(c))
  <2>1. ASSUME <<x, y>> \in Order(R)
        PROVE  <<x, y>> \in Order(Q) \/ (x \in JobsIn(ch) /\ y = Job(c))
    <3>1. PICK p \in R : \E i, j \in DOMAIN p : i < j /\ x = Job(p[i]) /\ y = Job(p[j])
      BY <2>1, OrderMember
    <3>2. PICK i \in DOMAIN p, j \in DOMAIN p : i < j /\ x = Job(p[i]) /\ y = Job(p[j])
      BY <3>1
    <3>3. CASE p # n
      BY <3>2, <3>3, <1>5, OrderMember
    <3>4. CASE p = n /\ j # l
      <4>1. j \in DOMAIN ch /\ i \in DOMAIN ch
        BY <3>2, <3>4, <1>2 DEF l
      <4>2. ch \in Q
        BY <4>1, <1>4
      <4> QED
        BY <4>1, <4>2, <3>2, <3>4, <1>2, OrderMember
    <3>5. CASE p = n /\ j = l
      <4>1. i \in DOMAIN ch
        BY <3>2, <3>5, <1>2 DEF l
      <4> QED
        BY <4>1, <3>2, <3>5, <1>2 DEF JobsIn
    <3> QED
      BY <3>3, <3>4, <3>5
  <2>2. ASSUME <<x, y>> \in Order(Q)
        PROVE  <<x, y>> \in Order(R)
    <3>1. PICK q \in Q : \E i, j \in DOMAIN q : i < j /\ x = Job(q[i]) /\ y = Job(q[j])
      BY <2>2, OrderMember
    <3>2. CASE q # ch
      BY <3>1, <3>2, <1>6, OrderMember
    <3>3. CASE q = ch
      BY <3>1, <3>3, <1>2, <1>6, OrderMember
    <3> QED
      BY <3>2, <3>3
  <2>3. ASSUME x \in JobsIn(ch), y = Job(c)
        PROVE  <<x, y>> \in Order(R)
    <3>1. PICK i \in DOMAIN ch : x = Job(ch[i])
      BY <2>3 DEF JobsIn
    <3> QED
      BY <3>1, <2>3, <1>2, <1>6, OrderMember
  <2> QED
    BY <2>1, <2>2, <2>3
<1>14. Job(c) \notin Jobs(Q)
  BY <1>3, JobMember, JobFields
<1> QED
  BY <1>10, <1>11, <1>12, <1>13, <1>14 DEF R

\* What is hooked is a list of ids.
Hooks(A) == \A a \in Activities : A[a].hooked \in Seq(Ids)

\* Nothing that is hooked changes.
LEMMA HookedSame ==
  ASSUME NEW A, NEW Q, HookedIn(A, Q), Hooks(A), Chained(Q),
         NEW A2, \A a \in Activities : A2[a].hooked = A[a].hooked
  PROVE  HookedIn(A2, Q) /\ Hooks(A2)
PROOF
<1>1. \A q \in Q : \A i \in DOMAIN q : q[i].of \in Activities
  BY ChainedCommand DEF Command
<1>2. ASSUME NEW q \in Q, NEW i \in DOMAIN q
      PROVE  \E k \in DOMAIN A2[q[i].of].hooked : A2[q[i].of].hooked[k] = q[i].id
  <2>1. A2[q[i].of].hooked = A[q[i].of].hooked
    BY <1>1
  <2> QED
    BY <2>1 DEF HookedIn
<1>3. ASSUME NEW a \in Activities
      PROVE  A2[a].hooked = A[a].hooked
  OBVIOUS
<1> QED
  BY <1>2, <1>3 DEF HookedIn, Hooks

\* And it is hooked to its Activity.
LEMMA ExtendHooked ==
  ASSUME NEW A, NEW Q, HookedIn(A, Q), Hooks(A), Chained(Q),
         NEW ch \in Q \cup {<< >>}, NEW c \in Command, c.id \notin IdsIn(Q),
         \A k \in DOMAIN A[c.of].hooked : \E i \in DOMAIN ch : ch[i].id = A[c.of].hooked[k],
         NEW A2,
         \A a \in Activities :
           A2[a].hooked = IF a = c.of THEN Append(A[a].hooked, c.id) ELSE A[a].hooked
  PROVE  HookedIn(A2, Extended(Q, ch, c)) /\ Hooks(A2)
PROOF
<1> DEFINE n == Append(ch, c)
           R == Extended(Q, ch, c)
           l == Len(ch) + 1
           old == A[c.of].hooked
           new == A2[c.of].hooked
           m == Len(old) + 1
<1>1. ch \in Seq(Command)
  <2>1. CASE ch = << >>
    BY <2>1, EmptySeq
  <2>2. CASE ch \in Q
    BY <2>2 DEF Chained
  <2> QED
    BY <2>1, <2>2
<1>2. /\ n \in Seq(Command) /\ n # << >> /\ Len(ch) \in Nat
      /\ DOMAIN n = DOMAIN ch \cup {l} /\ l \notin DOMAIN ch
      /\ \A i \in DOMAIN ch : n[i] = ch[i] /\ i < l
      /\ n[l] = c
      /\ DOMAIN ch = 1..Len(ch)
  BY <1>1, Appended
<1>3. c.of \in Activities /\ c.id \in Ids
  BY DEF Command
<1>4. old \in Seq(Ids) /\ new = Append(old, c.id)
  BY <1>3 DEF Hooks
<1>5. /\ new \in Seq(Ids) /\ Len(old) \in Nat
      /\ DOMAIN new = DOMAIN old \cup {m} /\ m \notin DOMAIN old
      /\ \A i \in DOMAIN old : new[i] = old[i] /\ i < m
      /\ new[m] = c.id
      /\ DOMAIN old = 1..Len(old)
  BY <1>3, <1>4, Appended
<1>6. \A q \in Q : \A i \in DOMAIN q : q[i].id # c.id
  BY IdMember
<1>7. DOMAIN << >> = {}
  OBVIOUS
<1>8. n \in R /\ (\A q \in Q : q # ch => q \in R)
  BY DEF Extended
<1>9. \A q \in R : (q \in Q /\ q # ch) \/ q = n
  BY DEF Extended
<1>10. \A a \in Activities : a # c.of => A2[a].hooked = A[a].hooked
  OBVIOUS
<1>11. \A k \in DOMAIN old : \E i \in DOMAIN ch : ch[i].id = old[k]
  OBVIOUS
<1>12. Chained(R)
  BY ExtendChained
<1> HIDE DEF n, R, l, old, new, m
<1>13. \A q \in Q : \A i \in DOMAIN q : \E p \in R : i \in DOMAIN p /\ p[i] = q[i]
  BY <1>2, <1>8
<1>14. \A p \in R : \A i \in DOMAIN p :
        (\E q \in Q : i \in DOMAIN q /\ p[i] = q[i]) \/ (p = n /\ i = l /\ p[i] = c)
  BY <1>2, <1>7, <1>9
<1>15. ASSUME NEW a \in Activities, NEW k \in DOMAIN A2[a].hooked
       PROVE  \/ k \in DOMAIN A[a].hooked /\ A2[a].hooked[k] = A[a].hooked[k]
              \/ a = c.of /\ k = m /\ A2[a].hooked[k] = c.id
  <2>1. CASE a = c.of
    BY <2>1, <1>5 DEF new, old
  <2>2. CASE a # c.of
    BY <2>2, <1>10
  <2> QED
    BY <2>1, <2>2
<1>16. ASSUME NEW a \in Activities, NEW k \in DOMAIN A[a].hooked
       PROVE  k \in DOMAIN A2[a].hooked /\ A2[a].hooked[k] = A[a].hooked[k]
  <2>1. CASE a = c.of
    BY <2>1, <1>5 DEF new, old
  <2>2. CASE a # c.of
    BY <2>2, <1>10
  <2> QED
    BY <2>1, <2>2
<1>17. ASSUME NEW q \in R, NEW i \in DOMAIN q
       PROVE  \E k \in DOMAIN A2[q[i].of].hooked : A2[q[i].of].hooked[k] = q[i].id
  <2>1. CASE q[i] = c
    BY <2>1, <1>5 DEF new
  <2>2. CASE \E u \in Q : i \in DOMAIN u /\ q[i] = u[i]
    <3>1. PICK u \in Q : i \in DOMAIN u /\ q[i] = u[i]
      BY <2>2
    <3>2. q[i].of \in Activities
      BY <3>1, ChainedCommand DEF Command
    <3>3. \E k \in DOMAIN A[q[i].of].hooked : A[q[i].of].hooked[k] = q[i].id
      BY <3>1 DEF HookedIn
    <3> QED
      BY <3>2, <3>3, <1>16
  <2> QED
    BY <2>1, <2>2, <1>14
<1>18. ASSUME NEW a \in Activities, NEW k \in DOMAIN A2[a].hooked
       PROVE  \E q \in R : \E i \in DOMAIN q : q[i].id = A2[a].hooked[k] /\ q[i].of = a
  <2>1. CASE a = c.of /\ A2[a].hooked[k] = c.id
    BY <2>1, <1>2, <1>8
  <2>2. CASE k \in DOMAIN A[a].hooked /\ A2[a].hooked[k] = A[a].hooked[k]
    <3>1. PICK q \in Q : \E i \in DOMAIN q : q[i].id = A[a].hooked[k] /\ q[i].of = a
      BY <2>2 DEF HookedIn
    <3> QED
      BY <3>1, <2>2, <1>13
  <2> QED
    BY <2>1, <2>2, <1>15
<1>19. ASSUME NEW a \in Activities, NEW j \in DOMAIN A2[a].hooked, NEW k \in DOMAIN A2[a].hooked, j < k,
              NEW p \in R, NEW q \in R, NEW u \in DOMAIN p, NEW v \in DOMAIN q,
              p[u].id = A2[a].hooked[j], q[v].id = A2[a].hooked[k]
       PROVE  p = q /\ u < v
  <2>1. CASE j \in DOMAIN A[a].hooked /\ k \in DOMAIN A[a].hooked
    <3>1. PICK y \in Q : \E w \in DOMAIN y : y[w].id = A[a].hooked[j] /\ y[w].of = a
      BY <2>1 DEF HookedIn
    <3>2. PICK w \in DOMAIN y : y[w].id = A[a].hooked[j]
      BY <3>1
    <3>3. PICK z \in Q : \E x \in DOMAIN z : z[x].id = A[a].hooked[k] /\ z[x].of = a
      BY <2>1 DEF HookedIn
    <3>4. PICK x \in DOMAIN z : z[x].id = A[a].hooked[k]
      BY <3>3
    <3>5. y = z /\ w < x
      BY <3>1, <3>2, <3>3, <3>4, <1>19, <2>1 DEF HookedIn
    <3>6. PICK f \in R : /\ w \in DOMAIN f /\ f[w] = y[w]
                         /\ x \in DOMAIN f /\ f[x] = y[x]
      <4>1. CASE y = ch
        BY <4>1, <3>2, <3>4, <3>5, <1>2, <1>8
      <4>2. CASE y # ch
        BY <4>2, <3>2, <3>4, <3>5, <1>8
      <4> QED
        BY <4>1, <4>2
    <3>7. A2[a].hooked[j] = A[a].hooked[j] /\ A2[a].hooked[k] = A[a].hooked[k]
      BY <1>16, <2>1
    <3>8. f[w].id = p[u].id /\ f[x].id = q[v].id
      BY <3>2, <3>4, <3>5, <3>6, <3>7, <1>19
    <3>9. f = p /\ w = u /\ f = q /\ x = v
      BY <3>6, <3>8, <1>12, <1>19 DEF Chained
    <3> QED
      BY <3>5, <3>9
  <2>2. CASE a = c.of /\ k = m /\ j \in DOMAIN A[a].hooked
    <3>1. PICK i \in DOMAIN ch : ch[i].id = A[a].hooked[j]
      BY <2>2, <1>11 DEF old
    <3>2. i \in DOMAIN n /\ n[i].id = p[u].id /\ i < l
      BY <3>1, <2>2, <1>2, <1>16, <1>19
    <3>3. l \in DOMAIN n /\ n[l].id = q[v].id
      BY <2>2, <1>2, <1>5, <1>19 DEF new
    <3>4. n = p /\ i = u /\ n = q /\ l = v
      BY <3>2, <3>3, <1>8, <1>12, <1>19 DEF Chained
    <3> QED
      BY <3>2, <3>4
  <2>3. CASE j = m /\ a = c.of
    <3>1. k = m \/ k \in DOMAIN old
      BY <2>3, <1>15 DEF old
    <3> QED
      BY <3>1, <2>3, <1>5, <1>19 DEF m
  <2> QED
    BY <2>1, <2>2, <2>3, <1>15, <1>19
<1>20. Hooks(A2)
  <2>1. ASSUME NEW a \in Activities
        PROVE  A2[a].hooked \in Seq(Ids)
    <3>1. CASE a = c.of
      BY <3>1, <1>5 DEF new
    <3>2. CASE a # c.of
      BY <3>2, <1>10 DEF Hooks
    <3> QED
      BY <3>1, <3>2
  <2> QED
    BY <2>1 DEF Hooks
<1>21. HookedIn(A2, R)
  BY <1>17, <1>18, <1>19 DEF HookedIn
<1> QED
  BY <1>20, <1>21 DEF R

\* All that an Activity has hooked is in the chain of the first.
LEMMA ChainOfAll ==
  ASSUME NEW A, NEW Q, HookedIn(A, Q), Hooks(A), Chained(Q), NEW a \in Activities,
         A[a].hooked # << >>,
         NEW ch, ch = CHOOSE chain \in Q : \E i \in DOMAIN chain : chain[i].id = Head(A[a].hooked)
  PROVE  /\ ch \in Q
         /\ \A k \in DOMAIN A[a].hooked : \E i \in DOMAIN ch : ch[i].id = A[a].hooked[k] /\ ch[i].of = a
         /\ \A q \in Q : \A i \in DOMAIN q : q[i].of = a => q = ch
PROOF
<1> DEFINE h == A[a].hooked
<1>1. /\ h \in Seq(Ids) /\ h # << >> /\ DOMAIN h = 1..Len(h) /\ Len(h) \in Nat
      /\ 1 \in DOMAIN h /\ Head(h) = h[1]
  BY DEF Hooks
<1>2. \A k \in DOMAIN h : \E q \in Q : \E i \in DOMAIN q : q[i].id = h[k] /\ q[i].of = a
  BY DEF HookedIn
<1>3. \A k, l \in DOMAIN h : k < l =>
        \A p, q \in Q : \A i \in DOMAIN p, j \in DOMAIN q : p[i].id = h[k] /\ q[j].id = h[l] => p = q /\ i < j
  BY DEF HookedIn
<1>4. ch \in Q /\ \E i \in DOMAIN ch : ch[i].id = h[1]
  <2>1. \E q \in Q : \E i \in DOMAIN q : q[i].id = h[1]
    BY <1>1, <1>2
  <2> QED
    BY <2>1, <1>1
<1>5. PICK o \in DOMAIN ch : ch[o].id = h[1]
  BY <1>4
<1>6. ASSUME NEW k \in DOMAIN h
      PROVE  \E i \in DOMAIN ch : ch[i].id = h[k] /\ ch[i].of = a
  <2>1. PICK q \in Q : \E i \in DOMAIN q : q[i].id = h[k] /\ q[i].of = a
    BY <1>2
  <2>2. PICK i \in DOMAIN q : q[i].id = h[k] /\ q[i].of = a
    BY <2>1
  <2>3. CASE k = 1
    <3>1. q[i].id = ch[o].id
      BY <2>2, <2>3, <1>5
    <3>2. q = ch /\ i = o
      BY <3>1, <1>4 DEF Chained
    <3> QED
      BY <3>2, <2>2
  <2>4. CASE k # 1
    <3>1. 1 < k
      BY <2>4, <1>1
    <3>2. ch = q
      BY <3>1, <2>2, <1>1, <1>3, <1>4, <1>5
    <3> QED
      BY <3>2, <2>2
  <2> QED
    BY <2>3, <2>4
<1>7. ASSUME NEW q \in Q, NEW i \in DOMAIN q, q[i].of = a
      PROVE  q = ch
  <2>1. PICK k \in DOMAIN h : h[k] = q[i].id
    BY <1>7 DEF HookedIn
  <2>2. PICK j \in DOMAIN ch : ch[j].id = h[k]
    BY <1>6
  <2> QED
    BY <2>1, <2>2, <1>4 DEF Chained
<1> QED
  BY <1>4, <1>6, <1>7

\* An Activity with nothing hooked has no command, and one with a command has
\* something hooked.
LEMMA HookedJobs ==
  ASSUME NEW A, NEW Q, HookedIn(A, Q), Hooks(A), Chained(Q), NEW a \in Activities
  PROVE  A[a].hooked = << >> <=> \A c \in Jobs(Q) : c.of # a
PROOF
<1>1. A[a].hooked \in Seq(Ids)
  BY DEF Hooks
<1>2. ASSUME A[a].hooked = << >>, NEW c \in Jobs(Q), c.of = a
      PROVE  FALSE
  <2>1. PICK q \in Q : \E i \in DOMAIN q : c = Job(q[i])
    BY <1>2, JobMember
  <2>2. PICK i \in DOMAIN q : c = Job(q[i])
    BY <2>1
  <2>3. q[i].of = a
    BY <2>2, <1>2, JobFields
  <2>4. \E k \in DOMAIN A[a].hooked : A[a].hooked[k] = q[i].id
    BY <2>3 DEF HookedIn
  <2> QED
    BY <2>4, <1>2
<1>3. ASSUME A[a].hooked # << >>
      PROVE  \E c \in Jobs(Q) : c.of = a
  <2>1. 1 \in DOMAIN A[a].hooked
    BY <1>1, <1>3
  <2>2. PICK q \in Q : \E i \in DOMAIN q : q[i].of = a
    BY <2>1 DEF HookedIn
  <2>3. PICK i \in DOMAIN q : q[i].of = a
    BY <2>2
  <2>4. Job(q[i]) \in Jobs(Q) /\ Job(q[i]).of = a
    BY <2>3, JobMember, JobFields
  <2> QED
    BY <2>4
<1> QED
  BY <1>2, <1>3

\* Two commands that are one job are in one place.
LEMMA JobPlace ==
  ASSUME NEW Q, Chained(Q), NEW p \in Q, NEW q \in Q, NEW i \in DOMAIN p, NEW j \in DOMAIN q,
         Job(p[i]) = Job(q[j])
  PROVE  p = q /\ i = j
PROOF
<1>1. p[i].id = q[j].id
  BY JobFields
<1> QED
  BY <1>1 DEF Chained

\* The order of the jobs: of a chain's, and of an Activity's, of any two one is
\* before the other, and nothing is before itself.
Ordered(J, B) ==
  /\ \A x, y : <<x, y>> \in B => x \in J /\ y \in J /\ x # y /\ <<y, x>> \notin B
  /\ \A x, y, z : <<x, y>> \in B /\ <<y, z>> \in B => <<x, z>> \in B
  /\ \A x, y \in J : x.of = y.of => x = y \/ <<x, y>> \in B \/ <<y, x>> \in B
  /\ \A x, y, z : <<x, z>> \in B /\ <<y, z>> \in B => x = y \/ <<x, y>> \in B \/ <<y, x>> \in B
  /\ \A x, y, z : <<z, x>> \in B /\ <<z, y>> \in B => x = y \/ <<x, y>> \in B \/ <<y, x>> \in B

\* The jobs of the chains are in an order.
LEMMA ChainsOrdered ==
  ASSUME NEW A, NEW Q, HookedIn(A, Q), Hooks(A), Chained(Q)
  PROVE  Ordered(Jobs(Q), Order(Q))
PROOF
<1>1. ASSUME NEW x, NEW y, <<x, y>> \in Order(Q)
      PROVE  x \in Jobs(Q) /\ y \in Jobs(Q) /\ x # y /\ <<y, x>> \notin Order(Q)
  <2>1. PICK q \in Q : \E i, j \in DOMAIN q : i < j /\ x = Job(q[i]) /\ y = Job(q[j])
    BY <1>1, OrderMember
  <2>2. PICK i \in DOMAIN q, j \in DOMAIN q : i < j /\ x = Job(q[i]) /\ y = Job(q[j])
    BY <2>1
  <2>3. x \in Jobs(Q) /\ y \in Jobs(Q)
    BY <2>2, JobMember
  <2>4. i \in Nat /\ j \in Nat
    BY ChainedCommand
  <2>5. x # y
    BY <2>2, <2>4, JobPlace
  <2>6. ASSUME <<y, x>> \in Order(Q)
        PROVE  FALSE
    <3>1. PICK p \in Q : \E k, l \in DOMAIN p : k < l /\ y = Job(p[k]) /\ x = Job(p[l])
      BY <2>6, OrderMember
    <3>2. PICK k \in DOMAIN p, l \in DOMAIN p : k < l /\ y = Job(p[k]) /\ x = Job(p[l])
      BY <3>1
    <3>3. Job(q[i]) = Job(p[l]) /\ Job(q[j]) = Job(p[k])
      BY <2>2, <3>2
    <3>4. i = l
      BY <3>3, JobPlace, ZenonT(60)
    <3>5. j = k
      BY <3>3, JobPlace, ZenonT(60)
    <3> QED
      BY <3>2, <3>4, <3>5, <2>2, <2>4
  <2> QED
    BY <2>3, <2>5, <2>6
<1>2. ASSUME NEW x, NEW y, NEW z, <<x, y>> \in Order(Q), <<y, z>> \in Order(Q)
      PROVE  <<x, z>> \in Order(Q)
  <2>1. PICK q \in Q : \E i, j \in DOMAIN q : i < j /\ x = Job(q[i]) /\ y = Job(q[j])
    BY <1>2, OrderMember
  <2>2. PICK i \in DOMAIN q, j \in DOMAIN q : i < j /\ x = Job(q[i]) /\ y = Job(q[j])
    BY <2>1
  <2>3. PICK p \in Q : \E k, l \in DOMAIN p : k < l /\ y = Job(p[k]) /\ z = Job(p[l])
    BY <1>2, OrderMember
  <2>4. PICK k \in DOMAIN p, l \in DOMAIN p : k < l /\ y = Job(p[k]) /\ z = Job(p[l])
    BY <2>3
  <2>5. p = q /\ j = k
    <3>1. Job(q[j]) = Job(p[k])
      BY <2>2, <2>4
    <3> QED
      BY <3>1, JobPlace, Zenon
  <2>6. i \in Nat /\ j \in Nat /\ l \in Nat
    BY <2>5, ChainedCommand
  <2>7. i < l
    BY <2>2, <2>4, <2>5, <2>6
  <2> QED
    BY <2>2, <2>4, <2>5, <2>7, OrderMember
<1>3. ASSUME NEW q \in Q, NEW i \in DOMAIN q, NEW j \in DOMAIN q
      PROVE  \/ Job(q[i]) = Job(q[j])
             \/ <<Job(q[i]), Job(q[j])>> \in Order(Q) \/ <<Job(q[j]), Job(q[i])>> \in Order(Q)
  <2>1. i \in Nat /\ j \in Nat
    BY ChainedCommand
  <2>2. i = j \/ i < j \/ j < i
    BY <2>1
  <2> QED
    BY <2>2, OrderMember
<1>4. ASSUME NEW x \in Jobs(Q), NEW y \in Jobs(Q), x.of = y.of
      PROVE  x = y \/ <<x, y>> \in Order(Q) \/ <<y, x>> \in Order(Q)
  <2>1. PICK p \in Q : \E i \in DOMAIN p : x = Job(p[i])
    BY JobMember
  <2>2. PICK i \in DOMAIN p : x = Job(p[i])
    BY <2>1
  <2>3. PICK q \in Q : \E j \in DOMAIN q : y = Job(q[j])
    BY JobMember
  <2>4. PICK j \in DOMAIN q : y = Job(q[j])
    BY <2>3
  <2>5. p[i].of = x.of /\ q[j].of = x.of /\ x.of \in Activities
    BY <1>4, <2>2, <2>4, JobFields, ChainedCommand DEF Command
  <2>6. A[x.of].hooked # << >>
    BY <2>5, HookedJobs, JobMember
  <2>7. p = q
    <3> DEFINE ch == CHOOSE chain \in Q : \E k \in DOMAIN chain : chain[k].id = Head(A[x.of].hooked)
    <3>1. \A u \in Q : \A k \in DOMAIN u : u[k].of = x.of => u = ch
      <4> HIDE DEF ch
      <4> QED
        BY <2>5, <2>6, ChainOfAll DEF ch
    <3> HIDE DEF ch
    <3> QED
      BY <3>1, <2>5
  <2> QED
    BY <2>2, <2>4, <2>7, <1>3
<1>5. ASSUME NEW x, NEW y, NEW z, <<x, z>> \in Order(Q), <<y, z>> \in Order(Q)
      PROVE  x = y \/ <<x, y>> \in Order(Q) \/ <<y, x>> \in Order(Q)
  <2>1. PICK q \in Q : \E i, j \in DOMAIN q : i < j /\ x = Job(q[i]) /\ z = Job(q[j])
    BY <1>5, OrderMember
  <2>2. PICK i \in DOMAIN q, j \in DOMAIN q : i < j /\ x = Job(q[i]) /\ z = Job(q[j])
    BY <2>1
  <2>3. PICK p \in Q : \E k, l \in DOMAIN p : k < l /\ y = Job(p[k]) /\ z = Job(p[l])
    BY <1>5, OrderMember
  <2>4. PICK k \in DOMAIN p, l \in DOMAIN p : k < l /\ y = Job(p[k]) /\ z = Job(p[l])
    BY <2>3
  <2>5. p = q
    BY <2>2, <2>4, JobPlace
  <2> QED
    BY <2>2, <2>4, <2>5, <1>3
<1>6. ASSUME NEW x, NEW y, NEW z, <<z, x>> \in Order(Q), <<z, y>> \in Order(Q)
      PROVE  x = y \/ <<x, y>> \in Order(Q) \/ <<y, x>> \in Order(Q)
  <2>1. PICK q \in Q : \E i, j \in DOMAIN q : i < j /\ z = Job(q[i]) /\ x = Job(q[j])
    BY <1>6, OrderMember
  <2>2. PICK i \in DOMAIN q, j \in DOMAIN q : i < j /\ z = Job(q[i]) /\ x = Job(q[j])
    BY <2>1
  <2>3. PICK p \in Q : \E k, l \in DOMAIN p : k < l /\ z = Job(p[k]) /\ y = Job(p[l])
    BY <1>6, OrderMember
  <2>4. PICK k \in DOMAIN p, l \in DOMAIN p : k < l /\ z = Job(p[k]) /\ y = Job(p[l])
    BY <2>3
  <2>5. p = q
    BY <2>2, <2>4, JobPlace
  <2> QED
    BY <2>2, <2>4, <2>5, <1>3
<1> QED
  BY <1>1, <1>2, <1>4, <1>5, <1>6 DEF Ordered

\* A chain whose commands change, but not their jobs.
LEMMA SameJobs ==
  ASSUME NEW A, NEW Q, HookedIn(A, Q), Chained(Q), NEW q \in Q,
         NEW n \in Seq(Command), DOMAIN n = DOMAIN q, \A i \in DOMAIN q : Job(n[i]) = Job(q[i]),
         NEW R, R = (Q \ {q}) \cup {n}
  PROVE  /\ Chained(R) /\ HookedIn(A, R)
         /\ IdsIn(R) = IdsIn(Q) /\ Jobs(R) = Jobs(Q) /\ Order(R) = Order(Q)
PROOF
<1>1. 1 \in DOMAIN n
  BY ChainedCommand
<1>2. \A p \in Q : \A i \in DOMAIN p : \E u \in R : i \in DOMAIN u /\ Job(u[i]) = Job(p[i]) /\
        ((p = q /\ u = n) \/ (p # q /\ u = p))
  BY Zenon
<1>3. \A u \in R : \A i \in DOMAIN u : \E p \in Q : i \in DOMAIN p /\ Job(u[i]) = Job(p[i]) /\
        ((p = q /\ u = n) \/ (p # q /\ u = p))
  BY Zenon
<1>4. \A u, v : Job(u) = Job(v) => u.id = v.id /\ u.of = v.of
  BY JobFields
<1>5. Chained(R)
  <2>1. R \subseteq Seq(Command) \ {<< >>}
    BY <1>1 DEF Chained
  <2>2. ASSUME NEW u \in R, NEW v \in R, NEW i \in DOMAIN u, NEW j \in DOMAIN v, u[i].id = v[j].id
        PROVE  u = v /\ i = j
    <3>1. PICK p \in Q : i \in DOMAIN p /\ Job(u[i]) = Job(p[i]) /\ ((p = q /\ u = n) \/ (p # q /\ u = p))
      BY <1>3
    <3>2. PICK r \in Q : j \in DOMAIN r /\ Job(v[j]) = Job(r[j]) /\ ((r = q /\ v = n) \/ (r # q /\ v = r))
      BY <1>3
    <3>3. p[i].id = r[j].id
      BY <2>2, <3>1, <3>2, <1>4
    <3>4. p = r /\ i = j
      BY <3>1, <3>2, <3>3 DEF Chained
    <3> QED
      BY <3>1, <3>2, <3>4
  <2>3. IdsIn(R) = IdsIn(Q)
    <3>1. \A x \in IdsIn(R) : x \in IdsIn(Q)
      BY <1>3, <1>4, IdMember
    <3>2. \A x \in IdsIn(Q) : x \in IdsIn(R)
      BY <1>2, <1>4, IdMember
    <3> QED
      BY <3>1, <3>2
  <2> QED
    BY <2>1, <2>2, <2>3 DEF Chained
<1>6. IdsIn(R) = IdsIn(Q)
  <2>1. \A x \in IdsIn(R) : x \in IdsIn(Q)
    BY <1>3, <1>4, IdMember
  <2>2. \A x \in IdsIn(Q) : x \in IdsIn(R)
    BY <1>2, <1>4, IdMember
  <2> QED
    BY <2>1, <2>2
<1>7. Jobs(R) = Jobs(Q)
  <2>1. \A x \in Jobs(R) : x \in Jobs(Q)
    BY <1>3, JobMember
  <2>2. \A x \in Jobs(Q) : x \in Jobs(R)
    BY <1>2, JobMember
  <2> QED
    BY <2>1, <2>2
<1>8. Order(R) = Order(Q)
  <2>1. ASSUME NEW x, NEW y, <<x, y>> \in Order(R)
        PROVE  <<x, y>> \in Order(Q)
    <3>1. PICK u \in R : \E i, j \in DOMAIN u : i < j /\ x = Job(u[i]) /\ y = Job(u[j])
      BY <2>1, OrderMember
    <3>2. CASE u = n
      BY <3>1, <3>2, OrderMember
    <3>3. CASE u # n
      BY <3>1, <3>3, OrderMember
    <3> QED
      BY <3>2, <3>3
  <2>2. ASSUME NEW x, NEW y, <<x, y>> \in Order(Q)
        PROVE  <<x, y>> \in Order(R)
    <3>1. PICK u \in Q : \E i, j \in DOMAIN u : i < j /\ x = Job(u[i]) /\ y = Job(u[j])
      BY <2>2, OrderMember
    <3>2. CASE u = q
      BY <3>1, <3>2, OrderMember
    <3>3. CASE u # q
      BY <3>1, <3>3, OrderMember
    <3> QED
      BY <3>2, <3>3
  <2>3. \A p : p \in Order(R) \/ p \in Order(Q) => p = <<p[1], p[2]>>
    BY DEF Order
  <2>4. ASSUME NEW p
        PROVE  p \in Order(R) <=> p \in Order(Q)
    <3>1. <<p[1], p[2]>> \in Order(R) <=> <<p[1], p[2]>> \in Order(Q)
      BY <2>1, <2>2, Zenon
    <3>2. p \in Order(R) \/ p \in Order(Q) => p = <<p[1], p[2]>>
      BY <2>3
    <3> DEFINE z == <<p[1], p[2]>>
    <3>3. (z \in Order(R) <=> z \in Order(Q)) /\ (p \in Order(R) \/ p \in Order(Q) => p = z)
      BY <3>1, <3>2
    <3> HIDE DEF z
    <3> QED
      BY <3>3, Zenon
  <2> QED
    <3> HIDE DEF Order
    <3> QED
      BY <2>4
<1>9. HookedIn(A, R)
  <2>1. ASSUME NEW u \in R, NEW i \in DOMAIN u
        PROVE  \E k \in DOMAIN A[u[i].of].hooked : A[u[i].of].hooked[k] = u[i].id
    <3>1. PICK p \in Q : i \in DOMAIN p /\ Job(u[i]) = Job(p[i])
      BY <1>3
    <3>2. u[i].id = p[i].id /\ u[i].of = p[i].of
      BY <3>1, <1>4
    <3> QED
      BY <3>1, <3>2 DEF HookedIn
  <2>2. ASSUME NEW a \in Activities, NEW k \in DOMAIN A[a].hooked
        PROVE  \E u \in R : \E i \in DOMAIN u : u[i].id = A[a].hooked[k] /\ u[i].of = a
    <3>1. PICK p \in Q : \E i \in DOMAIN p : p[i].id = A[a].hooked[k] /\ p[i].of = a
      BY DEF HookedIn
    <3>2. PICK i \in DOMAIN p : p[i].id = A[a].hooked[k] /\ p[i].of = a
      BY <3>1
    <3>3. PICK u \in R : i \in DOMAIN u /\ Job(u[i]) = Job(p[i])
      BY <1>2
    <3> QED
      BY <3>2, <3>3, <1>4
  <2>3. ASSUME NEW a \in Activities, NEW k \in DOMAIN A[a].hooked, NEW l \in DOMAIN A[a].hooked, k < l,
               NEW u \in R, NEW v \in R, NEW i \in DOMAIN u, NEW j \in DOMAIN v,
               u[i].id = A[a].hooked[k], v[j].id = A[a].hooked[l]
        PROVE  u = v /\ i < j
    <3>1. PICK p \in Q : i \in DOMAIN p /\ Job(u[i]) = Job(p[i]) /\ ((p = q /\ u = n) \/ (p # q /\ u = p))
      BY <1>3
    <3>2. PICK r \in Q : j \in DOMAIN r /\ Job(v[j]) = Job(r[j]) /\ ((r = q /\ v = n) \/ (r # q /\ v = r))
      BY <1>3
    <3>3. p[i].id = A[a].hooked[k] /\ r[j].id = A[a].hooked[l]
      BY <2>3, <3>1, <3>2, <1>4
    <3>4. p = r /\ i < j
      BY <2>3, <3>1, <3>2, <3>3 DEF HookedIn
    <3> QED
      BY <3>1, <3>2, <3>4
  <2> QED
    BY <2>1, <2>2, <2>3 DEF HookedIn
<1> QED
  BY <1>5, <1>6, <1>7, <1>8, <1>9

\* The chain with another head.
LEMMA WithHead ==
  ASSUME NEW q \in Seq(Command), q # << >>, NEW c \in Command
  PROVE  LET n == <<c>> \o Tail(q)
         IN /\ n \in Seq(Command) /\ DOMAIN n = DOMAIN q /\ 1 \in DOMAIN q
            /\ n[1] = c /\ \A i \in DOMAIN q : i # 1 => n[i] = q[i]
PROOF
<1> QED
  OBVIOUS

\* The head of a chain is what its Activity has hooked first, and once.
LEMMA HeadIsFirst ==
  ASSUME NEW A, NEW Q, HookedIn(A, Q), Hooks(A), Chained(Q), NEW q \in Q
  PROVE  /\ A[q[1].of].hooked # << >>
         /\ A[q[1].of].hooked[1] = q[1].id
         /\ \A k \in DOMAIN A[q[1].of].hooked : A[q[1].of].hooked[k] = q[1].id => k = 1
         /\ Head(A[q[1].of].hooked) = Head(q).id
PROOF
<1> DEFINE a == q[1].of
           h == A[a].hooked
<1>1. 1 \in DOMAIN q /\ Head(q) = q[1] /\ a \in Activities /\ \A i \in DOMAIN q : i \in Nat /\ i >= 1
  BY ChainedCommand DEF Command
<1>2. h \in Seq(Ids)
  BY <1>1 DEF Hooks
<1>3. PICK k \in DOMAIN h : h[k] = q[1].id
  BY <1>1 DEF HookedIn
<1>4. /\ DOMAIN h = 1..Len(h) /\ Len(h) \in Nat /\ h # << >> /\ 1 \in DOMAIN h /\ Head(h) = h[1]
  BY <1>2, <1>3
<1>5. ASSUME NEW l \in DOMAIN h, h[l] = q[1].id, l # 1
      PROVE  FALSE
  <2>1. 1 < l
    BY <1>4, <1>5
  <2>2. PICK p \in Q : \E i \in DOMAIN p : p[i].id = h[1] /\ p[i].of = a
    BY <1>1, <1>4 DEF HookedIn
  <2>3. PICK i \in DOMAIN p : p[i].id = h[1]
    BY <2>2
  <2>4. p = q /\ i < 1
    BY <1>1, <1>4, <1>5, <2>1, <2>3 DEF HookedIn
  <2> QED
    BY <2>4, <1>1
<1> QED
  BY <1>1, <1>3, <1>4, <1>5

\* The head is taken off.
Removed(Q, q) == (Q \ {q}) \cup ({Tail(q)} \ {<< >>})

\* To unhook the head of a chain is to take the first that is hooked.
LEMMA UnhookedIsTail ==
  ASSUME NEW A, NEW Q, HookedIn(A, Q), Hooks(A), Chained(Q), NEW q \in Q
  PROVE  LET h == A[q[1].of].hooked
         IN RemoveAt(h, CHOOSE i \in DOMAIN h : h[i] = q[1].id) = Tail(h)
PROOF
<1> DEFINE h == A[q[1].of].hooked
           k == CHOOSE i \in DOMAIN h : h[i] = q[1].id
<1>1. /\ h # << >> /\ h[1] = q[1].id
      /\ \A i \in DOMAIN h : h[i] = q[1].id => i = 1
  BY HeadIsFirst
<1>2. h \in Seq(Ids)
  BY ChainedCommand DEF Hooks, Command
<1>3. 1 \in DOMAIN h
  BY <1>1, <1>2
<1>4. k = 1
  BY <1>1, <1>3
<1>5. SubSeq(h, 1, 1 - 1) = << >> /\ SubSeq(h, 1 + 1, Len(h)) = Tail(h) /\ Tail(h) \in Seq(Ids)
  BY <1>1, <1>2
<1> HIDE DEF h, k
<1>6. RemoveAt(h, k) = Tail(h)
  BY <1>4, <1>5 DEF RemoveAt
<1> QED
  BY <1>6 DEF h, k

LEMMA TailOf ==
  ASSUME NEW S, NEW q \in Seq(S), q # << >>
  PROVE  /\ Tail(q) \in Seq(S) /\ Len(q) \in Nat /\ DOMAIN q = 1..Len(q)
         /\ \A i : i \in DOMAIN Tail(q) <=> i \in Nat \ {0} /\ i + 1 \in DOMAIN q
         /\ \A i \in DOMAIN Tail(q) : Tail(q)[i] = q[i + 1] /\ i \in Nat /\ i >= 1
         /\ \A i \in DOMAIN q : i # 1 => i - 1 \in DOMAIN Tail(q) /\ Tail(q)[i - 1] = q[i]
         /\ DOMAIN Tail(q) # {} <=> Tail(q) # << >>
PROOF
<1>1. Len(q) \in Nat /\ DOMAIN q = 1..Len(q) /\ Tail(q) \in Seq(S) /\ DOMAIN Tail(q) = 1..(Len(q) - 1)
  OBVIOUS
<1>2. \A i \in 1..(Len(q) - 1) : Tail(q)[i] = q[i + 1]
  OBVIOUS
<1>3. DOMAIN Tail(q) # {} <=> Tail(q) # << >>
  OBVIOUS
<1> QED
  BY <1>1, <1>2, <1>3

\* The head of a chain is taken off, and unhooked.
LEMMA RemoveChained ==
  ASSUME NEW A, NEW Q, HookedIn(A, Q), Hooks(A), Chained(Q), NEW q \in Q,
         NEW A2,
         \A a \in Activities :
           A2[a].hooked = IF a = q[1].of THEN Tail(A[a].hooked) ELSE A[a].hooked
  PROVE  /\ Chained(Removed(Q, q))
         /\ HookedIn(A2, Removed(Q, q)) /\ Hooks(A2)
         /\ \A x : x \in Jobs(Removed(Q, q)) <=> x \in Jobs(Q) /\ x # Job(q[1])
         /\ \A x, y : <<x, y>> \in Order(Removed(Q, q)) <=> <<x, y>> \in Order(Q) /\ x # Job(q[1])
         /\ Job(q[1]) \in Jobs(Q)
         /\ \A x : <<x, Job(q[1])>> \notin Order(Q)
PROOF
<1> DEFINE n == Tail(q)
           R == Removed(Q, q)
           c == q[1]
           old == A[c.of].hooked
           new == A2[c.of].hooked
<1>1. q \in Seq(Command) /\ q # << >> /\ 1 \in DOMAIN q /\ c \in Command /\ c.of \in Activities
  BY ChainedCommand DEF Command
<1>2. /\ n \in Seq(Command)
      /\ \A i : i \in DOMAIN n <=> i \in Nat \ {0} /\ i + 1 \in DOMAIN q
      /\ \A i \in DOMAIN n : n[i] = q[i + 1] /\ i \in Nat /\ i >= 1
      /\ \A i \in DOMAIN q : i # 1 => i - 1 \in DOMAIN n /\ n[i - 1] = q[i]
      /\ DOMAIN n # {} <=> n # << >>
  <2>1. q \in Seq(Command) /\ q # << >>
    BY <1>1
  <2> HIDE DEF R, c, old, new
  <2> QED
    BY <2>1, TailOf
<1>3. \A p \in Q : \A i \in DOMAIN p : i \in Nat /\ i >= 1
  BY ChainedCommand
<1>4. /\ old # << >> /\ old[1] = c.id
      /\ \A k \in DOMAIN old : old[k] = c.id => k = 1
  BY HeadIsFirst
<1>5. old \in Seq(Ids) /\ new = Tail(old)
  BY <1>1 DEF Hooks
<1>6. /\ new \in Seq(Ids)
      /\ \A i : i \in DOMAIN new <=> i \in Nat \ {0} /\ i + 1 \in DOMAIN old
      /\ \A i \in DOMAIN new : new[i] = old[i + 1] /\ i \in Nat /\ i >= 1
      /\ \A i \in DOMAIN old : i # 1 => i - 1 \in DOMAIN new /\ new[i - 1] = old[i]
      /\ \A i \in DOMAIN old : i \in Nat
  <2> HIDE DEF n, R, c, old, new
  <2>1. old \in Seq(Ids) /\ old # << >> /\ new = Tail(old)
    BY <1>4, <1>5
  <2> QED
    BY <2>1, TailOf
<1>7. \A a \in Activities : a # c.of => A2[a].hooked = A[a].hooked
  OBVIOUS
<1>8. \A u \in R : (u \in Q /\ u # q) \/ (u = n /\ n # << >>)
  BY DEF Removed
<1>9. (n # << >> => n \in R) /\ (\A u \in Q : u # q => u \in R)
  BY DEF Removed
<1> HIDE DEF n, R, c, old, new
<1>10. ASSUME NEW u \in R, NEW i \in DOMAIN u
       PROVE  \E p \in Q : \E k \in DOMAIN p : p[k] = u[i] /\
                ((p # q /\ p = u /\ k = i) \/ (p = q /\ u = n /\ k = i + 1))
  <2>1. CASE u \in Q /\ u # q
    BY <2>1
  <2>2. CASE u = n
    BY <2>2, <1>2
  <2> QED
    BY <2>1, <2>2, <1>8
<1>11. ASSUME NEW p \in Q, NEW k \in DOMAIN p, ~(p = q /\ k = 1)
       PROVE  \E u \in R : \E i \in DOMAIN u : u[i] = p[k] /\
                ((p # q /\ p = u /\ k = i) \/ (p = q /\ u = n /\ i = k - 1))
  <2>1. CASE p # q
    BY <2>1, <1>9
  <2>2. CASE p = q
    BY <2>2, <1>2, <1>9, <1>11
  <2> QED
    BY <2>1, <2>2
<1>12. ASSUME NEW p \in Q, NEW k \in DOMAIN p, p[k].id = c.id
       PROVE  p = q /\ k = 1
  BY <1>12, <1>1 DEF Chained, c
<1>13. ASSUME NEW p \in Q, NEW k \in DOMAIN p
       PROVE  Job(p[k]) = Job(c) <=> p = q /\ k = 1
  <2>1. ASSUME Job(p[k]) = Job(c)
        PROVE  p[k].id = c.id
    BY <2>1, JobFields
  <2> QED
    BY <2>1, <1>12 DEF c
<1>14. ASSUME NEW u \in R, NEW v \in R, NEW i \in DOMAIN u, NEW j \in DOMAIN v, u[i].id = v[j].id
       PROVE  u = v /\ i = j
  <2>1. PICK p \in Q : \E k \in DOMAIN p : p[k] = u[i] /\
                ((p # q /\ p = u /\ k = i) \/ (p = q /\ u = n /\ k = i + 1))
    BY <1>10
  <2>2. PICK k \in DOMAIN p : p[k] = u[i] /\
                ((p # q /\ p = u /\ k = i) \/ (p = q /\ u = n /\ k = i + 1))
    BY <2>1
  <2>3. PICK r \in Q : \E l \in DOMAIN r : r[l] = v[j] /\
                ((r # q /\ r = v /\ l = j) \/ (r = q /\ v = n /\ l = j + 1))
    BY <1>10
  <2>4. PICK l \in DOMAIN r : r[l] = v[j] /\
                ((r # q /\ r = v /\ l = j) \/ (r = q /\ v = n /\ l = j + 1))
    BY <2>3
  <2>5. p = r /\ k = l
    BY <1>14, <2>2, <2>4 DEF Chained
  <2>6. CASE p # q
    BY <2>2, <2>4, <2>5, <2>6
  <2>7. CASE p = q
    <3>1. u = n /\ v = n /\ k = i + 1 /\ k = j + 1 /\ i \in Nat /\ j \in Nat
      BY <2>2, <2>4, <2>5, <2>7, <1>2
    <3> QED
      BY <3>1
  <2> QED
    BY <2>6, <2>7
<1>15. IdsIn(R) \subseteq IdsIn(Q)
  <2>1. ASSUME NEW x \in IdsIn(R)
        PROVE  x \in IdsIn(Q)
    <3>1. PICK u \in R : \E i \in DOMAIN u : x = u[i].id
      BY IdMember
    <3> QED
      BY <3>1, <1>10, IdMember
  <2> QED
    BY <2>1
<1>16. Chained(R)
  <2>1. R \subseteq Seq(Command) \ {<< >>}
    BY <1>2, <1>8 DEF Chained
  <2>2. IsFiniteSet(IdsIn(R))
    BY <1>15, FS_Subset DEF Chained
  <2> QED
    BY <2>1, <2>2, <1>14 DEF Chained
<1>17. ASSUME NEW x
       PROVE  x \in Jobs(R) <=> x \in Jobs(Q) /\ x # Job(c)
  <2>1. ASSUME x \in Jobs(R)
        PROVE  x \in Jobs(Q) /\ x # Job(c)
    <3>1. PICK u \in R : \E i \in DOMAIN u : x = Job(u[i])
      BY <2>1, JobMember
    <3>2. PICK i \in DOMAIN u : x = Job(u[i])
      BY <3>1
    <3>3. PICK p \in Q : \E k \in DOMAIN p : p[k] = u[i] /\
                ((p # q /\ p = u /\ k = i) \/ (p = q /\ u = n /\ k = i + 1))
      BY <1>10
    <3>4. PICK k \in DOMAIN p : p[k] = u[i] /\
                ((p # q /\ p = u /\ k = i) \/ (p = q /\ u = n /\ k = i + 1))
      BY <3>3
    <3>5. ~(p = q /\ k = 1)
      BY <3>4, <1>2
    <3> QED
      BY <3>2, <3>4, <3>5, <1>13, JobMember
  <2>2. ASSUME x \in Jobs(Q), x # Job(c)
        PROVE  x \in Jobs(R)
    <3>1. PICK p \in Q : \E k \in DOMAIN p : x = Job(p[k])
      BY <2>2, JobMember
    <3>2. PICK k \in DOMAIN p : x = Job(p[k])
      BY <3>1
    <3>3. ~(p = q /\ k = 1)
      BY <3>2, <2>2 DEF c
    <3> QED
      BY <3>2, <3>3, <1>11, JobMember
  <2> QED
    BY <2>1, <2>2
<1>18. ASSUME NEW x, NEW y
       PROVE  <<x, y>> \in Order(R) <=> <<x, y>> \in Order(Q) /\ x # Job(c)
  <2>1. ASSUME <<x, y>> \in Order(R)
        PROVE  <<x, y>> \in Order(Q) /\ x # Job(c)
    <3>1. PICK u \in R : \E i, j \in DOMAIN u : i < j /\ x = Job(u[i]) /\ y = Job(u[j])
      BY <2>1, OrderMember
    <3>2. PICK i \in DOMAIN u, j \in DOMAIN u : i < j /\ x = Job(u[i]) /\ y = Job(u[j])
      BY <3>1
    <3>3. x # Job(c)
      <4>1. x \in Jobs(R)
        BY <3>2, JobMember
      <4> QED
        BY <4>1, <1>17
    <3>4. CASE u \in Q
      BY <3>2, <3>3, <3>4, OrderMember
    <3>5. CASE u = n
      <4>1. i + 1 \in DOMAIN q /\ j + 1 \in DOMAIN q /\ q[i + 1] = n[i] /\ q[j + 1] = n[j] /\ i + 1 < j + 1
        BY <3>2, <3>5, <1>2
      <4> QED
        BY <4>1, <3>2, <3>3, <3>5, OrderMember
    <3> QED
      BY <3>4, <3>5, <1>8
  <2>2. ASSUME <<x, y>> \in Order(Q), x # Job(c)
        PROVE  <<x, y>> \in Order(R)
    <3>1. PICK p \in Q : \E i, j \in DOMAIN p : i < j /\ x = Job(p[i]) /\ y = Job(p[j])
      BY <2>2, OrderMember
    <3>2. PICK i \in DOMAIN p, j \in DOMAIN p : i < j /\ x = Job(p[i]) /\ y = Job(p[j])
      BY <3>1
    <3>3. CASE p # q
      BY <3>2, <3>3, <1>9, OrderMember
    <3>4. CASE p = q
      <4>1. i # 1
        BY <3>2, <3>4, <2>2 DEF c
      <4>2. i \in Nat /\ j \in Nat /\ i >= 1 /\ j # 1
        BY <3>2, <4>1, <1>3
      <4>3. i - 1 \in DOMAIN n /\ j - 1 \in DOMAIN n /\ n[i - 1] = q[i] /\ n[j - 1] = q[j] /\ i - 1 < j - 1
        BY <3>2, <3>4, <4>1, <4>2, <1>2
      <4>4. n \in R
        BY <4>3, <1>2, <1>9
      <4> QED
        BY <4>3, <4>4, <3>2, <3>4, OrderMember
    <3> QED
      BY <3>3, <3>4
  <2> QED
    BY <2>1, <2>2
<1>19. Job(c) \in Jobs(Q)
  BY <1>1, JobMember DEF c
<1>20. ASSUME NEW x, <<x, Job(c)>> \in Order(Q)
       PROVE  FALSE
  <2>1. PICK p \in Q : \E i, j \in DOMAIN p : i < j /\ x = Job(p[i]) /\ Job(c) = Job(p[j])
    BY <1>20, OrderMember
  <2>2. PICK i \in DOMAIN p, j \in DOMAIN p : i < j /\ x = Job(p[i]) /\ Job(c) = Job(p[j])
    BY <2>1
  <2>3. j = 1
    BY <2>2, <1>13
  <2> QED
    BY <2>2, <2>3, <1>3
<1>21. Hooks(A2)
  <2>1. ASSUME NEW a \in Activities
        PROVE  A2[a].hooked \in Seq(Ids)
    <3>1. CASE a = c.of
      BY <3>1, <1>6 DEF new
    <3>2. CASE a # c.of
      BY <3>2, <1>7 DEF Hooks
    <3> QED
      BY <3>1, <3>2
  <2> QED
    BY <2>1 DEF Hooks
<1>22. ASSUME NEW a \in Activities, NEW k \in DOMAIN A2[a].hooked
       PROVE  \E l \in DOMAIN A[a].hooked : A2[a].hooked[k] = A[a].hooked[l] /\
                ((a = c.of /\ k \in Nat /\ l = k + 1) \/ (a # c.of /\ k = l))
  <2>1. CASE a = c.of
    BY <2>1, <1>6 DEF new, old
  <2>2. CASE a # c.of
    BY <2>2, <1>7
  <2> QED
    BY <2>1, <2>2
<1>23. ASSUME NEW u \in R, NEW i \in DOMAIN u
       PROVE  \E k \in DOMAIN A2[u[i].of].hooked : A2[u[i].of].hooked[k] = u[i].id
  <2>1. PICK p \in Q : \E k \in DOMAIN p : p[k] = u[i] /\
                ((p # q /\ p = u /\ k = i) \/ (p = q /\ u = n /\ k = i + 1))
    BY <1>10
  <2>2. PICK k \in DOMAIN p : p[k] = u[i] /\
                ((p # q /\ p = u /\ k = i) \/ (p = q /\ u = n /\ k = i + 1))
    BY <2>1
  <2>3. u[i].id # c.id
    <3>1. ~(p = q /\ k = 1)
      BY <2>2, <1>2
    <3> QED
      BY <3>1, <2>2, <1>12
  <2>4. u[i].of \in Activities
    BY <2>2, ChainedCommand DEF Command
  <2>5. PICK l \in DOMAIN A[u[i].of].hooked : A[u[i].of].hooked[l] = u[i].id
    BY <2>2 DEF HookedIn
  <2>6. CASE u[i].of = c.of
    <3>1. l # 1
      BY <2>3, <2>5, <2>6, <1>4 DEF old
    <3> QED
      BY <3>1, <2>5, <2>6, <1>6 DEF old, new
  <2>7. CASE u[i].of # c.of
    BY <2>4, <2>5, <2>7, <1>7
  <2> QED
    BY <2>6, <2>7
<1>24. ASSUME NEW a \in Activities, NEW k \in DOMAIN A2[a].hooked
       PROVE  \E u \in R : \E i \in DOMAIN u : u[i].id = A2[a].hooked[k] /\ u[i].of = a
  <2>1. PICK l \in DOMAIN A[a].hooked : A2[a].hooked[k] = A[a].hooked[l] /\
                ((a = c.of /\ k \in Nat /\ l = k + 1) \/ (a # c.of /\ k = l))
    BY <1>22
  <2>2. PICK p \in Q : \E j \in DOMAIN p : p[j].id = A[a].hooked[l] /\ p[j].of = a
    BY DEF HookedIn
  <2>3. PICK j \in DOMAIN p : p[j].id = A[a].hooked[l] /\ p[j].of = a
    BY <2>2
  <2>4. ~(p = q /\ j = 1)
    <3>1. SUFFICES ASSUME p = q, j = 1
                   PROVE  FALSE
      OBVIOUS
    <3>2. a = c.of /\ A[a].hooked[l] = c.id
      BY <3>1, <2>3 DEF c
    <3>3. l = 1
      BY <3>2, <1>4 DEF old
    <3>4. k \in Nat \ {0}
      BY <3>2, <1>6 DEF new
    <3> QED
      BY <3>2, <3>3, <3>4, <2>1
  <2>5. \E u \in R : \E i \in DOMAIN u : u[i] = p[j]
    BY <2>4, <1>11
  <2> QED
    BY <2>1, <2>3, <2>5
<1>25. ASSUME NEW a \in Activities, NEW k \in DOMAIN A2[a].hooked, NEW l \in DOMAIN A2[a].hooked, k < l,
              NEW u \in R, NEW v \in R, NEW i \in DOMAIN u, NEW j \in DOMAIN v,
              u[i].id = A2[a].hooked[k], v[j].id = A2[a].hooked[l]
       PROVE  u = v /\ i < j
  <2>1. PICK x \in DOMAIN A[a].hooked : A2[a].hooked[k] = A[a].hooked[x] /\
                ((a = c.of /\ k \in Nat /\ x = k + 1) \/ (a # c.of /\ k = x))
    BY <1>22
  <2>2. PICK y \in DOMAIN A[a].hooked : A2[a].hooked[l] = A[a].hooked[y] /\
                ((a = c.of /\ l \in Nat /\ y = l + 1) \/ (a # c.of /\ l = y))
    BY <1>22
  <2>3. x < y
    BY <1>25, <2>1, <2>2
  <2>4. PICK p \in Q : \E z \in DOMAIN p : p[z] = u[i] /\
                ((p # q /\ p = u /\ z = i) \/ (p = q /\ u = n /\ z = i + 1))
    BY <1>10
  <2>5. PICK z \in DOMAIN p : p[z] = u[i] /\
                ((p # q /\ p = u /\ z = i) \/ (p = q /\ u = n /\ z = i + 1))
    BY <2>4
  <2>6. PICK r \in Q : \E w \in DOMAIN r : r[w] = v[j] /\
                ((r # q /\ r = v /\ w = j) \/ (r = q /\ v = n /\ w = j + 1))
    BY <1>10
  <2>7. PICK w \in DOMAIN r : r[w] = v[j] /\
                ((r # q /\ r = v /\ w = j) \/ (r = q /\ v = n /\ w = j + 1))
    BY <2>6
  <2>8. p[z].id = A[a].hooked[x] /\ r[w].id = A[a].hooked[y]
    BY <1>25, <2>1, <2>2, <2>5, <2>7
  <2>9. p = r /\ z < w
    BY <2>3, <2>8 DEF HookedIn
  <2>10. CASE p # q
    BY <2>5, <2>7, <2>9, <2>10
  <2>11. CASE p = q
    <3>1. u = n /\ v = n /\ z = i + 1 /\ w = j + 1 /\ i \in Nat /\ j \in Nat
      BY <2>5, <2>7, <2>9, <2>11, <1>2
    <3> QED
      BY <3>1, <2>9
  <2> QED
    BY <2>10, <2>11
<1>26. HookedIn(A2, R)
  BY <1>23, <1>24, <1>25 DEF HookedIn
<1> QED
  BY <1>16, <1>17, <1>18, <1>19, <1>20, <1>21, <1>26 DEF R, c

-----------------------------------------------------------------------------
(* What the operators of the model do to the state.                        *)

\* A state of the model.
State(A, Q, K, w) == [act |-> A, chains |-> Q, token |-> K, told |-> w]

\* Only the head of a chain has been looked at, and for a noop nothing is called.
InTurn(Q) == \A q \in Q : \A i \in DOMAIN q :
  (i # 1 => q[i].status = "waiting") /\ (q[i].status # "waiting" => q[i].kind # "noop")

\* The heads of the chains.
HeadsOf(Q) == {q[1] : q \in Q}

\* What holds of Activities, chains and tokens whatever fails.
Typed(A, Q, K) ==
  /\ A \in [Activities -> ActivityState]
  /\ K \in [Tokens -> TokenState]
  /\ Chained(Q) /\ HookedIn(A, Q) /\ InTurn(Q)

LEMMA TypedHooks ==
  ASSUME NEW A, NEW Q, NEW K, Typed(A, Q, K)
  PROVE  Hooks(A)
PROOF
<1> QED
  BY DEF Typed, Hooks, ActivityState

\* A new command: its id is not used.
LEMMA CommandIsNew ==
  ASSUME NEW A, NEW Q, NEW K, NEW w, Chained(Q), NEW b \in Activities,
         NEW kind \in {"store", "delete", "noop"},
         NEW finish \in {"create", "update", "end", "replace"},
         NEW c, c = NewCommand(State(A, Q, K, w), kind, b, finish)
  PROVE  /\ c \in Command /\ c.id \notin IdsIn(Q)
         /\ c.of = b /\ c.kind = kind /\ c.finish = finish /\ c.status = "waiting"
PROOF
<1> DEFINE used == IdsIn(Q)
<1>1. {d.id : d \in Commands(State(A, Q, K, w))} = used
  BY DEF IdsIn, Commands, State
<1>2. /\ Cardinality(used) \in Nat /\ Unused(used) \in 1..(Cardinality(used) + 1)
      /\ Unused(used) \notin used
  <2>1. IsFiniteSet(used)
    BY DEF Chained
  <2> HIDE DEF used
  <2> QED
    BY <2>1, UnusedIsFresh
<1> HIDE DEF used
<1>3. Unused(used) \in Ids
  BY <1>2 DEF Ids, None
<1>4. c = [id |-> Unused(used), kind |-> kind, of |-> b, finish |-> finish,
           status |-> "waiting", record |-> None, version |-> 0, rev |-> 0]
  BY <1>1 DEF NewCommand
<1>5. 0 \in 0..MaxVersion /\ None \in Ids \cup {None}
  BY PersistAssumption
<1>6. c \in Command
  BY <1>3, <1>4, <1>5 DEF Command
<1> QED
  BY <1>2, <1>4, <1>6 DEF used

LEMMA ExtendHeads ==
  ASSUME NEW Q, Chained(Q), InTurn(Q), NEW ch \in Q \cup {<< >>}, NEW c \in Command,
         c.status = "waiting"
  PROVE  /\ HeadsOf(Extended(Q, ch, c)) = IF ch \in Q THEN HeadsOf(Q) ELSE HeadsOf(Q) \cup {c}
         /\ InTurn(Extended(Q, ch, c))
PROOF
<1>1. << >> \notin Q
  BY DEF Chained
<1>2. CASE ch \in Q
  <2>1. /\ 1 \in DOMAIN ch /\ ch \in Seq(Command)
    BY <1>2, ChainedCommand
  <2>2. /\ Append(ch, c)[1] = ch[1]
        /\ \A i \in DOMAIN Append(ch, c) : (i \in DOMAIN ch /\ Append(ch, c)[i] = ch[i]) \/ Append(ch, c)[i] = c
    BY <2>1, Appended
  <2>3. HeadsOf(Extended(Q, ch, c)) = HeadsOf(Q)
    BY <1>2, <2>2 DEF HeadsOf, Extended
  <2> QED
    BY <1>2, <2>2, <2>3 DEF InTurn, Extended
<1>3. CASE ch = << >>
  <2>1. Append(ch, c) = <<c>>
    BY <1>3
  <2>2. Append(ch, c)[1] = c /\ DOMAIN Append(ch, c) = {1}
    BY <2>1
  <2> HIDE DEF Command
  <2>3. Extended(Q, ch, c) = Q \cup {<<c>>}
    BY <1>1, <1>3, <2>1 DEF Extended
  <2>4. HeadsOf(Extended(Q, ch, c)) = HeadsOf(Q) \cup {c}
    BY <2>1, <2>2, <2>3 DEF HeadsOf
  <2>5. InTurn(Extended(Q, ch, c))
    BY <2>1, <2>2, <2>3 DEF InTurn
  <2> QED
    BY <1>1, <1>3, <2>4, <2>5
<1> QED
  BY <1>2, <1>3

\* The command is hooked to its Activity.
WithHook(A, c) == [A EXCEPT ![c.of].hooked = Append(@, c.id)]

LEMMA HookState ==
  ASSUME NEW A, NEW Q, NEW K, NEW w, NEW c
  PROVE  Hook(State(A, Q, K, w), c) = State(WithHook(A, c), Q, K, w)
PROOF
<1> QED
  BY DEF Hook, State, WithHook

LEMMA WithHookFields ==
  ASSUME NEW A \in [Activities -> ActivityState], NEW c \in Command
  PROVE  /\ WithHook(A, c) \in [Activities -> ActivityState]
         /\ \A x \in Activities :
              /\ WithHook(A, c)[x].hooked = IF x = c.of THEN Append(A[x].hooked, c.id) ELSE A[x].hooked
              /\ WithHook(A, c)[x].life = A[x].life /\ WithHook(A, c)[x].named = A[x].named
              /\ WithHook(A, c)[x].persistent = A[x].persistent
              /\ WithHook(A, c)[x].ending = A[x].ending
              /\ WithHook(A, c)[x].intCommand = A[x].intCommand
              /\ WithHook(A, c)[x].extCommand = A[x].extCommand
              /\ WithHook(A, c)[x].version = A[x].version
              /\ WithHook(A, c)[x].token = A[x].token
PROOF
<1> DEFINE b == c.of
           n == [A[b] EXCEPT !.hooked = Append(@, c.id)]
<1>1. b \in Activities /\ c.id \in Ids /\ A[b] \in ActivityState
  BY DEF Command
<1>2. Append(A[b].hooked, c.id) \in Seq(Ids)
  BY <1>1 DEF ActivityState
<1>3. n \in ActivityState
  BY <1>1, <1>2 DEF ActivityState
<1>4. /\ n.hooked = Append(A[b].hooked, c.id) /\ n.life = A[b].life /\ n.named = A[b].named
      /\ n.persistent = A[b].persistent /\ n.ending = A[b].ending /\ n.intCommand = A[b].intCommand
      /\ n.extCommand = A[b].extCommand /\ n.version = A[b].version /\ n.token = A[b].token
  BY <1>1 DEF ActivityState
<1>5. WithHook(A, c) = [A EXCEPT ![b] = n]
  BY DEF WithHook
<1> HIDE DEF n, b
<1>6. WithHook(A, c) \in [Activities -> ActivityState]
  BY <1>1, <1>3, <1>5
<1>7. WithHook(A, c)[b] = n /\ \A x \in Activities : x # b => WithHook(A, c)[x] = A[x]
  BY <1>1, <1>5
<1> QED
  BY <1>4, <1>6, <1>7 DEF b

\* The chain that Activity a has a command in, if there is one.
ChainFor(A, Q, a) ==
  IF A[a].hooked = << >> THEN << >>
  ELSE CHOOSE chain \in Q : \E i \in DOMAIN chain : chain[i].id = Head(A[a].hooked)

\* Enqueue: the command goes to the end of the chain of Activity a, if it has
\* one, and all that its own Activity has hooked is in that chain.
LEMMA Enqueued ==
  ASSUME NEW A, NEW Q, NEW K, NEW w, Typed(A, Q, K), NEW a \in Activities, NEW b \in Activities,
         NEW kind \in {"store", "delete", "noop"},
         NEW finish \in {"create", "update", "end", "replace"},
         NEW c, c = NewCommand(State(A, Q, K, w), kind, b, finish),
         NEW ch, ch = ChainFor(A, Q, a),
         \A k \in DOMAIN A[b].hooked : \E i \in DOMAIN ch : ch[i].id = A[b].hooked[k]
  PROVE  /\ Enqueue(State(A, Q, K, w), a, c) = State(WithHook(A, c), Extended(Q, ch, c), K, w)
         /\ Typed(WithHook(A, c), Extended(Q, ch, c), K)
PROOF
<1> DEFINE A2 == WithHook(A, c)
           R == Extended(Q, ch, c)
           s == State(A, Q, K, w)
<1>1. /\ A \in [Activities -> ActivityState] /\ K \in [Tokens -> TokenState]
      /\ Chained(Q) /\ HookedIn(A, Q) /\ InTurn(Q) /\ Hooks(A)
  BY TypedHooks DEF Typed
<1>2. /\ c \in Command /\ c.id \notin IdsIn(Q) /\ c.of = b /\ c.status = "waiting"
  BY <1>1, CommandIsNew
<1>3. ch \in Q \cup {<< >>} /\ (A[a].hooked # << >> => ch \in Q)
  <2>1. CASE A[a].hooked # << >>
    <3>1. ch = CHOOSE chain \in Q : \E i \in DOMAIN chain : chain[i].id = Head(A[a].hooked)
      BY <2>1 DEF ChainFor
    <3> QED
      BY <1>1, <2>1, <3>1, ChainOfAll
  <2> QED
    BY <2>1 DEF ChainFor
<1>4. << >> \notin Q
  BY <1>1 DEF Chained
<1>5. Chain(s, a, c) = State(A, R, K, w)
  <2>1. CASE A[a].hooked = << >>
    <3>1. Chain(s, a, c) = State(A, Q \cup {<<c>>}, K, w)
      BY <2>1 DEF Chain, State
    <3>2. Append(<< >>, c) = <<c>>
      OBVIOUS
    <3>3. R = Q \cup {<<c>>}
      BY <2>1, <3>2, <1>4 DEF Extended, ChainFor
    <3> QED
      BY <3>1, <3>3
  <2>2. CASE A[a].hooked # << >>
    <3>1. Chain(s, a, c) = State(A, (Q \ {ch}) \cup {Append(ch, c)}, K, w)
      <4>1. s.act = A /\ s.chains = Q /\ s.token = K /\ s.told = w
        BY DEF State
      <4>2. ChainOf(s, a) = ch
        <5>1. ch = CHOOSE chain \in Q : \E i \in DOMAIN chain : chain[i].id = Head(A[a].hooked)
          BY <2>2 DEF ChainFor
        <5>2. ChainOf(State(A, Q, K, w), a) =
                CHOOSE chain \in Q : \E i \in DOMAIN chain : chain[i].id = Head(A[a].hooked)
          BY DEF ChainOf, State
        <5> QED
          BY <5>1, <5>2
      <4> HIDE DEF R
      <4> QED
        BY <2>2, <4>1, <4>2 DEF Chain, State
    <3> QED
      BY <3>1 DEF Extended
  <2> QED
    BY <2>1, <2>2
<1> HIDE DEF A2, R, s
<1>6. Enqueue(s, a, c) = State(A2, R, K, w)
  BY <1>5, HookState DEF A2, Enqueue
<1>7. A2 \in [Activities -> ActivityState]
  BY <1>1, <1>2, WithHookFields DEF A2
<1>8. \A x \in Activities : A2[x].hooked = IF x = c.of THEN Append(A[x].hooked, c.id) ELSE A[x].hooked
  BY <1>1, <1>2, WithHookFields DEF A2
<1>9. \A k \in DOMAIN A[c.of].hooked : \E i \in DOMAIN ch : ch[i].id = A[c.of].hooked[k]
  BY <1>2
<1>10. HookedIn(A2, R)
  BY <1>1, <1>2, <1>3, <1>8, <1>9, ExtendHooked DEF R
<1>11. Chained(R)
  BY <1>1, <1>2, <1>3, ExtendChained DEF R
<1>12. InTurn(R)
  BY <1>1, <1>2, <1>3, ExtendHeads DEF R
<1>13. Typed(A2, R, K)
  BY <1>1, <1>7, <1>10, <1>11, <1>12 DEF Typed
<1> QED
  BY <1>6, <1>13 DEF A2, R, s

\* An Activity gets a token.
WithToken(A, a, t) == [A EXCEPT ![a].token = t]

\* Two states of an Activity agree but for the hooked commands and the token.
Kept(r, n) ==
  /\ n.life = r.life /\ n.named = r.named /\ n.persistent = r.persistent
  /\ n.ending = r.ending /\ n.intCommand = r.intCommand /\ n.extCommand = r.extCommand
  /\ n.version = r.version

LEMMA WithTokenFields ==
  ASSUME NEW A \in [Activities -> ActivityState], NEW a \in Activities, NEW t \in Tokens \cup {None}
  PROVE  /\ WithToken(A, a, t) \in [Activities -> ActivityState]
         /\ \A x \in Activities :
              /\ WithToken(A, a, t)[x].hooked = A[x].hooked
              /\ Kept(A[x], WithToken(A, a, t)[x])
              /\ WithToken(A, a, t)[x].token = IF x = a THEN t ELSE A[x].token
PROOF
<1> DEFINE n == [A[a] EXCEPT !.token = t]
<1>1. A[a] \in ActivityState
  OBVIOUS
<1>2. n \in ActivityState
  BY <1>1 DEF ActivityState
<1>3. n.hooked = A[a].hooked /\ n.token = t /\ Kept(A[a], n)
  BY <1>1 DEF ActivityState, Kept
<1>4. WithToken(A, a, t) = [A EXCEPT ![a] = n]
  BY DEF WithToken
<1> HIDE DEF n
<1>5. WithToken(A, a, t) \in [Activities -> ActivityState]
  BY <1>2, <1>4
<1>6. WithToken(A, a, t)[a] = n /\ \A x \in Activities : x # a => WithToken(A, a, t)[x] = A[x]
  BY <1>4
<1> QED
  BY <1>3, <1>5, <1>6 DEF Kept

LEMMA TypedSame ==
  ASSUME NEW A, NEW Q, NEW K, Typed(A, Q, K),
         NEW A2 \in [Activities -> ActivityState], NEW K2 \in [Tokens -> TokenState],
         \A x \in Activities : A2[x].hooked = A[x].hooked
  PROVE  Typed(A2, Q, K2)
PROOF
<1>1. Chained(Q) /\ HookedIn(A, Q) /\ Hooks(A) /\ InTurn(Q)
  BY TypedHooks DEF Typed
<1>2. HookedIn(A2, Q)
  BY <1>1, HookedSame
<1> QED
  BY <1>1, <1>2 DEF Typed

\* The token is one that no Activity has.
Unissued(A, t) == t \in Tokens /\ t # None /\ \A x \in Activities : A[x].token # t

\* The token that CreateToken takes.
LEMMA FreshToken ==
  ASSUME NEW A
  PROVE  Unissued(A, Unused({A[b].token : b \in Activities}))
PROOF
<1> DEFINE used == {A[b].token : b \in Activities}
           t == Unused(used)
<1>1. IsFiniteSet(used) /\ Cardinality(used) <= Cardinality(Activities)
  <2> DEFINE f == [b \in Activities |-> A[b].token]
  <2>1. f \in Surjection(Activities, used)
    BY DEF Surjection
  <2> HIDE DEF used, f
  <2> QED
    BY <2>1, FS_Surjection, PersistAssumption DEF ExistsSurjection
<1>2. Cardinality(used) \in Nat /\ t \in 1..(Cardinality(used) + 1) /\ t \notin used
  <2> HIDE DEF used
  <2> QED
    BY <1>1, UnusedIsFresh
<1>3. Cardinality(Activities) \in Nat
  BY FS_CardinalityType, PersistAssumption
<1>4. Unissued(A, t)
  <2>1. t \in Tokens /\ t # None
    <3> HIDE DEF t, used
    <3> QED
      BY <1>1, <1>2, <1>3 DEF Tokens, None
  <2>2. \A x \in Activities : A[x].token # t
    <3> HIDE DEF t
    <3> QED
      BY <1>2
  <2> QED
    BY <2>1, <2>2 DEF Unissued
<1> QED
  BY <1>4

\* CreateToken.
LEMMA TokenCreated ==
  ASSUME NEW A, NEW Q, NEW K, NEW w, Typed(A, Q, K), NEW a \in Activities
  PROVE  \E t : /\ Unissued(A, t)
                /\ CreateToken(State(A, Q, K, w), a) =
                     State(WithToken(A, a, t), Q, [K EXCEPT ![t] = NoToken], w)
                /\ Typed(WithToken(A, a, t), Q, [K EXCEPT ![t] = NoToken])
PROOF
<1> DEFINE used == {A[b].token : b \in Activities}
           t == Unused(used)
<1>1. Unissued(A, t)
  BY FreshToken
<1>2. CreateToken(State(A, Q, K, w), a) = State(WithToken(A, a, t), Q, [K EXCEPT ![t] = NoToken], w)
  <2>1. State(A, Q, K, w).act = A
    BY DEF State
  <2>2. {(State(A, Q, K, w).act)[b].token : b \in Activities} = used
    BY <2>1
  <2>3. CreateToken(State(A, Q, K, w), a) =
          [State(A, Q, K, w) EXCEPT !.act[a].token = t, !.token[t] = NoToken]
    <3> HIDE DEF used
    <3> QED
      BY <2>2 DEF CreateToken
  <2> HIDE DEF t
  <2> QED
    BY <2>3 DEF State, WithToken
<1> HIDE DEF t
<1>3. A \in [Activities -> ActivityState] /\ K \in [Tokens -> TokenState]
  BY DEF Typed
<1>4. t \in Tokens
  BY <1>1 DEF Unissued
<1>5. [K EXCEPT ![t] = NoToken] \in [Tokens -> TokenState]
  BY <1>3, <1>4 DEF NoToken, TokenState
<1>6. /\ WithToken(A, a, t) \in [Activities -> ActivityState]
      /\ \A x \in Activities : WithToken(A, a, t)[x].hooked = A[x].hooked
  BY <1>3, <1>4, WithTokenFields
<1>7. Typed(WithToken(A, a, t), Q, [K EXCEPT ![t] = NoToken])
  BY <1>5, <1>6, TypedSame
<1> QED
  BY <1>1, <1>2, <1>7

\* EnsureToken.
TokenFor(A, K, a, A2, K2) ==
  IF A[a].token # None THEN A2 = A /\ K2 = K
  ELSE \E t : Unissued(A, t) /\ A2 = WithToken(A, a, t) /\ K2 = [K EXCEPT ![t] = NoToken]

\* What EnsureToken leaves.
LEMMA TokenEnsured ==
  ASSUME NEW A, NEW Q, NEW K, NEW w, Typed(A, Q, K), NEW a \in Activities
  PROVE  \E A2, K2 : /\ EnsureToken(State(A, Q, K, w), a) = State(A2, Q, K2, w)
                     /\ TokenFor(A, K, a, A2, K2) /\ Typed(A2, Q, K2)
                     /\ \A x \in Activities : A2[x].hooked = A[x].hooked
PROOF
<1>1. CASE A[a].token = None
  <2>1. PICK t : /\ Unissued(A, t)
                 /\ CreateToken(State(A, Q, K, w), a) =
                      State(WithToken(A, a, t), Q, [K EXCEPT ![t] = NoToken], w)
                 /\ Typed(WithToken(A, a, t), Q, [K EXCEPT ![t] = NoToken])
    BY TokenCreated
  <2> DEFINE A2 == WithToken(A, a, t)
             K2 == [K EXCEPT ![t] = NoToken]
  <2>2. \A x \in Activities : A2[x].hooked = A[x].hooked
    BY <2>1, WithTokenFields DEF Typed, Unissued
  <2>3. EnsureToken(State(A, Q, K, w), a) = State(A2, Q, K2, w)
    BY <1>1, <2>1 DEF EnsureToken, State
  <2>4. TokenFor(A, K, a, A2, K2)
    BY <1>1, <2>1 DEF TokenFor
  <2> HIDE DEF A2, K2
  <2> QED
    BY <2>1, <2>2, <2>3, <2>4 DEF A2, K2
<1>2. CASE A[a].token # None
  <2>1. EnsureToken(State(A, Q, K, w), a) = State(A, Q, K, w) /\ TokenFor(A, K, a, A, K)
    BY <1>2 DEF EnsureToken, State, TokenFor
  <2> QED
    BY <2>1
<1> QED
  BY <1>1, <1>2

\* The jobs of one chain, or none: any two that are ordered are both in it.
Together(J, B, P) ==
  P \subseteq J /\ \A x \in P, y \in J : y \in P <=> x = y \/ <<x, y>> \in B \/ <<y, x>> \in B

\* Those of the chain that Activity a has a command in.
PlaceOf(J, B, a, P) ==
  /\ Together(J, B, P)
  /\ \A x \in J : x.of = a => x \in P
  /\ (\A x \in J : x.of # a) => P = {}

\* One more command, behind those of P.
Adds(Q, R, c, P) ==
  /\ \A x : x \in Jobs(R) <=> x \in Jobs(Q) \/ x = Job(c)
  /\ \A x, y : <<x, y>> \in Order(R) <=> <<x, y>> \in Order(Q) \/ (x \in P /\ y = Job(c))
  /\ Job(c) \notin Jobs(Q)
  /\ HeadsOf(R) = IF P = {} THEN HeadsOf(Q) \cup {c} ELSE HeadsOf(Q)

LEMMA ChainTogether ==
  ASSUME NEW Q, Chained(Q), NEW ch \in Q
  PROVE  Together(Jobs(Q), Order(Q), JobsIn(ch)) /\ JobsIn(ch) # {}
PROOF
<1>1. ch \in Seq(Command) /\ 1 \in DOMAIN ch /\ \A i \in DOMAIN ch : i \in Nat
  BY ChainedCommand
<1>2. JobsIn(ch) # {}
  BY <1>1 DEF JobsIn
<1>3. JobsIn(ch) \subseteq Jobs(Q)
  BY DEF Jobs
<1>4. ASSUME NEW x \in JobsIn(ch), NEW y \in JobsIn(ch), x # y
      PROVE  <<x, y>> \in Order(Q) \/ <<y, x>> \in Order(Q)
  <2>1. PICK i \in DOMAIN ch : x = Job(ch[i])
    BY DEF JobsIn
  <2>2. PICK j \in DOMAIN ch : y = Job(ch[j])
    BY DEF JobsIn
  <2>3. i < j \/ j < i
    BY <1>1, <1>4, <2>1, <2>2
  <2> QED
    BY <2>1, <2>2, <2>3, OrderMember
<1>5. ASSUME NEW x \in JobsIn(ch), NEW y \in Jobs(Q), <<x, y>> \in Order(Q) \/ <<y, x>> \in Order(Q)
      PROVE  y \in JobsIn(ch)
  <2>1. PICK q \in Q : \E i, j \in DOMAIN q : x = Job(q[i]) /\ y = Job(q[j])
    BY <1>5, OrderMember
  <2>2. PICK i \in DOMAIN q, j \in DOMAIN q : x = Job(q[i]) /\ y = Job(q[j])
    BY <2>1
  <2>3. PICK k \in DOMAIN ch : x = Job(ch[k])
    BY DEF JobsIn
  <2>4. Job(q[i]) = Job(ch[k])
    BY <2>2, <2>3
  <2>5. q = ch
    BY <2>4, JobPlace, Zenon
  <2> QED
    BY <2>2, <2>5 DEF JobsIn
<1> QED
  BY <1>2, <1>3, <1>4, <1>5 DEF Together

LEMMA ChainIsPlace ==
  ASSUME NEW A, NEW Q, NEW K, NEW w, Typed(A, Q, K), NEW a \in Activities,
         NEW ch, ch = ChainFor(A, Q, a)
  PROVE  /\ PlaceOf(Jobs(Q), Order(Q), a, JobsIn(ch))
         /\ ch \in Q \cup {<< >>}
         /\ ch \in Q <=> JobsIn(ch) # {}
         /\ \A q \in Q : \A i \in DOMAIN q : q[i].of = a => q = ch
PROOF
<1>1. Chained(Q) /\ HookedIn(A, Q) /\ Hooks(A)
  BY TypedHooks DEF Typed
<1>2. A[a].hooked = << >> <=> \A c \in Jobs(Q) : c.of # a
  BY <1>1, HookedJobs
<1>3. CASE A[a].hooked = << >>
  <2>1. ch = << >> /\ << >> \notin Q
    BY <1>1, <1>3 DEF Chained, ChainFor
  <2>2. JobsIn(ch) = {}
    BY <2>1 DEF JobsIn
  <2>3. PlaceOf(Jobs(Q), Order(Q), a, JobsIn(ch))
    BY <1>2, <1>3, <2>2 DEF PlaceOf, Together
  <2>4. ASSUME NEW q \in Q, NEW i \in DOMAIN q, q[i].of = a
        PROVE  FALSE
    <3>1. Job(q[i]) \in Jobs(Q) /\ Job(q[i]).of = a
      BY <2>4, JobMember, JobFields
    <3> QED
      BY <3>1, <1>2, <1>3
  <2> QED
    BY <2>1, <2>2, <2>3, <2>4
<1>4. CASE A[a].hooked # << >>
  <2>1. ch = CHOOSE chain \in Q : \E i \in DOMAIN chain : chain[i].id = Head(A[a].hooked)
    BY <1>4 DEF ChainFor
  <2>2. /\ ch \in Q
        /\ \A q \in Q : \A i \in DOMAIN q : q[i].of = a => q = ch
    BY <1>1, <1>4, <2>1, ChainOfAll
  <2> HIDE <2>1
  <2>3. Together(Jobs(Q), Order(Q), JobsIn(ch)) /\ JobsIn(ch) # {}
    BY <1>1, <2>2, ChainTogether
  <2>4. ASSUME NEW x \in Jobs(Q), x.of = a
        PROVE  x \in JobsIn(ch)
    <3>1. PICK q \in Q : \E i \in DOMAIN q : x = Job(q[i])
      BY JobMember
    <3>2. PICK i \in DOMAIN q : x = Job(q[i])
      BY <3>1
    <3>3. q[i].of = a
      BY <3>2, <2>4, JobFields
    <3> QED
      BY <2>2, <3>2, <3>3 DEF JobsIn
  <2> QED
    BY <1>2, <1>4, <2>2, <2>3, <2>4 DEF PlaceOf
<1> QED
  BY <1>3, <1>4

\* The command has joined the chain of Activity a.
Joined(A, Q, K, w, a, c, R, P) ==
  /\ Enqueue(State(A, Q, K, w), a, c) = State(WithHook(A, c), R, K, w)
  /\ Typed(WithHook(A, c), R, K)
  /\ PlaceOf(Jobs(Q), Order(Q), a, P)
  /\ Adds(Q, R, c, P)
  /\ c \in Command

Joins(A, Q, K, w, a, c) == \E R, P : Joined(A, Q, K, w, a, c, R, P)

\* Enqueue, as the jobs see it.
LEMMA EnqueueAdds ==
  ASSUME NEW A, NEW Q, NEW K, NEW w, Typed(A, Q, K), NEW a \in Activities, NEW b \in Activities,
         NEW kind \in {"store", "delete", "noop"},
         NEW finish \in {"create", "update", "end", "replace"},
         NEW c, c = NewCommand(State(A, Q, K, w), kind, b, finish),
         b = a \/ \A y \in Jobs(Q) : y.of = b => \E x \in Jobs(Q) : x.of = a /\ <<y, x>> \in Order(Q)
  PROVE  Joins(A, Q, K, w, a, c)
PROOF
<1> DEFINE ch == ChainFor(A, Q, a)
           R == Extended(Q, ch, c)
           P == JobsIn(ch)
<1>1. Chained(Q) /\ HookedIn(A, Q) /\ Hooks(A) /\ InTurn(Q)
  BY TypedHooks DEF Typed
<1>2. c \in Command /\ c.id \notin IdsIn(Q) /\ c.status = "waiting"
  BY <1>1, CommandIsNew
<1>3. /\ PlaceOf(Jobs(Q), Order(Q), a, P)
      /\ ch \in Q \cup {<< >>}
      /\ ch \in Q <=> P # {}
      /\ \A q \in Q : \A i \in DOMAIN q : q[i].of = a => q = ch
  BY ChainIsPlace
<1>4. PICK d : d = ch
  OBVIOUS
<1>5. d = ChainFor(A, Q, a)
  BY <1>4
<1> HIDE DEF ch
<1>6. \A k \in DOMAIN A[b].hooked : \E i \in DOMAIN d : d[i].id = A[b].hooked[k]
  <2>1. SUFFICES ASSUME NEW k \in DOMAIN A[b].hooked
                 PROVE  \E i \in DOMAIN d : d[i].id = A[b].hooked[k]
    OBVIOUS
  <2>2. PICK q \in Q : \E i \in DOMAIN q : q[i].id = A[b].hooked[k] /\ q[i].of = b
    BY <1>1 DEF HookedIn
  <2>3. PICK i \in DOMAIN q : q[i].id = A[b].hooked[k] /\ q[i].of = b
    BY <2>2
  <2>4. q = d
    <3>1. CASE b = a
      BY <3>1, <1>3, <1>4, <2>3
    <3>2. CASE b # a
      <4>1. Job(q[i]) \in Jobs(Q) /\ Job(q[i]).of = b
        BY <2>3, JobMember, JobFields
      <4>2. PICK x \in Jobs(Q) : x.of = a /\ <<Job(q[i]), x>> \in Order(Q)
        BY <4>1, <3>2
      <4>3. PICK p \in Q : \E l, j \in DOMAIN p : Job(q[i]) = Job(p[l]) /\ x = Job(p[j])
        BY <4>2, OrderMember
      <4>4. PICK l \in DOMAIN p, j \in DOMAIN p : Job(q[i]) = Job(p[l]) /\ x = Job(p[j])
        BY <4>3
      <4>5. p = q
        BY <4>4, <1>1, JobPlace, Zenon
      <4>6. p[j].of = a
        BY <4>2, <4>4, JobFields
      <4> QED
        BY <4>5, <4>6, <1>3, <1>4
    <3> QED
      BY <3>1, <3>2
  <2> QED
    BY <2>3, <2>4
<1>7. /\ Enqueue(State(A, Q, K, w), a, c) = State(WithHook(A, c), Extended(Q, d, c), K, w)
      /\ Typed(WithHook(A, c), Extended(Q, d, c), K)
  <2> HIDE DEF R, P
  <2>1. /\ Typed(A, Q, K) /\ a \in Activities /\ b \in Activities
        /\ kind \in {"store", "delete", "noop"}
        /\ finish \in {"create", "update", "end", "replace"}
        /\ c = NewCommand(State(A, Q, K, w), kind, b, finish)
    OBVIOUS
  <2> QED
    BY ONLY <1>5, <1>6, <2>1, Enqueued
<1>8. Adds(Q, R, c, P)
  <2>1. /\ \A x : x \in Jobs(R) <=> x \in Jobs(Q) \/ x = Job(c)
        /\ \A x, y : <<x, y>> \in Order(R) <=>
                       <<x, y>> \in Order(Q) \/ (x \in JobsIn(ch) /\ y = Job(c))
        /\ Job(c) \notin Jobs(Q)
    BY <1>1, <1>2, <1>3, ExtendChained
  <2>2. HeadsOf(R) = IF ch \in Q THEN HeadsOf(Q) ELSE HeadsOf(Q) \cup {c}
    BY <1>1, <1>2, <1>3, ExtendHeads
  <2> QED
    BY <1>3, <2>1, <2>2 DEF Adds
<1> HIDE DEF P
<1>9. Joined(A, Q, K, w, a, c, R, P)
  BY <1>2, <1>3, <1>4, <1>7, <1>8 DEF Joined
<1> HIDE DEF R
<1> QED
  BY <1>9 DEF Joins

IsNew(c, kind, a, finish) ==
  c \in Command /\ c.kind = kind /\ c.of = a /\ c.finish = finish /\ c.status = "waiting"

\* State s is that with two commands hooked, one behind the other.
BothGot(Q, K, w, old, A1, kind, a, finish, kind2, b, finish2, c, d, R, S, P, s) ==
  /\ s = State(WithHook(WithHook(A1, c), d), S, K, w)
  /\ Typed(WithHook(WithHook(A1, c), d), S, K)
  /\ IsNew(c, kind, a, finish) /\ IsNew(d, kind2, b, finish2)
  /\ PlaceOf(Jobs(Q), Order(Q), old, P)
  /\ Adds(Q, R, c, P) /\ Adds(R, S, d, P \cup {Job(c)})

BothGet(Q, K, w, old, A1, kind, a, finish, kind2, b, finish2, s) ==
  \E c, d, R, S, P : BothGot(Q, K, w, old, A1, kind, a, finish, kind2, b, finish2, c, d, R, S, P, s)

\* Two commands, of an Activity that has some and of one that has none.
LEMMA BothEnqueued ==
  ASSUME NEW A, NEW Q, NEW K, NEW w, Typed(A, Q, K), NEW old \in Activities,
         NEW a \in Activities, NEW b \in Activities,
         NEW kind \in {"store", "delete", "noop"}, NEW kind2 \in {"store", "delete", "noop"},
         NEW finish \in {"create", "update", "end", "replace"},
         NEW finish2 \in {"create", "update", "end", "replace"},
         a = old \/ \A y \in Jobs(Q) : y.of # a,
         b = old \/ \A y \in Jobs(Q) : y.of # b,
         a # b
  PROVE  BothGet(Q, K, w, old, A, kind, a, finish, kind2, b, finish2,
                 EnqueueBoth(State(A, Q, K, w), old, kind, a, finish, kind2, b, finish2))
PROOF
<1> DEFINE c == NewCommand(State(A, Q, K, w), kind, a, finish)
<1>1. Chained(Q)
  BY DEF Typed
<1>2. IsNew(c, kind, a, finish)
  BY <1>1, CommandIsNew DEF IsNew
<1>3. PICK c1 : c1 = c
  OBVIOUS
<1>4. c1 = NewCommand(State(A, Q, K, w), kind, a, finish)
  BY <1>3
<1> HIDE DEF c
<1>5. Joins(A, Q, K, w, old, c1)
  <2>1. a = old \/ \A y \in Jobs(Q) : y.of = a => \E x \in Jobs(Q) : x.of = old /\ <<y, x>> \in Order(Q)
    OBVIOUS
  <2> QED
    BY <1>4, <2>1, EnqueueAdds
<1>6. PICK R, P : Joined(A, Q, K, w, old, c1, R, P)
  BY <1>5 DEF Joins
<1>7. /\ Enqueue(State(A, Q, K, w), old, c) = State(WithHook(A, c), R, K, w)
      /\ Typed(WithHook(A, c), R, K)
      /\ PlaceOf(Jobs(Q), Order(Q), old, P)
      /\ Adds(Q, R, c, P)
      /\ c \in Command
  BY <1>3, <1>6 DEF Joined
<1> USE DEF c
<1> DEFINE d == NewCommand(State(WithHook(A, c), R, K, w), kind2, b, finish2)
<1>8. Chained(R)
  BY <1>7 DEF Typed
<1>9. IsNew(d, kind2, b, finish2)
  <2> HIDE DEF c
  <2> QED
    BY <1>8, CommandIsNew DEF IsNew
<1>10. EnqueueBoth(State(A, Q, K, w), old, kind, a, finish, kind2, b, finish2) =
        Enqueue(State(WithHook(A, c), R, K, w), a, d)
  BY <1>7 DEF EnqueueBoth
<1>11. PICK d1 : d1 = d
  OBVIOUS
<1> HIDE DEF c
<1>12. d1 = NewCommand(State(WithHook(A, c1), R, K, w), kind2, b, finish2)
  BY <1>3, <1>11
<1> HIDE DEF d
<1>13. Job(c1).of = a
  BY <1>2, <1>3, JobFields DEF IsNew
<1>14. \A y \in Jobs(R) : y.of = b => \E x \in Jobs(R) : x.of = a /\ <<y, x>> \in Order(R)
  <2>1. SUFFICES ASSUME NEW y \in Jobs(R), y.of = b
                 PROVE  <<y, Job(c1)>> \in Order(R)
    <3>1. Job(c1) \in Jobs(R)
      BY <1>7, <1>3 DEF Adds
    <3> QED
      BY <1>13, <3>1
  <2>2. y \in Jobs(Q)
    BY <1>7, <1>3, <1>13, <2>1 DEF Adds
  <2>3. b = old
    BY <2>1, <2>2
  <2>4. y \in P
    BY <1>7, <2>1, <2>2, <2>3 DEF PlaceOf
  <2> QED
    BY <1>7, <1>3, <2>4 DEF Adds
<1>15. Typed(WithHook(A, c1), R, K)
  BY <1>7, <1>3
<1>16. Joins(WithHook(A, c1), R, K, w, a, d1)
  BY <1>12, <1>14, <1>15, EnqueueAdds
<1>17. PICK S, P2 : Joined(WithHook(A, c1), R, K, w, a, d1, S, P2)
  BY <1>16 DEF Joins
<1>18. /\ Enqueue(State(WithHook(A, c1), R, K, w), a, d1) =
             State(WithHook(WithHook(A, c1), d1), S, K, w)
       /\ Typed(WithHook(WithHook(A, c1), d1), S, K)
       /\ PlaceOf(Jobs(R), Order(R), a, P2)
       /\ Adds(R, S, d1, P2)
  BY <1>17 DEF Joined
<1>19. P2 = P \cup {Job(c1)}
  <2>1. Job(c1) \in Jobs(R) /\ Job(c1) \in P2
    BY <1>7, <1>3, <1>13, <1>18 DEF Adds, PlaceOf
  <2>2. \A y \in Jobs(R) : y \in P2 <=> Job(c1) = y \/ <<Job(c1), y>> \in Order(R) \/ <<y, Job(c1)>> \in Order(R)
    BY <1>18, <2>1 DEF PlaceOf, Together
  <2>3. \A x, y : <<x, y>> \in Order(Q) => x \in Jobs(Q) /\ y \in Jobs(Q)
    BY DEF Order
  <2>4. \A y : <<Job(c1), y>> \in Order(R) => Job(c1) \in P
    BY <2>3, <1>7, <1>3 DEF Adds
  <2>5. P \subseteq Jobs(Q) /\ Job(c1) \notin Jobs(Q)
    BY <1>7, <1>3 DEF Adds, PlaceOf, Together
  <2>6. \A y : <<y, Job(c1)>> \in Order(R) <=> y \in P
    BY <2>3, <2>5, <1>7, <1>3 DEF Adds
  <2>7. P2 \subseteq Jobs(R) /\ P \subseteq Jobs(R)
    BY <2>5, <1>7, <1>18 DEF PlaceOf, Together, Adds
  <2> QED
    BY <2>1, <2>2, <2>4, <2>5, <2>6, <2>7
<1>20. PICK s : s = EnqueueBoth(State(A, Q, K, w), old, kind, a, finish, kind2, b, finish2)
  OBVIOUS
<1>21. BothGot(Q, K, w, old, A, kind, a, finish, kind2, b, finish2, c1, d1, R, S, P, s)
  BY <1>2, <1>7, <1>9, <1>10, <1>3, <1>11, <1>18, <1>19, <1>20 DEF BothGot
<1> QED
  BY <1>20, <1>21 DEF BothGet

\* State s is that with command c hooked to Activity a.
Got(Q, K, w, a, A1, K1, kind, finish, c, R, P, s) ==
  /\ s = State(WithHook(A1, c), R, K1, w)
  /\ Typed(WithHook(A1, c), R, K1)
  /\ IsNew(c, kind, a, finish)
  /\ PlaceOf(Jobs(Q), Order(Q), a, P)
  /\ Adds(Q, R, c, P)

Ensured(A, Q, K, w, a, kind, finish, s) ==
  \/ /\ A[a].persistent
     /\ \E A1, K1, c, R, P : TokenFor(A, K, a, A1, K1) /\ Got(Q, K, w, a, A1, K1, kind, finish, c, R, P, s)
  \/ /\ ~A[a].persistent /\ ~\A x \in Jobs(Q) : x.of # a
     /\ \E c, R, P : Got(Q, K, w, a, A, K, "noop", finish, c, R, P, s)
  \/ /\ ~A[a].persistent /\ \A x \in Jobs(Q) : x.of # a
     /\ \E c : s = Finish(State(A, Q, K, w), c) /\ IsNew(c, "noop", a, finish)

\* EnsureCompletion: a command, or a noop, or it is finished at once.
LEMMA CompletionEnsured ==
  ASSUME NEW A, NEW Q, NEW K, NEW w, Typed(A, Q, K), NEW a \in Activities,
         NEW kind \in {"store", "delete"},
         NEW finish \in {"create", "update", "end", "replace"}
  PROVE  Ensured(A, Q, K, w, a, kind, finish, EnsureCompletion(State(A, Q, K, w), a, kind, finish))
PROOF
<1> DEFINE after == EnsureCompletion(State(A, Q, K, w), a, kind, finish)
<1>1. Chained(Q) /\ HookedIn(A, Q) /\ Hooks(A)
  BY TypedHooks DEF Typed
<1>2. A[a].hooked = << >> <=> \A c \in Jobs(Q) : c.of # a
  BY <1>1, HookedJobs
<1>3. State(A, Q, K, w).act = A
  BY DEF State
<1>4. CASE A[a].persistent
  <2>1. PICK A1, K1 : /\ EnsureToken(State(A, Q, K, w), a) = State(A1, Q, K1, w)
                      /\ TokenFor(A, K, a, A1, K1) /\ Typed(A1, Q, K1)
    BY TokenEnsured
  <2> DEFINE c == NewCommand(State(A1, Q, K1, w), kind, a, finish)
  <2>2. after = Enqueue(State(A1, Q, K1, w), a, c)
    BY <1>3, <1>4, <2>1 DEF EnsureCompletion
  <2>3. PICK d : d = c
    OBVIOUS
  <2>4. d = NewCommand(State(A1, Q, K1, w), kind, a, finish)
    BY <2>3
  <2> HIDE DEF c, after
  <2>5. IsNew(d, kind, a, finish)
    BY <1>1, <2>4, CommandIsNew DEF IsNew
  <2>6. Joins(A1, Q, K1, w, a, d)
    BY <2>1, <2>4, EnqueueAdds
  <2>7. PICK R, P : Joined(A1, Q, K1, w, a, d, R, P)
    BY <2>6 DEF Joins
  <2> QED
    BY <1>4, <2>1, <2>2, <2>3, <2>5, <2>7 DEF after, Joined, Ensured, Got
<1>5. CASE ~A[a].persistent /\ A[a].hooked # << >>
  <2> DEFINE c == NewCommand(State(A, Q, K, w), "noop", a, finish)
  <2>1. after = Enqueue(State(A, Q, K, w), a, c)
    BY <1>3, <1>5 DEF EnsureCompletion
  <2>2. PICK d : d = c
    OBVIOUS
  <2>3. d = NewCommand(State(A, Q, K, w), "noop", a, finish)
    BY <2>2
  <2> HIDE DEF c, after
  <2>4. IsNew(d, "noop", a, finish)
    BY <1>1, <2>3, CommandIsNew DEF IsNew
  <2>5. Joins(A, Q, K, w, a, d)
    BY <2>3, EnqueueAdds
  <2>6. PICK R, P : Joined(A, Q, K, w, a, d, R, P)
    BY <2>5 DEF Joins
  <2> QED
    BY <1>2, <1>5, <2>1, <2>2, <2>4, <2>6 DEF after, Joined, Ensured, Got
<1>6. CASE ~A[a].persistent /\ A[a].hooked = << >>
  <2> DEFINE c == NewCommand(State(A, Q, K, w), "noop", a, finish)
  <2>1. after = Finish(State(A, Q, K, w), c)
    BY <1>3, <1>6 DEF EnsureCompletion
  <2>2. PICK d : d = c
    OBVIOUS
  <2>3. d = NewCommand(State(A, Q, K, w), "noop", a, finish)
    BY <2>2
  <2> HIDE DEF c, after
  <2>4. IsNew(d, "noop", a, finish)
    BY <1>1, <2>3, CommandIsNew DEF IsNew
  <2> QED
    BY <1>2, <1>6, <2>1, <2>2, <2>4 DEF after, Ensured
<1> QED
  BY <1>4, <1>5, <1>6

\* The Activity gives its name up.
Unnamed(A, a) == [A EXCEPT ![a].named = FALSE]

\* What Finish does.
ToldStored(w, c) ==
  IF c.kind = "store" THEN [of |-> c.of, version |-> c.version]
  ELSE IF c.finish = "create" THEN Nothing ELSE w

ToldEnded(w, c) == IF w.of = c.of THEN Nothing ELSE w

Finished(A, w, c, A2, w2) ==
  \/ c.finish \in {"create", "update"} /\ A2 = A /\ w2 = ToldStored(w, c)
  \/ c.finish = "end" /\ A2 = Unnamed(A, c.of) /\ w2 = ToldEnded(w, c)
  \/ c.finish = "replace" /\ A2 = WithToken(A, c.of, None) /\ w2 = w

LEMMA StateFields ==
  ASSUME NEW A, NEW Q, NEW K, NEW w
  PROVE  /\ State(A, Q, K, w).act = A /\ State(A, Q, K, w).chains = Q
         /\ State(A, Q, K, w).token = K /\ State(A, Q, K, w).told = w
PROOF
<1> QED
  BY DEF State

\* Finish, on the state.
LEMMA FinishDoes ==
  ASSUME NEW A, NEW Q, NEW K, NEW w, NEW c, c.finish \in {"create", "update", "end", "replace"}
  PROVE  \E A2, w2 : Finish(State(A, Q, K, w), c) = State(A2, Q, K, w2) /\ Finished(A, w, c, A2, w2)
PROOF
<1>1. CASE c.finish \in {"create", "update"}
  <2>1. Finish(State(A, Q, K, w), c) = FinishStored(State(A, Q, K, w), c)
    BY <1>1 DEF Finish
  <2>2. FinishStored(State(A, Q, K, w), c) = State(A, Q, K, ToldStored(w, c))
    BY DEF FinishStored, State, ToldStored
  <2>3. Finished(A, w, c, A, ToldStored(w, c))
    BY <1>1 DEF Finished
  <2> QED
    BY <2>1, <2>2, <2>3
<1>2. CASE c.finish = "end"
  <2>1. Finish(State(A, Q, K, w), c) = FinishEnd(State(A, Q, K, w), c)
    BY <1>2 DEF Finish
  <2>2. FinishEnd(State(A, Q, K, w), c) = State(Unnamed(A, c.of), Q, K, ToldEnded(w, c))
    <3>1. PICK x : x = ToldEnded(w, c)
      OBVIOUS
    <3>2. x = IF State(A, Q, K, w).told.of = c.of THEN Nothing ELSE State(A, Q, K, w).told
      BY <3>1 DEF State, ToldEnded
    <3>3. FinishEnd(State(A, Q, K, w), c) =
            [State(A, Q, K, w) EXCEPT !.act[c.of].named = FALSE, !.told = x]
      BY <3>2 DEF FinishEnd
    <3> QED
      <4>1. [State(A, Q, K, w) EXCEPT !.act[c.of].named = FALSE, !.told = x] =
              State(Unnamed(A, c.of), Q, K, x)
        <5>1. PICK a, f : a = c.of /\ f = FALSE
          OBVIOUS
        <5>2. PICK B : B = [A EXCEPT ![a].named = f]
          OBVIOUS
        <5>3. PICK s : s = State(A, Q, K, w)
          OBVIOUS
        <5>4. [s EXCEPT !.act[a].named = f] = State(B, Q, K, w)
          BY <5>2, <5>3 DEF State
        <5>5. PICK u : u = State(B, Q, K, w)
          OBVIOUS
        <5>6. [u EXCEPT !.told = x] = State(B, Q, K, x)
          BY <5>5 DEF State
        <5>7. [s EXCEPT !.act[a].named = f, !.told = x] = [[s EXCEPT !.act[a].named = f] EXCEPT !.told = x]
          OBVIOUS
        <5>8. [s EXCEPT !.act[a].named = f, !.told = x] = State(B, Q, K, x)
          BY <5>4, <5>5, <5>6, <5>7
        <5>9. B = Unnamed(A, c.of)
          BY <5>1, <5>2 DEF Unnamed
        <5> QED
          BY <5>1, <5>3, <5>8, <5>9
      <4> QED
        BY <3>1, <3>3, <4>1
  <2>3. Finished(A, w, c, Unnamed(A, c.of), ToldEnded(w, c))
    BY <1>2 DEF Finished
  <2> QED
    BY <2>1, <2>2, <2>3
<1>3. CASE c.finish = "replace"
  <2>1. Finish(State(A, Q, K, w), c) = FinishReplaceActivity(State(A, Q, K, w), c)
    BY <1>3 DEF Finish
  <2>2. FinishReplaceActivity(State(A, Q, K, w), c) = State(WithToken(A, c.of, None), Q, K, w)
    BY DEF FinishReplaceActivity, State, WithToken
  <2>3. Finished(A, w, c, WithToken(A, c.of, None), w)
    BY <1>3 DEF Finished
  <2> QED
    BY <2>1, <2>2, <2>3
<1> QED
  BY <1>1, <1>2, <1>3

LEMMA UnnamedFields ==
  ASSUME NEW A \in [Activities -> ActivityState], NEW a \in Activities
  PROVE  /\ Unnamed(A, a) \in [Activities -> ActivityState]
         /\ \A x \in Activities : x # a => Unnamed(A, a)[x] = A[x]
         /\ Unnamed(A, a)[a].life = A[a].life /\ ~Unnamed(A, a)[a].named
         /\ Unnamed(A, a)[a].persistent = A[a].persistent
         /\ Unnamed(A, a)[a].ending = A[a].ending
         /\ Unnamed(A, a)[a].intCommand = A[a].intCommand
         /\ Unnamed(A, a)[a].extCommand = A[a].extCommand
         /\ Unnamed(A, a)[a].version = A[a].version
         /\ Unnamed(A, a)[a].token = A[a].token
         /\ Unnamed(A, a)[a].hooked = A[a].hooked
PROOF
<1> DEFINE n == [A[a] EXCEPT !.named = FALSE]
<1>1. A[a] \in ActivityState
  OBVIOUS
<1>2. n \in ActivityState
  BY <1>1 DEF ActivityState
<1>3. /\ n.hooked = A[a].hooked /\ n.life = A[a].life /\ ~n.named
      /\ n.persistent = A[a].persistent /\ n.ending = A[a].ending /\ n.intCommand = A[a].intCommand
      /\ n.extCommand = A[a].extCommand /\ n.version = A[a].version /\ n.token = A[a].token
  BY <1>1 DEF ActivityState
<1>4. Unnamed(A, a) = [A EXCEPT ![a] = n]
  BY DEF Unnamed
<1> HIDE DEF n
<1> QED
  BY <1>2, <1>3, <1>4

LEMMA FinishedTyped ==
  ASSUME NEW A \in [Activities -> ActivityState], NEW w, NEW c \in Command, NEW A2, NEW w2,
         Finished(A, w, c, A2, w2)
  PROVE  /\ A2 \in [Activities -> ActivityState]
         /\ \A x \in Activities : A2[x].hooked = A[x].hooked
PROOF
<1>1. c.of \in Activities
  BY DEF Command
<1>2. CASE A2 = Unnamed(A, c.of)
  BY <1>1, <1>2, UnnamedFields
<1>3. CASE A2 = WithToken(A, c.of, None)
  BY <1>1, <1>3, WithTokenFields
<1> QED
  BY <1>2, <1>3 DEF Finished

\* The command is unhooked.
Unhooked(A, a) == [A EXCEPT ![a].hooked = Tail(@)]

LEMMA UnhookedFields ==
  ASSUME NEW A \in [Activities -> ActivityState], NEW a \in Activities, A[a].hooked # << >>
  PROVE  /\ Unhooked(A, a) \in [Activities -> ActivityState]
         /\ \A x \in Activities :
              /\ Unhooked(A, a)[x].hooked = IF x = a THEN Tail(A[x].hooked) ELSE A[x].hooked
              /\ Kept(A[x], Unhooked(A, a)[x])
              /\ Unhooked(A, a)[x].token = A[x].token
PROOF
<1> DEFINE n == [A[a] EXCEPT !.hooked = Tail(@)]
<1>1. A[a] \in ActivityState /\ Tail(A[a].hooked) \in Seq(Ids)
  <2>1. A[a].hooked \in Seq(Ids)
    BY DEF ActivityState
  <2> QED
    BY <2>1
<1>2. n \in ActivityState
  BY <1>1 DEF ActivityState
<1>3. n.hooked = Tail(A[a].hooked) /\ Kept(A[a], n) /\ n.token = A[a].token
  BY <1>1 DEF ActivityState, Kept
<1>4. Unhooked(A, a) = [A EXCEPT ![a] = n]
  BY DEF Unhooked
<1> HIDE DEF n
<1>5. Unhooked(A, a) \in [Activities -> ActivityState]
  BY <1>2, <1>4
<1>6. Unhooked(A, a)[a] = n /\ \A x \in Activities : x # a => Unhooked(A, a)[x] = A[x]
  BY <1>4
<1> QED
  BY <1>3, <1>5, <1>6 DEF Kept

\* The first command of a chain is done with.
Takes(Q, R, c) ==
  /\ \A x : x \in Jobs(R) <=> x \in Jobs(Q) /\ x # Job(c)
  /\ \A x, y : <<x, y>> \in Order(R) <=> <<x, y>> \in Order(Q) /\ x # Job(c)
  /\ \A h \in HeadsOf(Q) : h # c => h \in HeadsOf(R)
  /\ \A h \in HeadsOf(R) : h.status # "waiting" => h \in HeadsOf(Q) \ {c}

\* State s is that with the first command of q done with.
CompletedTo(A, Q, K, w, q, s, A2, w2) ==
  /\ s = State(Unhooked(A2, q[1].of), Removed(Q, q), K, w2)
  /\ Finished(A, w, q[1], A2, w2)
  /\ Typed(Unhooked(A2, q[1].of), Removed(Q, q), K)
  /\ Takes(Q, Removed(Q, q), q[1])
  /\ A2 \in [Activities -> ActivityState]
  /\ A2[q[1].of].hooked # << >>

Completed(A, Q, K, w, q, s) == \E A2, w2 : CompletedTo(A, Q, K, w, q, s, A2, w2)

\* Complete, on the state.
LEMMA CompleteDoes ==
  ASSUME NEW A, NEW Q, NEW K, NEW w, Typed(A, Q, K), NEW q \in Q
  PROVE  Completed(A, Q, K, w, q, Complete(State(A, Q, K, w), q))
PROOF
<1> DEFINE c == q[1]
           R == Removed(Q, q)
<1>1. /\ A \in [Activities -> ActivityState] /\ K \in [Tokens -> TokenState]
      /\ Chained(Q) /\ HookedIn(A, Q) /\ InTurn(Q) /\ Hooks(A)
  BY TypedHooks DEF Typed
<1>2. Head(q) = c /\ c \in Command
  BY <1>1, ChainedCommand
<1>3. c.of \in Activities /\ c.finish \in {"create", "update", "end", "replace"}
  BY <1>2 DEF Command
<1>4. PICK A2, w2 : Finish(State(A, Q, K, w), c) = State(A2, Q, K, w2) /\ Finished(A, w, c, A2, w2)
  BY <1>3, FinishDoes
<1>5. /\ A2 \in [Activities -> ActivityState]
      /\ \A x \in Activities : A2[x].hooked = A[x].hooked
  BY <1>1, <1>2, <1>4, FinishedTyped
<1>6. HookedIn(A2, Q) /\ Hooks(A2)
  BY <1>1, <1>5, HookedSame
<1>7. RemoveAt(A2[c.of].hooked, CHOOSE i \in DOMAIN A2[c.of].hooked : A2[c.of].hooked[i] = c.id) =
        Tail(A2[c.of].hooked)
  BY <1>1, <1>6, UnhookedIsTail
<1>8. A2[c.of].hooked # << >>
  BY <1>1, <1>6, HeadIsFirst
<1>9. Complete(State(A, Q, K, w), q) = State(Unhooked(A2, c.of), R, K, w2)
  <2>1. PICK k : k = Tail(A2[c.of].hooked)
    OBVIOUS
  <2>2. PICK y : y = (Q \ {q}) \cup ({Tail(q)} \ {<< >>})
    OBVIOUS
  <2>3. PICK t : t = State(A2, Q, K, w2)
    OBVIOUS
  <2>4. t.act = A2 /\ t.chains = Q
    BY <2>3, StateFields
  <2>5. k = RemoveAt(t.act[c.of].hooked,
                     CHOOSE i \in DOMAIN t.act[c.of].hooked : t.act[c.of].hooked[i] = c.id)
    BY <1>7, <2>1, <2>4
  <2>6. y = (t.chains \ {q}) \cup ({Tail(q)} \ {<< >>})
    BY <2>2, <2>4, SMTT(60)
  <2>7. Complete(State(A, Q, K, w), q) = [t EXCEPT !.act[c.of].hooked = k, !.chains = y]
    <3> HIDE DEF R
    <3> QED
      BY <1>2, <1>4, <2>3, <2>5, <2>6, ZenonT(60) DEF Complete
  <2>8. Complete(State(A, Q, K, w), q) = State([A2 EXCEPT ![c.of].hooked = k], y, K, w2)
    <3>1. [State(A2, Q, K, w2) EXCEPT !.act[c.of].hooked = k, !.chains = y] =
            State([A2 EXCEPT ![c.of].hooked = k], y, K, w2)
      <4>1. PICK a : a = c.of
        OBVIOUS
      <4>2. PICK B : B = [A2 EXCEPT ![a].hooked = k]
        OBVIOUS
      <4>3. [t EXCEPT !.act[a].hooked = k] = State(B, Q, K, w2)
        BY <2>3, <4>2 DEF State
      <4>4. PICK u : u = State(B, Q, K, w2)
        OBVIOUS
      <4>5. [u EXCEPT !.chains = y] = State(B, y, K, w2)
        BY <4>4 DEF State
      <4>6. [t EXCEPT !.act[a].hooked = k, !.chains = y] = [[t EXCEPT !.act[a].hooked = k] EXCEPT !.chains = y]
        OBVIOUS
      <4>7. [t EXCEPT !.act[a].hooked = k, !.chains = y] = State(B, y, K, w2)
        BY <4>3, <4>4, <4>5, <4>6
      <4> QED
        BY <2>3, <4>1, <4>2, <4>7
    <3> QED
      BY <2>3, <2>7, <3>1
  <2>9. [A2 EXCEPT ![c.of].hooked = k] = Unhooked(A2, c.of)
    BY <2>1 DEF Unhooked
  <2> QED
    BY <2>2, <2>8, <2>9 DEF Removed
<1>10. \A x \in Activities :
         Unhooked(A2, c.of)[x].hooked = IF x = c.of THEN Tail(A2[x].hooked) ELSE A2[x].hooked
  BY <1>3, <1>5, <1>8, UnhookedFields
<1>11. /\ Chained(R) /\ HookedIn(Unhooked(A2, c.of), R)
       /\ \A x : x \in Jobs(R) <=> x \in Jobs(Q) /\ x # Job(c)
       /\ \A x, y : <<x, y>> \in Order(R) <=> <<x, y>> \in Order(Q) /\ x # Job(c)
  BY <1>1, <1>6, <1>10, RemoveChained
<1>12. /\ q \in Seq(Command) /\ q # << >>
       /\ \A p \in Q : 1 \in DOMAIN p
       /\ \A p \in Q : \A i \in DOMAIN p : i \in Nat
  BY <1>1, ChainedCommand
<1>13. /\ \A i : i \in DOMAIN Tail(q) <=> i \in Nat \ {0} /\ i + 1 \in DOMAIN q
       /\ \A i \in DOMAIN Tail(q) : Tail(q)[i] = q[i + 1] /\ i \in Nat /\ i >= 1
       /\ (DOMAIN Tail(q) # {} <=> Tail(q) # << >>)
       /\ DOMAIN q = 1..Len(q) /\ Len(q) \in Nat /\ DOMAIN Tail(q) = 1..(Len(q) - 1)
  BY <1>12, TailOf
<1>14. \A i \in DOMAIN Tail(q) : Tail(q)[i].status = "waiting"
  <2>1. \A i \in DOMAIN Tail(q) : i + 1 \in DOMAIN q /\ i + 1 # 1
    BY <1>13
  <2> QED
    BY <1>1, <1>13, <2>1 DEF InTurn
<1>15. InTurn(R)
  BY <1>1, <1>14 DEF InTurn, Removed
<1>16. Typed(Unhooked(A2, c.of), R, K)
  <2>1. Unhooked(A2, c.of) \in [Activities -> ActivityState]
    BY <1>3, <1>5, <1>8, UnhookedFields
  <2> QED
    BY <1>1, <1>11, <1>15, <2>1 DEF Typed
<1>17. \A p \in Q : p[1] = c => p = q
  <2>1. \A p \in Q : p[1].id = q[1].id => p = q
    BY <1>1, <1>12 DEF Chained
  <2> QED
    BY <2>1
<1>18. \A h \in HeadsOf(Q) : h # c => h \in HeadsOf(R)
  BY DEF HeadsOf, Removed
<1>19. \A h \in HeadsOf(R) : h.status # "waiting" => h \in HeadsOf(Q) \ {c}
  <2>1. SUFFICES ASSUME NEW p \in R, p[1].status # "waiting"
                 PROVE  p[1] \in HeadsOf(Q) \ {c}
    BY DEF HeadsOf
  <2>2. CASE p \in Q \ {q}
    BY <2>2, <1>17 DEF HeadsOf
  <2>3. CASE p = Tail(q) /\ p # << >>
    <3>1. 1 \in DOMAIN p
      <4>1. DOMAIN p # {} /\ DOMAIN p = 1..(Len(q) - 1) /\ Len(q) \in Nat
        BY <1>13, <2>3
      <4> QED
        BY <4>1
    <3> QED
      BY <3>1, <1>14, <2>1, <2>3
  <2> QED
    BY <2>2, <2>3 DEF Removed
<1>20. Takes(Q, R, c)
  BY <1>11, <1>18, <1>19 DEF Takes
<1>21. PICK s : s = Complete(State(A, Q, K, w), q)
  OBVIOUS
<1>22. CompletedTo(A, Q, K, w, q, s, A2, w2)
  BY <1>4, <1>5, <1>8, <1>9, <1>16, <1>20, <1>21 DEF CompletedTo
<1> QED
  BY <1>21, <1>22 DEF Completed

\* What is known of the heads.
LEMMA HeadsFirst ==
  ASSUME NEW A, NEW Q, NEW K, Typed(A, Q, K)
  PROVE  /\ \A h \in HeadsOf(Q) : h \in Command /\ Job(h) \in Jobs(Q) /\ \A x : <<x, Job(h)>> \notin Order(Q)
         /\ \A h, g \in HeadsOf(Q) : Job(h) = Job(g) => h = g
         /\ \A x \in Jobs(Q) : \E h \in HeadsOf(Q) : x = Job(h) \/ <<Job(h), x>> \in Order(Q)
PROOF
<1>1. Chained(Q)
  BY DEF Typed
<1>2. \A q \in Q : 1 \in DOMAIN q /\ \A i \in DOMAIN q : q[i] \in Command /\ i \in Nat /\ i >= 1
  BY <1>1, ChainedCommand
<1>3. ASSUME NEW q \in Q
      PROVE  q[1] \in Command /\ Job(q[1]) \in Jobs(Q)
  BY <1>2, JobMember
<1>4. ASSUME NEW q \in Q, NEW x, <<x, Job(q[1])>> \in Order(Q)
      PROVE  FALSE
  <2>1. PICK p \in Q : \E i, j \in DOMAIN p : i < j /\ x = Job(p[i]) /\ Job(q[1]) = Job(p[j])
    BY <1>4, OrderMember
  <2>2. PICK i \in DOMAIN p, j \in DOMAIN p : i < j /\ Job(q[1]) = Job(p[j])
    BY <2>1
  <2>3. 1 \in DOMAIN q
    BY <1>2
  <2>4. 1 = j
    BY <1>1, <2>2, <2>3, JobPlace, Zenon
  <2> QED
    BY <2>2, <2>4, <1>2
<1>5. ASSUME NEW p \in Q, NEW q \in Q, Job(p[1]) = Job(q[1])
      PROVE  p[1] = q[1]
  <2>1. 1 \in DOMAIN p /\ 1 \in DOMAIN q
    BY <1>2
  <2>2. p = q
    BY <1>1, <1>5, <2>1, JobPlace, Zenon
  <2> QED
    BY <2>2
<1>6. ASSUME NEW x \in Jobs(Q)
      PROVE  \E q \in Q : x = Job(q[1]) \/ <<Job(q[1]), x>> \in Order(Q)
  <2>1. PICK q \in Q : \E i \in DOMAIN q : x = Job(q[i])
    BY JobMember
  <2>2. PICK i \in DOMAIN q : x = Job(q[i])
    BY <2>1
  <2>3. i = 1 \/ 1 < i
    BY <1>2
  <2> QED
    BY <2>2, <2>3, <1>2, OrderMember
<1> QED
  BY <1>3, <1>4, <1>5, <1>6 DEF HeadsOf

\* State s is that in which the first command of q is c.
HeadSetTo(A, Q, K, w, q, c, s, R) ==
  /\ s = State(A, R, K, w)
  /\ Typed(A, R, K)
  /\ Jobs(R) = Jobs(Q) /\ Order(R) = Order(Q)
  /\ HeadsOf(R) = (HeadsOf(Q) \ {q[1]}) \cup {c}

HeadIsSet(A, Q, K, w, q, c, s) == \E R : HeadSetTo(A, Q, K, w, q, c, s, R)

\* SetHead.
LEMMA SetHeadDoes ==
  ASSUME NEW A, NEW Q, NEW K, NEW w, Typed(A, Q, K), NEW q \in Q, NEW c \in Command, Job(c) = Job(q[1]),
         c.kind # "noop"
  PROVE  HeadIsSet(A, Q, K, w, q, c, SetHead(State(A, Q, K, w), q, c))
PROOF
<1> DEFINE n == <<c>> \o Tail(q)
           R == (Q \ {q}) \cup {n}
<1>1. /\ A \in [Activities -> ActivityState] /\ K \in [Tokens -> TokenState]
      /\ Chained(Q) /\ HookedIn(A, Q) /\ InTurn(Q)
  BY DEF Typed
<1>2. q \in Seq(Command) /\ q # << >> /\ \A p \in Q : 1 \in DOMAIN p
  BY <1>1, ChainedCommand
<1>3. /\ n \in Seq(Command) /\ DOMAIN n = DOMAIN q /\ 1 \in DOMAIN q
      /\ n[1] = c /\ \A i \in DOMAIN q : i # 1 => n[i] = q[i]
  BY <1>2, WithHead
<1>4. SetHead(State(A, Q, K, w), q, c) = State(A, R, K, w)
  <2>1. PICK x : x = R
    OBVIOUS
  <2>2. x = (State(A, Q, K, w).chains \ {q}) \cup {<<c>> \o Tail(q)}
    BY <2>1, StateFields
  <2>3. SetHead(State(A, Q, K, w), q, c) = [State(A, Q, K, w) EXCEPT !.chains = x]
    BY <2>2 DEF SetHead
  <2> QED
    <3>1. [State(A, Q, K, w) EXCEPT !.chains = x] = State(A, x, K, w)
      BY DEF State
    <3> QED
      BY <2>1, <2>3, <3>1
<1> HIDE DEF n
<1>5. \A i \in DOMAIN q : Job(n[i]) = Job(q[i])
  BY <1>3
<1>6. /\ Chained(R) /\ HookedIn(A, R)
      /\ Jobs(R) = Jobs(Q) /\ Order(R) = Order(Q)
  BY <1>1, <1>3, <1>5, SameJobs
<1>7. InTurn(R)
  BY <1>1, <1>3 DEF InTurn
<1>8. \A p \in Q : p[1] = q[1] => p = q
  <2>1. \A p \in Q : p[1].id = q[1].id => p = q
    BY <1>1, <1>2 DEF Chained
  <2> QED
    BY <2>1
<1>9. HeadsOf(R) = (HeadsOf(Q) \ {q[1]}) \cup {c}
  BY <1>3, <1>8 DEF HeadsOf
<1>10. Typed(A, R, K)
  BY <1>1, <1>6, <1>7 DEF Typed
<1>11. PICK s : s = SetHead(State(A, Q, K, w), q, c)
  OBVIOUS
<1>12. HeadSetTo(A, Q, K, w, q, c, s, R)
  BY <1>4, <1>6, <1>9, <1>10, <1>11 DEF HeadSetTo
<1> QED
  BY <1>11, <1>12 DEF HeadIsSet

-----------------------------------------------------------------------------
(* The invariant. A state is seen as the Activities A, the jobs J and their *)
(* order B, the tokens K, the records D, the heads H and what was told, w;  *)
(* V are the tokens as they will be when db8's reply is there.             *)

\* The Activities that have the name.
NamedOf(A) == {a \in Activities : A[a].life = "live" /\ A[a].named}

\* The token of the command's Activity.
TokenAt(A, c) == A[c.of].token

\* The Activity has a replacement to finish.
HasReplace(J, a) == \E d \in J : d.of = a /\ d.finish = "replace"

\* The Activity will have no token left when it is c's turn.
Replaced(J, B, c) == \E d \in J : d.of = c.of /\ d.finish = "replace" /\ <<d, c>> \in B

\* The command is going to delete what its token stands for then.
Deletes(A, J, B, c) ==
  /\ c.kind = "delete" /\ TokenAt(A, c) # None /\ ~Replaced(J, B, c)
  /\ A[c.of].named \/ HasReplace(J, c.of)

\* The command decides what is stored: it stores, it deletes, or it ends a create
\* that stores nothing.
Writer(A, J, B, c) == c.kind = "store" \/ c.finish = "create" \/ Deletes(A, J, B, c)

\* The jobs before c.
Earlier(J, B, c) == {d \in J : <<d, c>> \in B}

\* When the jobs P are done nothing is stored by token t.
Closed(A, J, B, V, t, P) ==
  /\ V[t].valid => \E d \in P : Deletes(A, J, B, d) /\ TokenAt(A, d) = t
  /\ \A e \in P : e.kind = "store" /\ TokenAt(A, e) = t =>
       \E d \in P : Deletes(A, J, B, d) /\ TokenAt(A, d) = t /\ <<e, d>> \in B

\* Activities.
OneNamed(A) == \A a, b \in NamedOf(A) : a = b

\* An Activity that is not there has no flag and no token.
Unborn(A) == \A a \in Activities : A[a].life # "live" =>
  ~A[a].ending /\ ~A[a].intCommand /\ ~A[a].extCommand /\ A[a].token = None

\* An Activity has the name till it is told to end.
NamedUnlessEnding(A) ==
  \A a \in Activities : A[a].life = "live" /\ ~A[a].intCommand /\ ~A[a].extCommand => A[a].named

\* Only an Activity that is to be stored has a token,
TokensPersist(A) == \A a \in Activities : A[a].token # None => A[a].persistent

\* and it has one if it has the name.
PersistentHave(A) == \A a \in NamedOf(A) : A[a].persistent => A[a].token # None

Lives(A) == OneNamed(A) /\ Unborn(A) /\ NamedUnlessEnding(A) /\ TokensPersist(A) /\ PersistentHave(A)

\* Jobs.
JobsLive(A, J) == \A c \in J : c.of \in Activities /\ A[c.of].life = "live"

\* What is replaced was cancelled, and its name given away.
ReplaceLeaves(A, J) == \A c \in J : c.finish = "replace" => ~A[c.of].named /\ A[c.of].intCommand

\* A command finishes an end that a client has asked for.
EndIsExternal(A, J) == \A c \in J : c.finish = "end" => A[c.of].extCommand

\* What is stored has a token; it has the name, or is going to leave the token to
\* whoever has.
StoresHave(A, J) == \A c \in J : c.kind = "store" =>
  /\ TokenAt(A, c) # None /\ c.finish \in {"create", "update"}
  /\ A[c.of].named \/ HasReplace(J, c.of)

\* A delete ends an Activity, or makes way for one that is not stored.
DeletesEnd(A, J) == \A c \in J : c.kind = "delete" =>
  c.finish \in {"end", "replace"} /\ (c.finish = "replace" => TokenAt(A, c) # None)

\* A noop stands for what would be stored, of an Activity that is not.
NoopsAreNot(A, J) == \A c \in J : c.kind = "noop" /\ c.finish # "replace" => ~A[c.of].persistent

\* A stored Activity that is ending has its delete hooked, or has lost its name.
EndingHas(A, J) == \A a \in NamedOf(A) : A[a].persistent /\ A[a].ending =>
  \E c \in J : c.of = a /\ c.finish = "end"

\* One that lost its name keeps its token only until the replacement is finished,
DetachedHas(A, J) == \A a \in Activities :
  A[a].life = "live" /\ ~A[a].named /\ ~A[a].extCommand /\ A[a].token # None => HasReplace(J, a)

\* and so does one that shares its token with another.
SharersHave(A, J) == \A a, b \in Activities :
  a # b /\ A[a].token # None /\ A[a].token = A[b].token => A[a].named \/ HasReplace(J, a)

Works(A, J) ==
  /\ JobsLive(A, J) /\ ReplaceLeaves(A, J) /\ EndIsExternal(A, J) /\ StoresHave(A, J)
  /\ DeletesEnd(A, J) /\ NoopsAreNot(A, J) /\ EndingHas(A, J) /\ DetachedHas(A, J) /\ SharersHave(A, J)

\* Their order.
EndIsLast(J, B) == \A c, d \in J : c.finish = "end" /\ c.of = d.of /\ <<c, d>> \in B => d.finish = "replace"

\* Behind a replacement, only the end of the same Activity is hooked.
ReplaceIsLast(J, B) == \A c, d \in J : c.finish = "replace" /\ c.of = d.of /\ <<c, d>> \in B => d.finish = "end"

\* A delete that makes way is followed by the noop of the create.
ReplaceThenCreate(J, B) == \A c \in J : c.kind = "delete" /\ c.finish = "replace" =>
  \E d \in J : d.kind = "noop" /\ d.finish = "create" /\ <<c, d>> \in B

\* A token is given up by the old Activity before the new one ends.
ReplaceThenEnd(A, J, B) == \A c, d \in J :
  c.finish = "replace" /\ d.finish = "end" /\ A[d.of].named /\ TokenAt(A, d) # None
  /\ TokenAt(A, c) = TokenAt(A, d) => <<c, d>> \in B

\* Whatever writes is in the chain of the Activity that has the name, so that all
\* that write are in one chain.
WritersBefore(A, J, B) == \A c \in J : Writer(A, J, B, c) =>
  \E d \in J : d.of \in NamedOf(A) /\ (d = c \/ <<c, d>> \in B)

Rows(A, J, B) ==
  /\ EndIsLast(J, B) /\ ReplaceIsLast(J, B) /\ ReplaceThenCreate(J, B)
  /\ ReplaceThenEnd(A, J, B) /\ WritersBefore(A, J, B)

\* What is stored by one token is deleted before it is stored by another.
OthersClosed(A, J, B, V) == \A c \in J : c.kind = "store" \/ c.finish = "create" =>
  \A b \in Activities : A[b].token # None /\ A[b].token # TokenAt(A, c) =>
    Closed(A, J, B, V, A[b].token, Earlier(J, B, c))

\* A token that the Activity with the name has not is going to be deleted.
LostClosed(A, J, B, V) == \A b \in Activities :
  A[b].token # None /\ (\A n \in NamedOf(A) : A[n].token # A[b].token) => Closed(A, J, B, V, A[b].token, J)

\* A valid token is of the Activity with the name, or of one that is replaced.
ValidHas(A, J, V) == \A b \in Activities :
  A[b].token # None /\ V[A[b].token].valid => A[b].named \/ HasReplace(J, b)

Flow(A, J, B, V) == OthersClosed(A, J, B, V) /\ LostClosed(A, J, B, V) /\ ValidHas(A, J, V)

\* Whose the record is.
NamedOwns(A, J, B, V, D) == \A n \in NamedOf(A) : A[n].token # None =>
  /\ \A e \in J : e.kind = "store" /\ TokenAt(A, e) = A[n].token /\ e.of # n =>
       \E g \in J : g.kind = "store" /\ g.of = n /\ <<e, g>> \in B
  /\ V[A[n].token].valid => \A r \in DOMAIN D : D[r].of # n => \E g \in J : g.kind = "store" /\ g.of = n

\* A delete of an end deletes what its own Activity has stored,
EndOwns(A, J, B, V, D) == \A c \in J : Deletes(A, J, B, c) /\ c.finish = "end" =>
  /\ \A e \in J : e.kind = "store" /\ TokenAt(A, e) = TokenAt(A, c) /\ e.of # c.of /\ <<e, c>> \in B =>
       \E g \in J : g.kind = "store" /\ g.of = c.of /\ <<e, g>> \in B /\ <<g, c>> \in B
  /\ V[TokenAt(A, c)].valid => \A r \in DOMAIN D : D[r].of # c.of =>
       \E g \in J : g.kind = "store" /\ g.of = c.of /\ <<g, c>> \in B

\* and a replacement without a delete leaves the token when the new Activity is stored.
NewOwns(A, J, B, V, D) == \A c \in J : c.kind = "noop" /\ c.finish = "replace" /\ TokenAt(A, c) # None =>
  /\ \A e \in J : e.kind = "store" /\ e.of = c.of =>
       \E g \in J : /\ g.kind = "store" /\ g.of # c.of /\ TokenAt(A, g) = TokenAt(A, c)
                    /\ <<e, g>> \in B /\ <<g, c>> \in B
  /\ V[TokenAt(A, c)].valid => \A r \in DOMAIN D : D[r].of = c.of =>
       \E g \in J : g.kind = "store" /\ g.of # c.of /\ TokenAt(A, g) = TokenAt(A, c) /\ <<g, c>> \in B

\* A record is of an Activity with the token that stands for it.
OwnerHas(A, V, D) == \A b \in Activities : A[b].token # None /\ V[A[b].token].valid =>
  \A r \in DOMAIN D : A[D[r].of].token = A[b].token

Owned(A, J, B, V, D) ==
  NamedOwns(A, J, B, V, D) /\ EndOwns(A, J, B, V, D) /\ NewOwns(A, J, B, V, D) /\ OwnerHas(A, V, D)

\* The records are those that valid tokens stand for, and there is at most one.
Standing(A, V, b) == A[b].token # None /\ V[A[b].token].valid

\* A record is there if and only if a token stands for it,
RecordsStand(A, V, D) == \A r : r \in DOMAIN D <=> \E b \in Activities : Standing(A, V, b) /\ V[A[b].token].record = r

\* one token does at most,
OneStands(A, V) == \A a, b \in Activities : Standing(A, V, a) /\ Standing(A, V, b) => A[a].token = A[b].token

\* and with the revision of the record.
RevsStand(A, V, D) == \A b \in Activities : Standing(A, V, b) => D[V[A[b].token].record].rev = V[A[b].token].rev

\* A token is valid if and only if it names a record.
ValidStand(A, V) == \A b \in Activities : A[b].token # None => (V[A[b].token].valid <=> V[A[b].token].record # None)

Stored(A, V, D) == RecordsStand(A, V, D) /\ OneStands(A, V) /\ RevsStand(A, V, D) /\ ValidStand(A, V)

\* The calls.
Working(h) == h.status # "waiting"

\* What a reply makes of a token.
Result(h) == IF h.kind = "store" THEN [valid |-> TRUE, record |-> h.record, rev |-> h.rev] ELSE NoToken

\* The calls that db8 has done and that are not answered.
Ahead(H) == {h \in H : h.status = "ok"}

\* The tokens lag behind by such a call, and by no more than one.
Follows(A, K, V, H) ==
  /\ Ahead(H) = {} => V = K
  /\ \A h \in Ahead(H) : V = [K EXCEPT ![TokenAt(A, h)] = Result(h)]

\* A call that is made is of a command with a token; its parameters are those of the
\* token; and its result is there, once db8 has done it.
Calling(A, J, K, V, D, h) ==
  /\ h.status \in {"sent", "transient", "ok"} /\ h.kind \in {"store", "delete"} /\ TokenAt(A, h) # None
  /\ h.version <= A[h.of].version
  /\ h.kind = "delete" => A[h.of].named \/ HasReplace(J, h.of)
  /\ h.status # "ok" => /\ h.record = V[TokenAt(A, h)].record
                        /\ h.kind = "delete" => V[TokenAt(A, h)].valid
  /\ h.status = "ok" /\ h.kind = "store" =>
       /\ K[TokenAt(A, h)].valid => K[TokenAt(A, h)].record = h.record /\ K[TokenAt(A, h)].rev <= h.rev
       /\ h.record \in DOMAIN D /\ D[h.record].of = h.of /\ D[h.record].version = h.version
  /\ h.status = "ok" /\ h.kind = "delete" => K[TokenAt(A, h)].record = h.record /\ DOMAIN D = {}

Calls(A, J, K, V, D, H) == \A h \in H : Working(h) => Calling(A, J, K, V, D, h)

\* What was told.
Pending(J) == \E c \in J : c.kind = "noop" /\ c.finish = "create"

\* With no call ahead, what was told is what is stored, or a create is not finished.
ToldIs(J, D, H, w) == Ahead(H) = {} => w = LatestOf(D) \/ (LatestOf(D) = Nothing /\ Pending(J))

\* With the delete of an end ahead, what was told is about its Activity, if anything.
ToldOf(J, H, w) == \A h \in Ahead(H) :
  h.kind = "delete" /\ h.finish = "end" => w = Nothing \/ w.of = h.of \/ Pending(J)

\* The invariant.
Sound(A, J, B, K, V, D, H, w) ==
  /\ Lives(A) /\ Works(A, J) /\ Rows(A, J, B)
  /\ Flow(A, J, B, V) /\ Owned(A, J, B, V, D) /\ Stored(A, V, D)
  /\ Follows(A, K, V, H) /\ Calls(A, J, K, V, D, H)
  /\ ToldIs(J, D, H, w) /\ ToldOf(J, H, w)

\* The tokens may be ahead of V by what db8 has done.
Good(A, J, B, K, D, H, w) ==
  \E V \in [Tokens -> TokenState] : Sound(A, J, B, K, V, D, H, w)

-----------------------------------------------------------------------------
(* Jobs, and the calls under way.                                          *)

\* What is known of any jobs, and of their heads.
Lined(J, B, H) ==
  /\ Ordered(J, B)
  /\ \A x \in J : /\ x.of \in Activities /\ x.kind \in {"store", "delete", "noop"}
                  /\ x.finish \in {"create", "update", "end", "replace"}
  /\ \A h \in H : h \in Command /\ Job(h) \in J /\ \A x : <<x, Job(h)>> \notin B
  /\ \A h, g \in H : Job(h) = Job(g) => h = g
  /\ \A x \in J : \E h \in H : x = Job(h) \/ <<Job(h), x>> \in B

\* The chains are lined up.
LEMMA ChainsLined ==
  ASSUME NEW A, NEW Q, NEW K, Typed(A, Q, K)
  PROVE  Lined(Jobs(Q), Order(Q), HeadsOf(Q))
PROOF
<1>1. Chained(Q) /\ HookedIn(A, Q) /\ Hooks(A)
  BY TypedHooks DEF Typed
<1>2. Ordered(Jobs(Q), Order(Q))
  BY <1>1, ChainsOrdered
<1>3. ASSUME NEW x \in Jobs(Q)
      PROVE  /\ x.of \in Activities /\ x.kind \in {"store", "delete", "noop"}
             /\ x.finish \in {"create", "update", "end", "replace"}
  <2>1. PICK q \in Q : \E i \in DOMAIN q : x = Job(q[i])
    BY JobMember
  <2>2. PICK i \in DOMAIN q : x = Job(q[i])
    BY <2>1
  <2>3. q[i] \in Command
    BY <1>1, ChainedCommand
  <2>4. /\ q[i].of \in Activities /\ q[i].kind \in {"store", "delete", "noop"}
        /\ q[i].finish \in {"create", "update", "end", "replace"}
    BY <2>3 DEF Command
  <2> QED
    BY <2>2, <2>4, JobFields
<1> QED
  BY <1>2, <1>3, HeadsFirst DEF Lined

\* What db8 is called for is a writer, so it is called for one head at most.
LEMMA HeadWrites ==
  ASSUME NEW A, NEW J, NEW B, NEW K, NEW V, NEW D, NEW H, Lined(J, B, H),
         Calls(A, J, K, V, D, H), NEW h \in H, Working(h)
  PROVE  Writer(A, J, B, Job(h))
PROOF
<1>1. Calling(A, J, K, V, D, h)
  BY DEF Calls
<1>2. /\ Job(h).kind = h.kind /\ Job(h).of = h.of
  BY JobFields
<1>3. ~Replaced(J, B, Job(h))
  BY DEF Lined, Replaced
<1>4. h.kind = "delete" => Deletes(A, J, B, Job(h))
  BY <1>1, <1>2, <1>3 DEF Calling, Deletes, TokenAt
<1> QED
  BY <1>1, <1>2, <1>4 DEF Calling, Writer

\* Two writers are in one chain.
LEMMA WritersOrdered ==
  ASSUME NEW A, NEW J, NEW B, NEW H, Lined(J, B, H), OneNamed(A), WritersBefore(A, J, B),
         NEW x \in J, NEW y \in J, Writer(A, J, B, x),
         Writer(A, J, B, y) \/ y.of \in NamedOf(A)
  PROVE  x = y \/ <<x, y>> \in B \/ <<y, x>> \in B
PROOF
<1>1. PICK c \in J : c.of \in NamedOf(A) /\ (c = x \/ <<x, c>> \in B)
  BY DEF WritersBefore
<1>2. PICK d \in J : d.of \in NamedOf(A) /\ (d = y \/ <<y, d>> \in B)
  BY DEF WritersBefore
<1>3. c.of = d.of
  BY <1>1, <1>2 DEF OneNamed
<1>4. c = d \/ <<c, d>> \in B \/ <<d, c>> \in B
  BY <1>3 DEF Lined, Ordered
<1> HIDE <1>3
<1>5. /\ \A u, v, z : <<u, v>> \in B /\ <<v, z>> \in B => <<u, z>> \in B
      /\ \A u, v, z : <<u, z>> \in B /\ <<v, z>> \in B => u = v \/ <<u, v>> \in B \/ <<v, u>> \in B
  BY DEF Lined, Ordered
<1> QED
  BY <1>1, <1>2, <1>4, <1>5

\* db8 is called for one head at most.
LEMMA OneWorking ==
  ASSUME NEW A, NEW J, NEW B, NEW K, NEW V, NEW D, NEW H, Lined(J, B, H),
         OneNamed(A), WritersBefore(A, J, B), Calls(A, J, K, V, D, H),
         NEW h \in H, Working(h), NEW g \in H, Working(g)
  PROVE  h = g
PROOF
<1>1. Writer(A, J, B, Job(h)) /\ Writer(A, J, B, Job(g))
  BY HeadWrites
<1>2. Job(h) \in J /\ Job(g) \in J
  BY DEF Lined
<1>3. Job(h) = Job(g) \/ <<Job(h), Job(g)>> \in B \/ <<Job(g), Job(h)>> \in B
  BY <1>1, <1>2, WritersOrdered
<1> QED
  BY <1>3 DEF Lined

\* With nothing to be looked at, all jobs are in one chain, with one of the
\* Activity that has the name.
LEMMA Calm ==
  ASSUME NEW A, NEW J, NEW B, NEW K, NEW V, NEW D, NEW H, Lined(J, B, H),
         OneNamed(A), WritersBefore(A, J, B), Calls(A, J, K, V, D, H),
         \A h \in H : Working(h)
  PROVE  /\ \A x, y \in J : x = y \/ <<x, y>> \in B \/ <<y, x>> \in B
         /\ J # {} => \E d \in J : d.of \in NamedOf(A)
PROOF
<1>1. ASSUME NEW x \in J, NEW y \in J
      PROVE  x = y \/ <<x, y>> \in B \/ <<y, x>> \in B
  <2>1. PICK h \in H : x = Job(h) \/ <<Job(h), x>> \in B
    BY DEF Lined
  <2>2. PICK g \in H : y = Job(g) \/ <<Job(g), y>> \in B
    BY DEF Lined
  <2>3. h = g
    BY OneWorking
  <2>4. \A u, v, z : <<z, u>> \in B /\ <<z, v>> \in B => u = v \/ <<u, v>> \in B \/ <<v, u>> \in B
    BY DEF Lined, Ordered
  <2> QED
    BY <2>1, <2>2, <2>3, <2>4
<1>2. ASSUME NEW x \in J
      PROVE  \E d \in J : d.of \in NamedOf(A)
  <2>1. PICK h \in H : x = Job(h) \/ <<Job(h), x>> \in B
    BY DEF Lined
  <2>2. Writer(A, J, B, Job(h)) /\ Job(h) \in J
    BY HeadWrites DEF Lined
  <2> QED
    BY <2>2 DEF WritersBefore
<1> QED
  BY <1>1, <1>2

-----------------------------------------------------------------------------
(* A job is done with.                                                     *)

\* Job j, which comes first, is done with.
Taken(J, B, j, J2, B2) ==
  /\ j \in J /\ \A x : <<x, j>> \notin B
  /\ \A x : x \in J2 <=> x \in J /\ x # j
  /\ \A x, y : <<x, y>> \in B2 <=> <<x, y>> \in B /\ x # j

LEMMA TakenHasReplace ==
  ASSUME NEW J, NEW B, NEW j, NEW J2, NEW B2, Taken(J, B, j, J2, B2), j.finish # "replace", NEW a
  PROVE  HasReplace(J2, a) <=> HasReplace(J, a)
PROOF
<1> QED
  BY DEF Taken, HasReplace

LEMMA TakenDeletes ==
  ASSUME NEW A, NEW J, NEW B, NEW j, NEW J2, NEW B2, Taken(J, B, j, J2, B2), j.finish # "replace",
         NEW c \in J2
  PROVE  /\ Deletes(A, J2, B2, c) <=> Deletes(A, J, B, c)
         /\ Writer(A, J2, B2, c) <=> Writer(A, J, B, c)
PROOF
<1>1. HasReplace(J2, c.of) <=> HasReplace(J, c.of)
  BY TakenHasReplace
<1>2. Replaced(J2, B2, c) <=> Replaced(J, B, c)
  BY DEF Taken, Replaced
<1>3. Deletes(A, J2, B2, c) <=> Deletes(A, J, B, c)
  BY <1>1, <1>2 DEF Deletes
<1> QED
  BY <1>3 DEF Writer

\* A token that will be closed still will be, when a job is done with.
LEMMA TakenClosed ==
  ASSUME NEW A, NEW J, NEW B, NEW V, NEW j, NEW J2, NEW B2, Taken(J, B, j, J2, B2), j.finish # "replace",
         NEW P \in SUBSET J, NEW t, Closed(A, J, B, V, t, P),
         j.kind = "delete" /\ TokenAt(A, j) = t => ~V[t].valid
  PROVE  Closed(A, J2, B2, V, t, P \ {j})
PROOF
<1>1. \A d \in P \ {j} : d \in J2 /\ (Deletes(A, J2, B2, d) <=> Deletes(A, J, B, d))
  BY TakenDeletes DEF Taken
<1>2. ASSUME V[t].valid
      PROVE  \E d \in P \ {j} : Deletes(A, J2, B2, d) /\ TokenAt(A, d) = t
  <2>1. PICK d \in P : Deletes(A, J, B, d) /\ TokenAt(A, d) = t
    BY <1>2 DEF Closed
  <2>2. d # j
    BY <1>2, <2>1 DEF Deletes
  <2> QED
    BY <1>1, <2>1, <2>2
<1>3. ASSUME NEW e \in P \ {j}, e.kind = "store", TokenAt(A, e) = t
      PROVE  \E d \in P \ {j} : Deletes(A, J2, B2, d) /\ TokenAt(A, d) = t /\ <<e, d>> \in B2
  <2>1. PICK d \in P : Deletes(A, J, B, d) /\ TokenAt(A, d) = t /\ <<e, d>> \in B
    BY <1>3 DEF Closed
  <2>2. d # j /\ <<e, d>> \in B2
    BY <2>1 DEF Taken
  <2> QED
    BY <1>1, <2>1, <2>2
<1> QED
  BY <1>2, <1>3 DEF Closed

LEMMA TakenEarlier ==
  ASSUME NEW J, NEW B, NEW j, NEW J2, NEW B2, Taken(J, B, j, J2, B2), NEW c
  PROVE  Earlier(J2, B2, c) = Earlier(J, B, c) \ {j} /\ Earlier(J, B, c) \in SUBSET J
PROOF
<1> QED
  BY DEF Taken, Earlier

\* A job is done with that changes no Activity.
LEMMA TakeSame ==
  ASSUME NEW A, NEW J, NEW B, NEW V, NEW D, NEW j, NEW J2, NEW B2, Taken(J, B, j, J2, B2),
         Works(A, J), Rows(A, J, B), Flow(A, J, B, V), Owned(A, J, B, V, D),
         j.finish # "replace", j.finish = "end" => ~A[j.of].named,
         j.kind = "delete" /\ TokenAt(A, j) # None => ~V[TokenAt(A, j)].valid,
         j.kind = "store" => \A r \in DOMAIN D : D[r].of = j.of
  PROVE  Works(A, J2) /\ Rows(A, J2, B2) /\ Flow(A, J2, B2, V) /\ Owned(A, J2, B2, V, D)
PROOF
<1>1. \A a : HasReplace(J2, a) <=> HasReplace(J, a)
  BY TakenHasReplace
<1>2. \A c \in J2 : /\ Deletes(A, J2, B2, c) <=> Deletes(A, J, B, c)
                    /\ Writer(A, J2, B2, c) <=> Writer(A, J, B, c)
  BY TakenDeletes
<1>3. /\ j \in J /\ \A x : <<x, j>> \notin B
      /\ \A x : x \in J2 <=> x \in J /\ x # j
      /\ \A x, y : <<x, y>> \in B2 <=> <<x, y>> \in B /\ x # j
  BY DEF Taken
<1>4. Works(A, J2)
  <2>1. JobsLive(A, J2) /\ ReplaceLeaves(A, J2) /\ EndIsExternal(A, J2) /\ DeletesEnd(A, J2) /\ NoopsAreNot(A, J2)
    BY <1>3 DEF Works, JobsLive, ReplaceLeaves, EndIsExternal, DeletesEnd, NoopsAreNot
  <2>2. StoresHave(A, J2)
    BY <1>1, <1>3 DEF Works, StoresHave
  <2>3. EndingHas(A, J2)
    BY <1>3 DEF Works, EndingHas, NamedOf
  <2>4. DetachedHas(A, J2) /\ SharersHave(A, J2)
    BY <1>1 DEF Works, DetachedHas, SharersHave
  <2> QED
    BY <2>1, <2>2, <2>3, <2>4 DEF Works
<1>5. Rows(A, J2, B2)
  <2>1. EndIsLast(J2, B2) /\ ReplaceIsLast(J2, B2)
    BY <1>3 DEF Rows, EndIsLast, ReplaceIsLast
  <2>2. ReplaceThenCreate(J2, B2)
    BY <1>3 DEF Rows, ReplaceThenCreate
  <2>3. ReplaceThenEnd(A, J2, B2)
    BY <1>3 DEF Rows, ReplaceThenEnd
  <2>4. WritersBefore(A, J2, B2)
    BY <1>2, <1>3 DEF Rows, WritersBefore
  <2> QED
    BY <2>1, <2>2, <2>3, <2>4 DEF Rows
<1>6. \A c \in J2 : Earlier(J2, B2, c) = Earlier(J, B, c) \ {j} /\ Earlier(J, B, c) \in SUBSET J
  BY TakenEarlier
<1>7. J2 = J \ {j}
  BY <1>3
<1>8. Flow(A, J2, B2, V)
  <2>1. OthersClosed(A, J2, B2, V)
    <3>1. SUFFICES ASSUME NEW c \in J2, c.kind = "store" \/ c.finish = "create", NEW b \in Activities,
                          A[b].token # None, A[b].token # TokenAt(A, c)
                   PROVE  Closed(A, J2, B2, V, A[b].token, Earlier(J2, B2, c))
      BY DEF OthersClosed
    <3>2. Closed(A, J, B, V, A[b].token, Earlier(J, B, c))
      BY <1>3, <3>1 DEF Flow, OthersClosed
    <3>3. PICK t, P : t = A[b].token /\ P = Earlier(J, B, c)
      OBVIOUS
    <3>4. P \in SUBSET J /\ Closed(A, J, B, V, t, P)
      BY <1>6, <3>2, <3>3
    <3>5. j.kind = "delete" /\ TokenAt(A, j) = t => ~V[t].valid
      BY <3>1, <3>3
    <3>6. Closed(A, J2, B2, V, t, P \ {j})
      BY <3>4, <3>5, TakenClosed
    <3> QED
      BY <1>6, <3>3, <3>6
  <2>2. LostClosed(A, J2, B2, V)
    <3>1. SUFFICES ASSUME NEW b \in Activities, A[b].token # None,
                          \A n \in NamedOf(A) : A[n].token # A[b].token
                   PROVE  Closed(A, J2, B2, V, A[b].token, J2)
      BY DEF LostClosed
    <3>2. Closed(A, J, B, V, A[b].token, J)
      BY <3>1 DEF Flow, LostClosed
    <3> QED
      BY <1>7, <3>1, <3>2, TakenClosed
  <2>3. ValidHas(A, J2, V)
    BY <1>1 DEF Flow, ValidHas
  <2> QED
    BY <2>1, <2>2, <2>3 DEF Flow
<1>9. Owned(A, J2, B2, V, D)
  <2>1. NamedOwns(A, J2, B2, V, D)
    BY <1>3 DEF Owned, NamedOwns
  <2>2. EndOwns(A, J2, B2, V, D)
    BY <1>2, <1>3, ZenonT(60) DEF Owned, EndOwns
  <2>3. NewOwns(A, J2, B2, V, D)
    BY <1>3, ZenonT(60) DEF Owned, NewOwns
  <2>4. OwnerHas(A, V, D)
    BY DEF Owned
  <2> QED
    BY <2>1, <2>2, <2>3, <2>4 DEF Owned
<1> QED
  BY <1>4, <1>5, <1>8, <1>9

\* Activity n gives its name up, and is otherwise the same.
Unnames(A, A2, n) == \A x \in Activities :
  /\ A2[x].life = A[x].life /\ A2[x].named = (A[x].named /\ x # n)
  /\ A2[x].persistent = A[x].persistent /\ A2[x].ending = A[x].ending
  /\ A2[x].intCommand = A[x].intCommand /\ A2[x].extCommand = A[x].extCommand
  /\ A2[x].version = A[x].version /\ A2[x].token = A[x].token

\* The end of the Activity that has the name: nothing is left that writes.
LEMMA TakeNamedEnd ==
  ASSUME NEW A, NEW J, NEW B, NEW V, NEW D, NEW j, NEW J2, NEW B2, Taken(J, B, j, J2, B2),
         NEW H, Lined(J, B, H),
         Lives(A), Works(A, J), Rows(A, J, B), Flow(A, J, B, V), Owned(A, J, B, V, D), Stored(A, V, D),
         NEW A2, Unnames(A, A2, j.of),
         j.finish = "end", A[j.of].named,
         j.kind = "delete" /\ TokenAt(A, j) # None => ~V[TokenAt(A, j)].valid
  PROVE  /\ Lives(A2) /\ Works(A2, J2) /\ Rows(A2, J2, B2)
         /\ Flow(A2, J2, B2, V) /\ Owned(A2, J2, B2, V, D) /\ Stored(A2, V, D)
PROOF
<1> DEFINE n == j.of
<1>1. /\ j \in J /\ \A x : <<x, j>> \notin B
      /\ \A x : x \in J2 <=> x \in J /\ x # j
      /\ \A x, y : <<x, y>> \in B2 <=> <<x, y>> \in B /\ x # j
  BY DEF Taken
<1>2. n \in NamedOf(A) /\ n \in Activities /\ A[n].extCommand
  BY <1>1 DEF Works, JobsLive, EndIsExternal, NamedOf
<1>3. \A a \in NamedOf(A) : a = n
  BY <1>2 DEF Lives, OneNamed
<1>4. ~HasReplace(J, n)
  BY DEF Works, ReplaceLeaves, HasReplace
<1>5. \A d \in J : d.of = n => d = j
  <2>1. SUFFICES ASSUME NEW d \in J, d.of = n, d # j
                 PROVE  FALSE
    OBVIOUS
  <2>2. <<j, d>> \in B
    BY <1>1, <2>1 DEF Lined, Ordered
  <2>3. d.finish = "replace"
    BY <1>1, <2>1, <2>2 DEF Rows, EndIsLast
  <2> QED
    BY <1>4, <2>1, <2>3 DEF HasReplace
<1>6. \A x \in J2 : ~Writer(A, J, B, x)
  <2>1. SUFFICES ASSUME NEW x \in J2, Writer(A, J, B, x)
                 PROVE  FALSE
    OBVIOUS
  <2>2. x \in J /\ x # j
    BY <1>1
  <2>3. PICK d \in J : d.of \in NamedOf(A) /\ (d = x \/ <<x, d>> \in B)
    BY <2>1, <2>2 DEF Rows, WritersBefore
  <2>4. d = j
    BY <1>3, <1>5, <2>3
  <2> QED
    BY <1>1, <2>2, <2>3, <2>4
<1>7. \A x \in J2 : x.kind # "store" /\ x.finish # "create" /\ ~Deletes(A, J, B, x)
  BY <1>6 DEF Writer
<1>8. \A x \in J2 : ~Deletes(A2, J2, B2, x)
  <2>1. SUFFICES ASSUME NEW x \in J2, Deletes(A2, J2, B2, x)
                 PROVE  Deletes(A, J, B, x)
    BY <1>7
  <2>2. x.of \in Activities
    BY <1>1 DEF Works, JobsLive
  <2>3. TokenAt(A2, x) = TokenAt(A, x) /\ (A2[x.of].named => A[x.of].named)
    BY <2>2 DEF Unnames, TokenAt
  <2>4. HasReplace(J2, x.of) => HasReplace(J, x.of)
    BY <1>1 DEF HasReplace
  <2>5. Replaced(J, B, x) => Replaced(J2, B2, x)
    BY <1>1 DEF Replaced
  <2> QED
    BY <2>1, <2>3, <2>4, <2>5 DEF Deletes
<1>9. A[n].token # None => ~V[A[n].token].valid
  <2>1. CASE j.kind = "delete"
    BY <2>1 DEF TokenAt
  <2>2. CASE j.kind = "noop"
    BY <1>1, <1>2, <2>2 DEF Works, NoopsAreNot, Lives, TokensPersist
  <2>3. CASE j.kind = "store"
    BY <1>1, <2>3 DEF Works, StoresHave
  <2> QED
    BY <1>1, <2>1, <2>2, <2>3 DEF Lined
<1>10. \A b \in Activities : A[b].token # None => ~V[A[b].token].valid
  <2>1. SUFFICES ASSUME NEW b \in Activities, A[b].token # None, V[A[b].token].valid
                 PROVE  FALSE
    OBVIOUS
  <2>2. A[b].token # A[n].token
    BY <1>9, <2>1
  <2>3. Closed(A, J, B, V, A[b].token, J)
    BY <1>3, <2>1, <2>2 DEF Flow, LostClosed
  <2>4. PICK d \in J : Deletes(A, J, B, d) /\ TokenAt(A, d) = A[b].token
    BY <2>1, <2>3 DEF Closed
  <2>5. d = j
    BY <1>1, <1>7, <2>4
  <2> QED
    BY <2>2, <2>4, <2>5 DEF TokenAt
<1>11. NamedOf(A2) = {} /\ \A a \in Activities : A[a].life = "live" => ~A2[a].named
  BY <1>3 DEF NamedOf, Unnames
<1>12. Lives(A2)
  <2>1. OneNamed(A2) /\ PersistentHave(A2)
    BY <1>11 DEF OneNamed, PersistentHave
  <2>2. Unborn(A2) /\ TokensPersist(A2)
    BY DEF Lives, Unborn, TokensPersist, Unnames
  <2>3. NamedUnlessEnding(A2)
    BY <1>2 DEF Lives, NamedUnlessEnding, Unnames
  <2> QED
    BY <2>1, <2>2, <2>3 DEF Lives
<1>13. \A a : HasReplace(J2, a) <=> HasReplace(J, a)
  BY TakenHasReplace
<1>14. \A c \in J2 : c \in J /\ c.of \in Activities
  BY <1>1 DEF Works, JobsLive
<1>15. Works(A2, J2)
  <2>1. JobsLive(A2, J2)
    BY <1>14 DEF Works, JobsLive, Unnames
  <2>2. ReplaceLeaves(A2, J2) /\ EndIsExternal(A2, J2)
    BY <1>14 DEF Works, ReplaceLeaves, EndIsExternal, Unnames
  <2>3. StoresHave(A2, J2)
    BY <1>7 DEF StoresHave
  <2>4. DeletesEnd(A2, J2) /\ NoopsAreNot(A2, J2)
    BY <1>14 DEF Works, DeletesEnd, NoopsAreNot, Unnames, TokenAt
  <2>5. EndingHas(A2, J2)
    BY <1>11 DEF EndingHas
  <2>6. DetachedHas(A2, J2)
    BY <1>2, <1>13 DEF Works, DetachedHas, Unnames
  <2>7. SharersHave(A2, J2)
    <3>1. SUFFICES ASSUME NEW a \in Activities, NEW b \in Activities, a # b,
                          A[a].token # None, A[a].token = A[b].token
                   PROVE  HasReplace(J, a)
      BY <1>13 DEF SharersHave, Unnames
    <3>2. A[a].named \/ HasReplace(J, a)
      BY <3>1 DEF Works, SharersHave
    <3>3. ASSUME A[a].named
          PROVE  FALSE
      <4>1. a = n /\ A[b].life = "live"
        BY <1>3, <3>1, <3>3 DEF Lives, Unborn, NamedOf
      <4>2. ~A[b].named
        BY <1>3, <3>1, <4>1 DEF NamedOf
      <4>3. HasReplace(J, b)
        BY <3>1, <4>2 DEF Works, SharersHave
      <4>4. PICK d \in J : d.of = b /\ d.finish = "replace"
        BY <4>3 DEF HasReplace
      <4>5. <<d, j>> \in B
        BY <1>1, <3>1, <4>1, <4>4 DEF Rows, ReplaceThenEnd, TokenAt
      <4> QED
        BY <4>5, <1>1
    <3> QED
      BY <3>2, <3>3
  <2> QED
    BY <2>1, <2>2, <2>3, <2>4, <2>5, <2>6, <2>7 DEF Works
<1>16. Rows(A2, J2, B2)
  <2>1. EndIsLast(J2, B2) /\ ReplaceIsLast(J2, B2)
    BY <1>1 DEF Rows, EndIsLast, ReplaceIsLast
  <2>2. ReplaceThenCreate(J2, B2)
    BY <1>1 DEF Rows, ReplaceThenCreate
  <2>3. ReplaceThenEnd(A2, J2, B2)
    BY <1>11, <1>14 DEF Works, JobsLive, ReplaceThenEnd
  <2>4. WritersBefore(A2, J2, B2)
    BY <1>7, <1>8 DEF WritersBefore, Writer
  <2> QED
    BY <2>1, <2>2, <2>3, <2>4 DEF Rows
<1>17. \A b \in Activities : A2[b].token = A[b].token
  BY DEF Unnames
<1>18. Flow(A2, J2, B2, V)
  <2>1. OthersClosed(A2, J2, B2, V)
    BY <1>7 DEF OthersClosed
  <2>2. LostClosed(A2, J2, B2, V)
    BY <1>7, <1>10, <1>17 DEF LostClosed, Closed
  <2>3. ValidHas(A2, J2, V)
    BY <1>10, <1>17 DEF ValidHas
  <2> QED
    BY <2>1, <2>2, <2>3 DEF Flow
<1>19. Owned(A2, J2, B2, V, D)
  <2>1. NamedOwns(A2, J2, B2, V, D)
    BY <1>11 DEF NamedOwns
  <2>2. EndOwns(A2, J2, B2, V, D)
    BY <1>8 DEF EndOwns
  <2>3. NewOwns(A2, J2, B2, V, D)
    BY <1>7, <1>10, <1>14, <1>17 DEF NewOwns, TokenAt
  <2>4. OwnerHas(A2, V, D)
    BY <1>10, <1>17 DEF OwnerHas
  <2> QED
    BY <2>1, <2>2, <2>3, <2>4 DEF Owned
<1>20. Stored(A2, V, D)
  BY <1>17 DEF Stored, RecordsStand, OneStands, RevsStand, ValidStand, Standing
<1> QED
  BY <1>12, <1>15, <1>16, <1>18, <1>19, <1>20

\* Activity a gives its token up, and is otherwise the same.
Drops(A, A2, a) == \A x \in Activities :
  /\ A2[x].life = A[x].life /\ A2[x].named = A[x].named
  /\ A2[x].persistent = A[x].persistent /\ A2[x].ending = A[x].ending
  /\ A2[x].intCommand = A[x].intCommand /\ A2[x].extCommand = A[x].extCommand
  /\ A2[x].version = A[x].version /\ A2[x].token = IF x = a THEN None ELSE A[x].token

\* The records are of Activities.
Records(D) == \A r \in DOMAIN D : D[r] \in Record

\* The end of a replacement: what is left of the Activity writes nothing, and
\* the token is another's, if there is a record.
LEMMA TakeReplace ==
  ASSUME NEW A, NEW J, NEW B, NEW V, NEW D, NEW j, NEW J2, NEW B2, Taken(J, B, j, J2, B2),
         NEW H, Lined(J, B, H), Records(D),
         Lives(A), Works(A, J), Rows(A, J, B), Flow(A, J, B, V), Owned(A, J, B, V, D), Stored(A, V, D),
         NEW A2, Drops(A, A2, j.of),
         j.finish = "replace", j.kind = "delete" => ~V[TokenAt(A, j)].valid
  PROVE  /\ Lives(A2) /\ Works(A2, J2) /\ Rows(A2, J2, B2)
         /\ Flow(A2, J2, B2, V) /\ Owned(A2, J2, B2, V, D) /\ Stored(A2, V, D)
PROOF
<1> DEFINE a == j.of
<1>1. /\ j \in J /\ \A x : <<x, j>> \notin B
      /\ \A x : x \in J2 <=> x \in J /\ x # j
      /\ \A x, y : <<x, y>> \in B2 <=> <<x, y>> \in B /\ x # j
  BY DEF Taken
<1>2. a \in Activities /\ ~A[a].named /\ A[a].life = "live" /\ A[a].intCommand
  BY <1>1 DEF Works, JobsLive, ReplaceLeaves
<1>3. \A d \in J2 : d.of = a => <<j, d>> \in B /\ d.finish = "end"
  <2>1. SUFFICES ASSUME NEW d \in J2, d.of = a
                 PROVE  <<j, d>> \in B /\ d.finish = "end"
    OBVIOUS
  <2>2. <<j, d>> \in B
    BY <1>1, <2>1 DEF Lined, Ordered
  <2> QED
    BY <1>1, <2>1, <2>2 DEF Rows, ReplaceIsLast
<1>4. j.kind \in {"delete", "noop"}
  BY <1>1 DEF Works, StoresHave, Lined
<1>5. \A d \in J2 : d \in J /\ d.of \in Activities /\ (d.kind = "store" \/ d.finish = "create" => d.of # a)
  BY <1>1, <1>3 DEF Works, JobsLive, StoresHave
<1>6. \A x : x # a => (HasReplace(J2, x) <=> HasReplace(J, x))
  BY <1>1 DEF HasReplace
<1>7. ~HasReplace(J2, a)
  BY <1>3 DEF HasReplace
<1>8. \A x \in Activities : x # a => A2[x].token = A[x].token
  BY DEF Drops
<1>9. A2[a].token = None
  BY <1>2 DEF Drops
<1>10. \A x \in Activities : /\ A2[x].life = A[x].life /\ A2[x].named = A[x].named
                             /\ A2[x].persistent = A[x].persistent /\ A2[x].ending = A[x].ending
                             /\ A2[x].intCommand = A[x].intCommand /\ A2[x].extCommand = A[x].extCommand
  BY DEF Drops
<1>11. NamedOf(A2) = NamedOf(A) /\ a \notin NamedOf(A)
  BY <1>2, <1>10 DEF NamedOf
<1>12. \A x \in J2 : Deletes(A2, J2, B2, x) => Deletes(A, J, B, x) /\ x.of # a
  <2>1. SUFFICES ASSUME NEW x \in J2, Deletes(A2, J2, B2, x)
                 PROVE  Deletes(A, J, B, x) /\ x.of # a
    OBVIOUS
  <2>2. x.of # a
    BY <1>9, <2>1 DEF Deletes, TokenAt
  <2>3. Replaced(J, B, x) => Replaced(J2, B2, x)
    BY <1>1, <2>2 DEF Replaced
  <2> QED
    BY <1>5, <1>6, <1>8, <1>10, <2>1, <2>2, <2>3 DEF Deletes, TokenAt
<1>13. \A x \in J2 : Deletes(A, J, B, x) => Deletes(A2, J2, B2, x) /\ x.of # a
  <2>1. SUFFICES ASSUME NEW x \in J2, Deletes(A, J, B, x)
                 PROVE  Deletes(A2, J2, B2, x) /\ x.of # a
    OBVIOUS
  <2>2. x.of # a
    BY <1>1, <1>3, <2>1 DEF Deletes, Replaced
  <2>3. Replaced(J2, B2, x) => Replaced(J, B, x)
    BY <1>1 DEF Replaced
  <2> QED
    BY <1>5, <1>6, <1>8, <1>10, <2>1, <2>2, <2>3 DEF Deletes, TokenAt
<1>14. ASSUME NEW P \in SUBSET J, NEW t, Closed(A, J, B, V, t, P), t # None
       PROVE  Closed(A2, J2, B2, V, t, P \ {j})
  <2>1. ASSUME V[t].valid
        PROVE  \E d \in P \ {j} : Deletes(A2, J2, B2, d) /\ TokenAt(A2, d) = t
    <3>1. PICK d \in P : Deletes(A, J, B, d) /\ TokenAt(A, d) = t
      BY <1>14, <2>1 DEF Closed
    <3>2. d # j
      BY <2>1, <3>1 DEF Deletes
    <3>3. d \in J2
      BY <1>1, <3>2
    <3>4. Deletes(A2, J2, B2, d) /\ d.of # a
      BY <1>13, <3>1, <3>3
    <3>5. TokenAt(A2, d) = t
      BY <1>5, <1>8, <3>1, <3>3, <3>4 DEF TokenAt
    <3> QED
      BY <3>2, <3>4, <3>5
  <2>2. ASSUME NEW e \in P \ {j}, e.kind = "store", TokenAt(A2, e) = t
        PROVE  \E d \in P \ {j} : Deletes(A2, J2, B2, d) /\ TokenAt(A2, d) = t /\ <<e, d>> \in B2
    <3>1. e \in J2 /\ e.of \in Activities /\ e.of # a
      BY <1>1, <1>5, <2>2
    <3>2. TokenAt(A, e) = t
      BY <1>8, <2>2, <3>1 DEF TokenAt
    <3>3. PICK d \in P : Deletes(A, J, B, d) /\ TokenAt(A, d) = t /\ <<e, d>> \in B
      BY <1>14, <2>2, <3>2 DEF Closed
    <3>4. d # j /\ <<e, d>> \in B2
      BY <1>1, <2>2, <3>3
    <3>5. d \in J2
      BY <1>1, <3>4
    <3>6. Deletes(A2, J2, B2, d) /\ d.of # a
      BY <1>13, <3>3, <3>5
    <3>7. TokenAt(A2, d) = t
      BY <1>5, <1>8, <3>3, <3>5, <3>6 DEF TokenAt
    <3> QED
      BY <3>4, <3>6, <3>7
  <2> QED
    BY <2>1, <2>2 DEF Closed
<1>15. \A r \in DOMAIN D : D[r].of \in Activities
  BY DEF Records, Record
<1>16. ASSUME A[a].token # None, V[A[a].token].valid, NEW r \in DOMAIN D
       PROVE  D[r].of # a
  <2>1. j.kind = "noop"
    BY <1>4, <1>16 DEF TokenAt
  <2> QED
    BY <1>1, <1>16, <2>1 DEF Owned, NewOwns, TokenAt
<1>17. Lives(A2)
  <2>1. OneNamed(A2)
    BY <1>11 DEF Lives, OneNamed
  <2>2. Unborn(A2) /\ TokensPersist(A2) /\ NamedUnlessEnding(A2)
    BY <1>8, <1>9, <1>10 DEF Lives, Unborn, TokensPersist, NamedUnlessEnding
  <2>3. PersistentHave(A2)
    BY <1>8, <1>10, <1>11 DEF Lives, PersistentHave, NamedOf
  <2> QED
    BY <2>1, <2>2, <2>3 DEF Lives
<1>18. Works(A2, J2)
  <2>1. JobsLive(A2, J2)
    BY <1>5, <1>10 DEF Works, JobsLive
  <2>2. ReplaceLeaves(A2, J2) /\ EndIsExternal(A2, J2)
    BY <1>5, <1>10 DEF Works, ReplaceLeaves, EndIsExternal
  <2>3. StoresHave(A2, J2)
    BY <1>5, <1>6, <1>8, <1>10 DEF Works, StoresHave, TokenAt
  <2>4. DeletesEnd(A2, J2)
    BY <1>3, <1>5, <1>8 DEF Works, DeletesEnd, TokenAt
  <2>5. NoopsAreNot(A2, J2)
    BY <1>5, <1>10 DEF Works, NoopsAreNot
  <2>6. EndingHas(A2, J2)
    BY <1>1, <1>10, <1>11 DEF Works, EndingHas, NamedOf
  <2>7. DetachedHas(A2, J2)
    BY <1>6, <1>8, <1>9, <1>10 DEF Works, DetachedHas
  <2>8. SharersHave(A2, J2)
    BY <1>6, <1>8, <1>9, <1>10 DEF Works, SharersHave
  <2> QED
    BY <2>1, <2>2, <2>3, <2>4, <2>5, <2>6, <2>7, <2>8 DEF Works
<1>19. Rows(A2, J2, B2)
  <2>1. EndIsLast(J2, B2) /\ ReplaceIsLast(J2, B2)
    BY <1>1 DEF Rows, EndIsLast, ReplaceIsLast
  <2>2. ReplaceThenCreate(J2, B2)
    BY <1>1 DEF Rows, ReplaceThenCreate
  <2>3. ReplaceThenEnd(A2, J2, B2)
    <3>1. SUFFICES ASSUME NEW c \in J2, NEW d \in J2, c.finish = "replace", d.finish = "end",
                          A2[d.of].named, TokenAt(A2, d) # None, TokenAt(A2, c) = TokenAt(A2, d)
                   PROVE  <<c, d>> \in B2
      BY DEF ReplaceThenEnd
    <3>2. c.of # a /\ d.of # a
      BY <1>3, <1>9, <3>1 DEF TokenAt
    <3>3. TokenAt(A, c) = TokenAt(A, d) /\ TokenAt(A, d) # None /\ A[d.of].named
      BY <1>5, <1>8, <1>10, <3>1, <3>2 DEF TokenAt
    <3> QED
      BY <1>1, <3>1, <3>3 DEF Rows, ReplaceThenEnd
  <2>4. WritersBefore(A2, J2, B2)
    <3>1. SUFFICES ASSUME NEW c \in J2, Writer(A2, J2, B2, c)
                   PROVE  \E d \in J2 : d.of \in NamedOf(A2) /\ (d = c \/ <<c, d>> \in B2)
      BY DEF WritersBefore
    <3>2. Writer(A, J, B, c) /\ c \in J /\ c # j
      BY <1>1, <1>12, <3>1 DEF Writer
    <3>3. PICK d \in J : d.of \in NamedOf(A) /\ (d = c \/ <<c, d>> \in B)
      BY <3>2 DEF Rows, WritersBefore
    <3>4. d # j
      BY <1>11, <3>3
    <3> QED
      BY <1>1, <1>11, <3>2, <3>3, <3>4
  <2> QED
    BY <2>1, <2>2, <2>3, <2>4 DEF Rows
<1>20. Flow(A2, J2, B2, V)
  <2>1. OthersClosed(A2, J2, B2, V)
    <3>1. SUFFICES ASSUME NEW c \in J2, c.kind = "store" \/ c.finish = "create", NEW b \in Activities,
                          A2[b].token # None, A2[b].token # TokenAt(A2, c)
                   PROVE  Closed(A2, J2, B2, V, A2[b].token, Earlier(J2, B2, c))
      BY DEF OthersClosed
    <3>2. b # a /\ c.of # a /\ A2[b].token = A[b].token /\ TokenAt(A2, c) = TokenAt(A, c)
      BY <1>5, <1>8, <1>9, <3>1 DEF TokenAt
    <3>3. PICK t, P : t = A[b].token /\ P = Earlier(J, B, c)
      OBVIOUS
    <3>4. Closed(A, J, B, V, t, P)
      BY <1>5, <3>1, <3>2, <3>3 DEF Flow, OthersClosed
    <3>5. P \in SUBSET J /\ Earlier(J2, B2, c) = P \ {j}
      BY <3>3, TakenEarlier
    <3>6. Closed(A2, J2, B2, V, t, P \ {j})
      BY <1>14, <3>1, <3>2, <3>3, <3>4, <3>5
    <3> QED
      BY <3>2, <3>3, <3>5, <3>6
  <2>2. LostClosed(A2, J2, B2, V)
    <3>1. SUFFICES ASSUME NEW b \in Activities, A2[b].token # None,
                          \A n \in NamedOf(A2) : A2[n].token # A2[b].token
                   PROVE  Closed(A2, J2, B2, V, A2[b].token, J2)
      BY DEF LostClosed
    <3>2. b # a /\ A2[b].token = A[b].token
      BY <1>8, <1>9, <3>1
    <3>3. PICK t : t = A[b].token
      OBVIOUS
    <3>4. \A n \in NamedOf(A) : A[n].token # A[b].token
      BY <1>8, <1>11, <3>1, <3>2 DEF NamedOf
    <3>5. Closed(A, J, B, V, t, J)
      BY <3>1, <3>2, <3>3, <3>4 DEF Flow, LostClosed
    <3>6. Closed(A2, J2, B2, V, t, J \ {j})
      BY <1>14, <3>1, <3>2, <3>3, <3>5
    <3>7. J2 = J \ {j}
      BY <1>1
    <3> QED
      BY <3>2, <3>3, <3>6, <3>7
  <2>3. ValidHas(A2, J2, V)
    BY <1>6, <1>8, <1>9, <1>10 DEF Flow, ValidHas
  <2> QED
    BY <2>1, <2>2, <2>3 DEF Flow
<1>21. Owned(A2, J2, B2, V, D)
  <2>1. NamedOwns(A2, J2, B2, V, D)
    <3>1. SUFFICES ASSUME NEW n \in NamedOf(A), A2[n].token # None
                   PROVE  /\ \A e \in J2 : e.kind = "store" /\ TokenAt(A2, e) = A2[n].token /\ e.of # n =>
                               \E g \in J2 : g.kind = "store" /\ g.of = n /\ <<e, g>> \in B2
                          /\ V[A2[n].token].valid => \A r \in DOMAIN D : D[r].of # n =>
                               \E g \in J2 : g.kind = "store" /\ g.of = n
      BY <1>11 DEF NamedOwns
    <3>2. n \in Activities /\ n # a /\ A2[n].token = A[n].token
      BY <1>8, <1>11 DEF NamedOf
    <3>3. \A e \in J2 : e.kind = "store" => TokenAt(A2, e) = TokenAt(A, e)
      BY <1>5, <1>8 DEF TokenAt
    <3>4. \A g \in J : g.kind = "store" => g \in J2
      BY <1>1, <1>4
    <3> QED
      BY <1>1, <3>1, <3>2, <3>3, <3>4 DEF Owned, NamedOwns
  <2>2. EndOwns(A2, J2, B2, V, D)
    <3>1. SUFFICES ASSUME NEW c \in J2, Deletes(A2, J2, B2, c), c.finish = "end"
                   PROVE  /\ \A e \in J2 : e.kind = "store" /\ TokenAt(A2, e) = TokenAt(A2, c) /\ e.of # c.of /\ <<e, c>> \in B2 =>
                               \E g \in J2 : g.kind = "store" /\ g.of = c.of /\ <<e, g>> \in B2 /\ <<g, c>> \in B2
                          /\ V[TokenAt(A2, c)].valid => \A r \in DOMAIN D : D[r].of # c.of =>
                               \E g \in J2 : g.kind = "store" /\ g.of = c.of /\ <<g, c>> \in B2
      BY DEF EndOwns
    <3>2. Deletes(A, J, B, c) /\ c.of # a /\ TokenAt(A2, c) = TokenAt(A, c)
      BY <1>5, <1>8, <1>12, <3>1 DEF TokenAt
    <3>3. \A e \in J2 : e.kind = "store" => TokenAt(A2, e) = TokenAt(A, e)
      BY <1>5, <1>8 DEF TokenAt
    <3>4. \A g \in J : g.kind = "store" => g \in J2 /\ g # j
      BY <1>1, <1>4
    <3>5. ASSUME NEW e \in J2, e.kind = "store", TokenAt(A2, e) = TokenAt(A2, c), e.of # c.of, <<e, c>> \in B2
          PROVE  \E g \in J2 : g.kind = "store" /\ g.of = c.of /\ <<e, g>> \in B2 /\ <<g, c>> \in B2
      <4>1. e \in J /\ c \in J /\ e # j /\ <<e, c>> \in B /\ TokenAt(A, e) = TokenAt(A, c)
        BY <1>1, <3>1, <3>2, <3>3, <3>5
      <4>2. PICK g \in J : g.kind = "store" /\ g.of = c.of /\ <<e, g>> \in B /\ <<g, c>> \in B
        BY <3>1, <3>2, <3>5, <4>1 DEF Owned, EndOwns
      <4> QED
        BY <1>1, <3>4, <4>1, <4>2
    <3>6. ASSUME V[TokenAt(A2, c)].valid, NEW r \in DOMAIN D, D[r].of # c.of
          PROVE  \E g \in J2 : g.kind = "store" /\ g.of = c.of /\ <<g, c>> \in B2
      <4>1. c \in J /\ V[TokenAt(A, c)].valid
        BY <1>1, <3>1, <3>2, <3>6
      <4>2. PICK g \in J : g.kind = "store" /\ g.of = c.of /\ <<g, c>> \in B
        BY <3>1, <3>2, <3>6, <4>1 DEF Owned, EndOwns
      <4> QED
        BY <1>1, <3>4, <4>2
    <3> QED
      BY <3>5, <3>6
  <2>3. NewOwns(A2, J2, B2, V, D)
    <3>1. SUFFICES ASSUME NEW c \in J2, c.kind = "noop", c.finish = "replace", TokenAt(A2, c) # None
                   PROVE  /\ \A e \in J2 : e.kind = "store" /\ e.of = c.of =>
                               \E g \in J2 : /\ g.kind = "store" /\ g.of # c.of /\ TokenAt(A2, g) = TokenAt(A2, c)
                                             /\ <<e, g>> \in B2 /\ <<g, c>> \in B2
                          /\ V[TokenAt(A2, c)].valid => \A r \in DOMAIN D : D[r].of = c.of =>
                               \E g \in J2 : /\ g.kind = "store" /\ g.of # c.of
                                             /\ TokenAt(A2, g) = TokenAt(A2, c) /\ <<g, c>> \in B2
      BY DEF NewOwns
    <3>2. c.of # a /\ TokenAt(A2, c) = TokenAt(A, c)
      BY <1>5, <1>8, <1>9, <3>1 DEF TokenAt
    <3>3. \A e \in J2 : e.kind = "store" => TokenAt(A2, e) = TokenAt(A, e)
      BY <1>5, <1>8 DEF TokenAt
    <3>4. \A g \in J : g.kind = "store" => g \in J2 /\ g # j
      BY <1>1, <1>4
    <3> QED
      BY <1>1, <3>1, <3>2, <3>3, <3>4, ZenonT(60) DEF Owned, NewOwns
  <2>4. OwnerHas(A2, V, D)
    <3>1. SUFFICES ASSUME NEW b \in Activities, A2[b].token # None, V[A2[b].token].valid, NEW r \in DOMAIN D
                   PROVE  A2[D[r].of].token = A2[b].token
      BY DEF OwnerHas
    <3>2. A2[b].token = A[b].token
      BY <1>8, <1>9, <3>1
    <3>3. A[D[r].of].token = A[b].token
      BY <3>1, <3>2 DEF Owned, OwnerHas
    <3>4. D[r].of # a
      BY <1>16, <3>1, <3>2, <3>3
    <3> QED
      BY <1>8, <1>15, <3>2, <3>3, <3>4
  <2> QED
    BY <2>1, <2>2, <2>3, <2>4 DEF Owned
<1>22. Stored(A2, V, D)
  <2>1. ASSUME NEW r
        PROVE  r \in DOMAIN D <=> \E b \in Activities : Standing(A2, V, b) /\ V[A2[b].token].record = r
    <3>1. ASSUME NEW b \in Activities, Standing(A2, V, b), V[A2[b].token].record = r
          PROVE  r \in DOMAIN D
      <4>1. A2[b].token = A[b].token
        BY <1>8, <1>9, <3>1 DEF Standing
      <4> QED
        BY <3>1, <4>1 DEF Stored, RecordsStand, Standing
    <3>2. ASSUME r \in DOMAIN D
          PROVE  \E b \in Activities : Standing(A2, V, b) /\ V[A2[b].token].record = r
      <4>1. PICK b \in Activities : Standing(A, V, b) /\ V[A[b].token].record = r
        BY <3>2 DEF Stored, RecordsStand
      <4>2. CASE b # a
        BY <1>8, <4>1, <4>2 DEF Standing
      <4>3. CASE b = a
        <5>1. D[r].of # a /\ D[r].of \in Activities
          BY <1>15, <1>16, <3>2, <4>1, <4>3 DEF Standing
        <5>2. A[D[r].of].token = A[b].token
          BY <3>2, <4>1 DEF Owned, OwnerHas, Standing
        <5> QED
          BY <1>8, <4>1, <5>1, <5>2 DEF Standing
      <4> QED
        BY <4>2, <4>3
    <3> QED
      BY <3>1, <3>2
  <2>2. RecordsStand(A2, V, D)
    BY <2>1 DEF RecordsStand
  <2>3. OneStands(A2, V) /\ RevsStand(A2, V, D) /\ ValidStand(A2, V)
    BY <1>8, <1>9 DEF Stored, OneStands, RevsStand, ValidStand, Standing
  <2> QED
    BY <2>2, <2>3 DEF Stored
<1> QED
  BY <1>17, <1>18, <1>19, <1>20, <1>21, <1>22

-----------------------------------------------------------------------------
(* Calls and tokens.                                                       *)

\* The same calls are under way.
SameCalls(H, H2) == \A h : Working(h) => (h \in H <=> h \in H2)

\* Nothing is taken away from what those calls depend on.
Carried(A, J, H, A2, J2) == \A h \in H : Working(h) =>
  /\ TokenAt(A2, h) = TokenAt(A, h)
  /\ h.version <= A[h.of].version => h.version <= A2[h.of].version
  /\ A[h.of].named \/ HasReplace(J, h.of) => A2[h.of].named \/ HasReplace(J2, h.of)

\* Calls go on when nothing they depend on is taken away.
LEMMA CallsStay ==
  ASSUME NEW A, NEW J, NEW K, NEW V, NEW D, NEW H,
         Follows(A, K, V, H), Calls(A, J, K, V, D, H),
         NEW A2, NEW J2, NEW H2, SameCalls(H, H2),
         Carried(A, J, H, A2, J2)
  PROVE  Follows(A2, K, V, H2) /\ Calls(A2, J2, K, V, D, H2) /\ Ahead(H2) = Ahead(H)
PROOF
<1>1. \A h \in Ahead(H) : Working(h) /\ h \in H
  BY DEF Ahead, Working
<1>2. Ahead(H2) = Ahead(H)
  BY DEF Ahead, Working, SameCalls
<1>3. Follows(A2, K, V, H2)
  BY <1>1, <1>2 DEF Follows, Carried
<1>4. Calls(A2, J2, K, V, D, H2)
  <2>1. SUFFICES ASSUME NEW h \in H2, Working(h)
                 PROVE  Calling(A2, J2, K, V, D, h)
    BY DEF Calls
  <2>2. h \in H
    BY <2>1 DEF SameCalls
  <2>3. Calling(A, J, K, V, D, h)
    BY <2>1, <2>2 DEF Calls
  <2>4. /\ TokenAt(A2, h) = TokenAt(A, h) /\ (h.version <= A[h.of].version => h.version <= A2[h.of].version)
        /\ A[h.of].named \/ HasReplace(J, h.of) => A2[h.of].named \/ HasReplace(J2, h.of)
    BY <2>1, <2>2 DEF Carried
  <2> QED
    BY <2>3, <2>4 DEF Calling
<1> QED
  BY <1>2, <1>3, <1>4

\* What was told stays right when no call and no pending create goes away.
LEMMA ToldStays ==
  ASSUME NEW J, NEW D, NEW H, NEW w, ToldIs(J, D, H, w), ToldOf(J, H, w),
         NEW J2, NEW H2, Ahead(H2) = Ahead(H), Pending(J) => Pending(J2)
  PROVE  ToldIs(J2, D, H2, w) /\ ToldOf(J2, H2, w)
PROOF
<1> QED
  BY DEF ToldIs, ToldOf

\* An unissued token may be anything.
ResetSound(A, J, B, K2, V2, D, H, w, t) ==
  Sound(A, J, B, K2, V2, D, H, w) /\ V2 \in [Tokens -> TokenState] /\ V2[t] = NoToken

\* CreateToken resets a token that no Activity has.
LEMMA ResetToken ==
  ASSUME NEW A, NEW J, NEW B, NEW K \in [Tokens -> TokenState], NEW V \in [Tokens -> TokenState],
         NEW D, NEW H, NEW w, Sound(A, J, B, K, V, D, H, w), Lined(J, B, H),
         NEW t, Unissued(A, t)
  PROVE  ResetSound(A, J, B, [K EXCEPT ![t] = NoToken], [V EXCEPT ![t] = NoToken], D, H, w, t)
PROOF
<1>1. PICK K2, V2 : K2 = [K EXCEPT ![t] = NoToken] /\ V2 = [V EXCEPT ![t] = NoToken]
  OBVIOUS
<1>2. /\ NoToken \in TokenState /\ t \in Tokens
      /\ \A b \in Activities : A[b].token # t
  BY DEF NoToken, TokenState, Unissued
<1>3. /\ V2 \in [Tokens -> TokenState] /\ K2 \in [Tokens -> TokenState] /\ V2[t] = NoToken /\ K2[t] = NoToken
      /\ \A u : u # t => V2[u] = V[u] /\ K2[u] = K[u]
  BY <1>1, <1>2
<1>4. \A b \in Activities : V2[A[b].token] = V[A[b].token] /\ K2[A[b].token] = K[A[b].token]
  BY <1>2, <1>3
<1>5. ASSUME NEW u, u # t, NEW P
      PROVE  Closed(A, J, B, V, u, P) <=> Closed(A, J, B, V2, u, P)
  BY <1>3, <1>5 DEF Closed
<1>6. Flow(A, J, B, V2)
  <2>1. Flow(A, J, B, V)
    BY DEF Sound
  <2>2. OthersClosed(A, J, B, V2)
    BY <1>2, <1>5, <2>1 DEF Flow, OthersClosed
  <2>3. LostClosed(A, J, B, V2)
    BY <1>2, <1>5, <2>1 DEF Flow, LostClosed
  <2>4. ValidHas(A, J, V2)
    BY <1>4, <2>1 DEF Flow, ValidHas
  <2> QED
    BY <2>2, <2>3, <2>4 DEF Flow
<1>7. Owned(A, J, B, V2, D)
  <2>1. Owned(A, J, B, V, D) /\ \A c \in J : c.of \in Activities
    BY DEF Sound, Lined
  <2>2. NamedOwns(A, J, B, V2, D)
    BY <1>4, <2>1 DEF Owned, NamedOwns, NamedOf
  <2>3. EndOwns(A, J, B, V2, D)
    BY <1>4, <2>1 DEF Owned, EndOwns, TokenAt
  <2>4. NewOwns(A, J, B, V2, D)
    BY <1>4, <2>1 DEF Owned, NewOwns, TokenAt
  <2>5. OwnerHas(A, V2, D)
    BY <1>4, <2>1 DEF Owned, OwnerHas
  <2> QED
    BY <2>2, <2>3, <2>4, <2>5 DEF Owned
<1>8. Stored(A, V2, D)
  BY <1>4 DEF Sound, Stored, RecordsStand, OneStands, RevsStand, ValidStand, Standing
<1>9. \A h \in H : h.of \in Activities /\ TokenAt(A, h) # t /\ V2[TokenAt(A, h)] = V[TokenAt(A, h)]
                   /\ K2[TokenAt(A, h)] = K[TokenAt(A, h)]
  BY <1>2, <1>4 DEF Lined, Command, TokenAt
<1>10. Follows(A, K2, V2, H)
  <2>1. CASE Ahead(H) = {}
    <3>1. V = K
      BY <2>1 DEF Sound, Follows
    <3> QED
      BY <1>1, <2>1, <3>1 DEF Follows
  <2>2. CASE Ahead(H) # {}
    <3>1. SUFFICES ASSUME NEW h \in Ahead(H)
                   PROVE  V2 = [K2 EXCEPT ![TokenAt(A, h)] = Result(h)]
      BY <2>2 DEF Follows
    <3>2. V = [K EXCEPT ![TokenAt(A, h)] = Result(h)]
      BY <3>1 DEF Sound, Follows
    <3>3. TokenAt(A, h) # t
      BY <1>9, <3>1 DEF Ahead
    <3>4. PICK u, R : u = TokenAt(A, h) /\ R = Result(h)
      OBVIOUS
    <3>5. u # t /\ V = [K EXCEPT ![u] = R]
      BY <3>2, <3>3, <3>4
    <3>6. V2 = [K2 EXCEPT ![u] = R]
      BY <1>1, <3>5, <1>2
    <3> QED
      BY <3>4, <3>6
  <2> QED
    BY <2>1, <2>2
<1>11. Calls(A, J, K2, V2, D, H)
  <2>1. SUFFICES ASSUME NEW h \in H, Working(h)
                 PROVE  Calling(A, J, K2, V2, D, h)
    BY DEF Calls
  <2>2. Calling(A, J, K, V, D, h)
    BY <2>1 DEF Sound, Calls
  <2> QED
    BY <1>9, <2>2 DEF Calling
<1>12. ResetSound(A, J, B, K2, V2, D, H, w, t)
  BY <1>3, <1>6, <1>7, <1>8, <1>10, <1>11 DEF Sound, ResetSound
<1> QED
  BY <1>1, <1>12

-----------------------------------------------------------------------------
(* An Activity is updated, told to end, or gets a token.                   *)

\* What the invariant looks at, of the Activities.
View(A) == [x \in Activities |->
  [life |-> A[x].life, named |-> A[x].named, persistent |-> A[x].persistent,
   ending |-> A[x].ending, intCommand |-> A[x].intCommand, extCommand |-> A[x].extCommand,
   version |-> A[x].version, token |-> A[x].token]]

\* Activity a, which is live, is updated, or told to end.
Wanes(A, A2, a) == \A x \in Activities :
  /\ A2[x].life = A[x].life /\ A2[x].named = A[x].named
  /\ A2[x].persistent = A[x].persistent /\ A2[x].token = A[x].token
  /\ x # a => /\ A2[x].ending = A[x].ending
              /\ A2[x].intCommand = A[x].intCommand /\ A2[x].extCommand = A[x].extCommand
  /\ A[x].intCommand => A2[x].intCommand
  /\ A[x].extCommand => A2[x].extCommand
  /\ \A v \in Nat : v <= A[x].version => v <= A2[x].version

\* The invariant is kept when an Activity is updated or told to end.
LEMMA Waned ==
  ASSUME NEW A, NEW J, NEW B, NEW K, NEW V, NEW D, NEW H, NEW w,
         Sound(A, J, B, K, V, D, H, w), Lined(J, B, H), Records(D),
         NEW a \in Activities, NEW A2, Wanes(A, A2, a), A[a].life = "live",
         EndingHas(A2, J)
  PROVE  Sound(A2, J, B, K, V, D, H, w)
PROOF
<1>1. \A x \in Activities : /\ A2[x].life = A[x].life /\ A2[x].named = A[x].named
                            /\ A2[x].persistent = A[x].persistent /\ A2[x].token = A[x].token
                            /\ A[x].intCommand => A2[x].intCommand
                            /\ A[x].extCommand => A2[x].extCommand
  BY DEF Wanes
<1>2. NamedOf(A2) = NamedOf(A)
  BY <1>1 DEF NamedOf
<1>3. \A c \in J : c.of \in Activities
  BY DEF Lined
<1>4. \A c \in J : TokenAt(A2, c) = TokenAt(A, c)
  BY <1>1, <1>3 DEF TokenAt
<1>5. \A c \in J : Deletes(A2, J, B, c) <=> Deletes(A, J, B, c)
  BY <1>1, <1>3, <1>4 DEF Deletes
<1>6. ASSUME NEW P \in SUBSET J, NEW t
      PROVE  Closed(A2, J, B, V, t, P) <=> Closed(A, J, B, V, t, P)
  BY <1>4, <1>5 DEF Closed
<1>7. Lives(A2)
  <2>1. OneNamed(A2) /\ PersistentHave(A2)
    BY <1>1, <1>2 DEF Sound, Lives, OneNamed, PersistentHave, NamedOf
  <2>2. Unborn(A2)
    BY DEF Sound, Lives, Unborn, Wanes
  <2>3. NamedUnlessEnding(A2) /\ TokensPersist(A2)
    BY <1>1 DEF Sound, Lives, NamedUnlessEnding, TokensPersist
  <2> QED
    BY <2>1, <2>2, <2>3 DEF Lives
<1>8. Works(A2, J)
  <2>1. Works(A, J)
    BY DEF Sound
  <2>2. JobsLive(A2, J) /\ ReplaceLeaves(A2, J) /\ EndIsExternal(A2, J) /\ NoopsAreNot(A2, J)
    BY <1>1, <1>3, <2>1 DEF Works, JobsLive, ReplaceLeaves, EndIsExternal, NoopsAreNot
  <2>3. StoresHave(A2, J) /\ DeletesEnd(A2, J)
    BY <1>1, <1>3, <1>4, <2>1 DEF Works, StoresHave, DeletesEnd
  <2>4. DetachedHas(A2, J)
    BY <1>1, <2>1 DEF Works, DetachedHas
  <2>5. SharersHave(A2, J)
    BY <1>1, <2>1 DEF Works, SharersHave
  <2> QED
    BY <2>2, <2>3, <2>4, <2>5 DEF Works
<1>9. Rows(A2, J, B)
  <2>1. Rows(A, J, B)
    BY DEF Sound
  <2>2. ReplaceThenEnd(A2, J, B)
    BY <1>1, <1>3, <1>4, <2>1 DEF Rows, ReplaceThenEnd
  <2>3. WritersBefore(A2, J, B)
    BY <1>2, <1>5, <2>1 DEF Rows, WritersBefore, Writer
  <2> QED
    BY <2>1, <2>2, <2>3 DEF Rows
<1>10. Flow(A2, J, B, V)
  <2>1. Flow(A, J, B, V)
    BY DEF Sound
  <2>2. OthersClosed(A2, J, B, V)
    <3>1. SUFFICES ASSUME NEW c \in J, c.kind = "store" \/ c.finish = "create", NEW b \in Activities,
                          A2[b].token # None, A2[b].token # TokenAt(A2, c)
                   PROVE  Closed(A2, J, B, V, A2[b].token, Earlier(J, B, c))
      BY DEF OthersClosed
    <3>2. Closed(A, J, B, V, A[b].token, Earlier(J, B, c))
      BY <1>1, <1>4, <2>1, <3>1 DEF Flow, OthersClosed
    <3>3. A2[b].token = A[b].token /\ Earlier(J, B, c) \in SUBSET J
      BY <1>1 DEF Earlier
    <3> QED
      BY <1>6, <3>2, <3>3
  <2>3. LostClosed(A2, J, B, V)
    BY <1>1, <1>2, <1>6, <2>1 DEF Flow, LostClosed, NamedOf
  <2>4. ValidHas(A2, J, V)
    BY <1>1, <2>1 DEF Flow, ValidHas
  <2> QED
    BY <2>2, <2>3, <2>4 DEF Flow
<1>11. Owned(A2, J, B, V, D)
  <2>1. Owned(A, J, B, V, D)
    BY DEF Sound
  <2>2. NamedOwns(A2, J, B, V, D)
    BY <1>1, <1>2, <1>4, <2>1 DEF Owned, NamedOwns, NamedOf
  <2>3. EndOwns(A2, J, B, V, D)
    BY <1>4, <1>5, <2>1, ZenonT(60) DEF Owned, EndOwns
  <2>4. NewOwns(A2, J, B, V, D)
    BY <1>4, <2>1, ZenonT(60) DEF Owned, NewOwns
  <2>5. OwnerHas(A2, V, D)
    <3>1. SUFFICES ASSUME NEW b \in Activities, A2[b].token # None, V[A2[b].token].valid, NEW r \in DOMAIN D
                   PROVE  A2[D[r].of].token = A2[b].token
      BY DEF OwnerHas
    <3>2. A[D[r].of].token = A[b].token
      BY <1>1, <2>1, <3>1 DEF Owned, OwnerHas
    <3>3. D[r].of \in Activities
      BY DEF Records, Record
    <3> QED
      BY <1>1, <3>2, <3>3
  <2> QED
    BY <2>2, <2>3, <2>4, <2>5 DEF Owned
<1>12. Stored(A2, V, D)
  BY <1>1 DEF Sound, Stored, RecordsStand, OneStands, RevsStand, ValidStand, Standing
<1>13. \A h \in H : /\ TokenAt(A2, h) = TokenAt(A, h)
                    /\ h.version <= A[h.of].version => h.version <= A2[h.of].version
                    /\ A2[h.of].named = A[h.of].named
  BY <1>1, PersistAssumption DEF Lined, Command, TokenAt, Wanes
<1>14. Follows(A2, K, V, H) /\ Calls(A2, J, K, V, D, H)
  <2>1. Carried(A, J, H, A2, J) /\ SameCalls(H, H)
    BY <1>13 DEF Carried, SameCalls
  <2> QED
    BY <2>1, CallsStay DEF Sound
<1> QED
  BY <1>7, <1>8, <1>9, <1>10, <1>11, <1>12, <1>14 DEF Sound

\* Activity a has got token t.
Gains(A, A2, a, t) == \A x \in Activities :
  /\ A2[x].life = A[x].life /\ A2[x].named = A[x].named
  /\ A2[x].persistent = A[x].persistent /\ A2[x].ending = A[x].ending
  /\ A2[x].intCommand = A[x].intCommand /\ A2[x].extCommand = A[x].extCommand
  /\ A2[x].version = A[x].version /\ A2[x].token = IF x = a THEN t ELSE A[x].token

\* And when it gets a token.
LEMMA Gained ==
  ASSUME NEW A, NEW J, NEW B, NEW K, NEW V, NEW D, NEW H, NEW w,
         Sound(A, J, B, K, V, D, H, w), Lined(J, B, H), Records(D),
         NEW a \in Activities, NEW t, NEW A2, Gains(A, A2, a, t), Unissued(A, t), V[t] = NoToken,
         A[a].life = "live", A[a].persistent, A[a].token = None, ~A[a].named, A[a].extCommand,
         \A c \in J : c.of = a => c.kind # "delete"
  PROVE  Sound(A2, J, B, K, V, D, H, w)
PROOF
<1>1. \A x \in Activities : /\ A2[x].life = A[x].life /\ A2[x].named = A[x].named
                            /\ A2[x].persistent = A[x].persistent /\ A2[x].ending = A[x].ending
                            /\ A2[x].intCommand = A[x].intCommand /\ A2[x].extCommand = A[x].extCommand
                            /\ x # a => A2[x].token = A[x].token
  BY DEF Gains
<1>2. /\ A2[a].token = t /\ t # None /\ \A x \in Activities : A[x].token # t
      /\ ~V[t].valid /\ V[t].record = None
  BY DEF Gains, Unissued, NoToken
<1>3. NamedOf(A2) = NamedOf(A) /\ a \notin NamedOf(A)
  BY <1>1 DEF NamedOf
<1>4. \A c \in J : /\ c.of \in Activities /\ c.kind \in {"store", "delete", "noop"}
                   /\ c.of # a => TokenAt(A2, c) = TokenAt(A, c)
  BY <1>1 DEF Lined, TokenAt
<1>5. \A c \in J : c.of = a => c.kind = "noop" /\ TokenAt(A, c) = None
  BY <1>4 DEF Sound, Works, StoresHave, TokenAt
<1>6. \A c \in J : c.of = a => c.finish \in {"end", "replace"}
  <2>1. \A c \in J : c.of = a => c.finish \in {"create", "update", "end", "replace"}
    BY DEF Lined
  <2> QED
    BY <1>5, <2>1 DEF Sound, Works, NoopsAreNot
<1>7. \A c \in J : Deletes(A2, J, B, c) <=> Deletes(A, J, B, c)
  BY <1>1, <1>4, <1>5 DEF Deletes
<1>8. \A c \in J : (c.kind = "store" => c.of # a) /\ (Deletes(A, J, B, c) => c.of # a)
  BY <1>5 DEF Deletes
<1>9. ASSUME NEW P \in SUBSET J, NEW u, Closed(A, J, B, V, u, P)
      PROVE  Closed(A2, J, B, V, u, P)
  BY <1>4, <1>7, <1>8, <1>9 DEF Closed
<1>10. ASSUME NEW P \in SUBSET J
       PROVE  Closed(A2, J, B, V, t, P)
  <2>1. \A e \in P : e.kind = "store" => TokenAt(A2, e) # t
    BY <1>2, <1>4, <1>8 DEF TokenAt
  <2> QED
    BY <1>2, <2>1 DEF Closed
<1>11. Lives(A2)
  <2>1. OneNamed(A2) /\ PersistentHave(A2)
    BY <1>1, <1>3 DEF Sound, Lives, OneNamed, PersistentHave, NamedOf
  <2>2. Unborn(A2)
    BY <1>1 DEF Sound, Lives, Unborn
  <2>3. NamedUnlessEnding(A2) /\ TokensPersist(A2)
    BY <1>1 DEF Sound, Lives, NamedUnlessEnding, TokensPersist
  <2> QED
    BY <2>1, <2>2, <2>3 DEF Lives
<1>12. Works(A2, J)
  <2>1. Works(A, J)
    BY DEF Sound
  <2>2. JobsLive(A2, J) /\ ReplaceLeaves(A2, J) /\ EndIsExternal(A2, J) /\ NoopsAreNot(A2, J)
    BY <1>1, <1>4, <2>1 DEF Works, JobsLive, ReplaceLeaves, EndIsExternal, NoopsAreNot
  <2>3. StoresHave(A2, J) /\ DeletesEnd(A2, J)
    BY <1>1, <1>4, <1>5, <2>1 DEF Works, StoresHave, DeletesEnd
  <2>4. EndingHas(A2, J)
    BY <1>1, <1>3, <2>1 DEF Works, EndingHas, NamedOf
  <2>5. DetachedHas(A2, J)
    BY <1>1, <2>1 DEF Works, DetachedHas
  <2>6. SharersHave(A2, J)
    BY <1>1, <1>2, <2>1 DEF Works, SharersHave
  <2> QED
    BY <2>2, <2>3, <2>4, <2>5, <2>6 DEF Works
<1>13. Rows(A2, J, B)
  <2>1. Rows(A, J, B)
    BY DEF Sound
  <2>2. ReplaceThenEnd(A2, J, B)
    <3>1. SUFFICES ASSUME NEW c \in J, NEW d \in J, c.finish = "replace", d.finish = "end",
                          A2[d.of].named, TokenAt(A2, d) # None, TokenAt(A2, c) = TokenAt(A2, d)
                   PROVE  <<c, d>> \in B
      BY DEF ReplaceThenEnd
    <3>2. d.of # a /\ TokenAt(A2, d) = TokenAt(A, d) /\ A[d.of].named
      BY <1>1, <1>4, <3>1
    <3>3. c.of # a
      BY <1>2, <1>4, <3>1, <3>2 DEF TokenAt
    <3> QED
      BY <1>4, <2>1, <3>1, <3>2, <3>3 DEF Rows, ReplaceThenEnd
  <2>3. WritersBefore(A2, J, B)
    BY <1>3, <1>7, <2>1 DEF Rows, WritersBefore, Writer
  <2> QED
    BY <2>1, <2>2, <2>3 DEF Rows
<1>14. Flow(A2, J, B, V)
  <2>1. Flow(A, J, B, V)
    BY DEF Sound
  <2>2. OthersClosed(A2, J, B, V)
    <3>1. SUFFICES ASSUME NEW c \in J, c.kind = "store" \/ c.finish = "create", NEW b \in Activities,
                          A2[b].token # None, A2[b].token # TokenAt(A2, c)
                   PROVE  Closed(A2, J, B, V, A2[b].token, Earlier(J, B, c))
      BY DEF OthersClosed
    <3>2. c.of # a /\ Earlier(J, B, c) \in SUBSET J
      BY <1>6, <1>8, <3>1 DEF Earlier
    <3>3. CASE b = a
      BY <1>2, <1>10, <3>2, <3>3
    <3>4. CASE b # a
      <4>1. A2[b].token = A[b].token /\ TokenAt(A2, c) = TokenAt(A, c)
        BY <1>1, <1>4, <3>2, <3>4
      <4>2. Closed(A, J, B, V, A[b].token, Earlier(J, B, c))
        BY <2>1, <3>1, <4>1 DEF Flow, OthersClosed
      <4> QED
        BY <1>9, <3>2, <4>1, <4>2
    <3> QED
      BY <3>3, <3>4
  <2>3. LostClosed(A2, J, B, V)
    <3>1. SUFFICES ASSUME NEW b \in Activities, A2[b].token # None,
                          \A n \in NamedOf(A2) : A2[n].token # A2[b].token
                   PROVE  Closed(A2, J, B, V, A2[b].token, J)
      BY DEF LostClosed
    <3>2. CASE b = a
      BY <1>2, <1>10, <3>2
    <3>3. CASE b # a
      <4>1. A2[b].token = A[b].token /\ \A n \in NamedOf(A) : A[n].token # A[b].token
        BY <1>1, <1>3, <3>1, <3>3 DEF NamedOf
      <4>2. Closed(A, J, B, V, A[b].token, J)
        BY <2>1, <3>1, <4>1 DEF Flow, LostClosed
      <4> QED
        BY <1>9, <4>1, <4>2
    <3> QED
      BY <3>2, <3>3
  <2>4. ValidHas(A2, J, V)
    BY <1>1, <1>2, <2>1 DEF Flow, ValidHas
  <2> QED
    BY <2>2, <2>3, <2>4 DEF Flow
<1>15. Owned(A2, J, B, V, D)
  <2>1. Owned(A, J, B, V, D)
    BY DEF Sound
  <2>2. NamedOwns(A2, J, B, V, D)
    BY <1>1, <1>3, <1>4, <1>8, <2>1 DEF Owned, NamedOwns, NamedOf
  <2>3. EndOwns(A2, J, B, V, D)
    BY <1>4, <1>7, <1>8, <2>1, ZenonT(60) DEF Owned, EndOwns
  <2>4. NewOwns(A2, J, B, V, D)
    <3>1. SUFFICES ASSUME NEW c \in J, c.kind = "noop", c.finish = "replace", TokenAt(A2, c) # None
                   PROVE  /\ \A e \in J : e.kind = "store" /\ e.of = c.of =>
                               \E g \in J : /\ g.kind = "store" /\ g.of # c.of /\ TokenAt(A2, g) = TokenAt(A2, c)
                                            /\ <<e, g>> \in B /\ <<g, c>> \in B
                          /\ V[TokenAt(A2, c)].valid => \A r \in DOMAIN D : D[r].of = c.of =>
                               \E g \in J : /\ g.kind = "store" /\ g.of # c.of
                                            /\ TokenAt(A2, g) = TokenAt(A2, c) /\ <<g, c>> \in B
      BY DEF NewOwns
    <3>2. CASE c.of = a
      BY <1>2, <1>8, <3>2 DEF TokenAt
    <3>3. CASE c.of # a
      BY <1>4, <1>8, <2>1, <3>1, <3>3 DEF Owned, NewOwns
    <3> QED
      BY <3>2, <3>3
  <2>5. OwnerHas(A2, V, D)
    <3>1. SUFFICES ASSUME NEW b \in Activities, A2[b].token # None, V[A2[b].token].valid, NEW r \in DOMAIN D
                   PROVE  A2[D[r].of].token = A2[b].token
      BY DEF OwnerHas
    <3>2. b # a /\ A2[b].token = A[b].token
      BY <1>1, <1>2, <3>1
    <3>3. A[D[r].of].token = A[b].token
      BY <3>1, <3>2, <2>1 DEF Owned, OwnerHas
    <3>4. D[r].of \in Activities /\ D[r].of # a
      BY <3>1, <3>2, <3>3 DEF Records, Record
    <3> QED
      BY <1>1, <3>2, <3>3, <3>4
  <2> QED
    BY <2>2, <2>3, <2>4, <2>5 DEF Owned
<1>16. Stored(A2, V, D)
  <2>1. Stored(A, V, D)
    BY DEF Sound
  <2>2. \A b \in Activities : Standing(A2, V, b) <=> Standing(A, V, b)
    BY <1>1, <1>2 DEF Standing
  <2>3. \A b \in Activities : Standing(A, V, b) => A2[b].token = A[b].token
    BY <1>1 DEF Standing
  <2>4. RecordsStand(A2, V, D)
    BY <2>1, <2>2, <2>3 DEF Stored, RecordsStand
  <2>5. OneStands(A2, V) /\ RevsStand(A2, V, D)
    BY <2>1, <2>2, <2>3 DEF Stored, OneStands, RevsStand
  <2>6. ValidStand(A2, V)
    BY <1>1, <1>2, <2>1 DEF Stored, ValidStand
  <2> QED
    BY <2>4, <2>5, <2>6 DEF Stored
<1>17. Carried(A, J, H, A2, J)
  <2>1. SUFFICES ASSUME NEW h \in H, Working(h)
                 PROVE  /\ TokenAt(A2, h) = TokenAt(A, h)
                        /\ h.version <= A[h.of].version => h.version <= A2[h.of].version
                        /\ A[h.of].named \/ HasReplace(J, h.of) => A2[h.of].named \/ HasReplace(J, h.of)
    BY DEF Carried
  <2>2. h.of \in Activities
    BY DEF Lined, Command
  <2>3. Calling(A, J, K, V, D, h)
    BY <2>1 DEF Sound, Calls
  <2>4. h.of # a
    BY <2>3 DEF Calling, TokenAt
  <2> QED
    BY <2>2, <2>4 DEF Gains, TokenAt
<1>18. Follows(A2, K, V, H) /\ Calls(A2, J, K, V, D, H)
  BY <1>17, CallsStay DEF Sound, SameCalls
<1> QED
  BY <1>11, <1>12, <1>13, <1>14, <1>15, <1>16, <1>18 DEF Sound

-----------------------------------------------------------------------------
(* A job is hooked.                                                        *)

\* Job x comes after those of P.
Added(J, B, x, P, J2, B2) ==
  /\ x \notin J /\ P \subseteq J
  /\ \A y : y \in J2 <=> y \in J \/ y = x
  /\ \A y, z : <<y, z>> \in B2 <=> <<y, z>> \in B \/ (y \in P /\ z = x)

\* For the other jobs it is as before.
Keeps(A, J, B, x, J2, B2) ==
  /\ \A a : HasReplace(J2, a) <=> HasReplace(J, a)
  /\ \A c \in J : /\ Deletes(A, J2, B2, c) <=> Deletes(A, J, B, c)
                  /\ Writer(A, J2, B2, c) <=> Writer(A, J, B, c)
                  /\ Earlier(J2, B2, c) = Earlier(J, B, c)
  /\ \A c, d \in J : <<c, d>> \in B2 <=> <<c, d>> \in B
  /\ \A d : <<x, d>> \notin B2

\* For the jobs that are there, nothing changes when one is added behind them.
LEMMA AddedKeeps ==
  ASSUME NEW A, NEW J, NEW B, NEW H, Lined(J, B, H), NEW x, NEW P, NEW J2, NEW B2,
         Added(J, B, x, P, J2, B2), x.finish # "replace"
  PROVE  Keeps(A, J, B, x, J2, B2)
PROOF
<1>1. \A y, z : <<y, z>> \in B => y \in J /\ z \in J
  BY DEF Lined, Ordered
<1>2. \A a : HasReplace(J2, a) <=> HasReplace(J, a)
  BY DEF Added, HasReplace
<1>3. \A c, d \in J : <<c, d>> \in B2 <=> <<c, d>> \in B
  BY DEF Added
<1>4. \A d : <<x, d>> \notin B2
  BY <1>1 DEF Added
<1>5. ASSUME NEW c \in J
      PROVE  /\ Deletes(A, J2, B2, c) <=> Deletes(A, J, B, c)
             /\ Writer(A, J2, B2, c) <=> Writer(A, J, B, c)
             /\ Earlier(J2, B2, c) = Earlier(J, B, c)
  <2>1. Replaced(J2, B2, c) <=> Replaced(J, B, c)
    BY <1>3, <1>4 DEF Added, Replaced
  <2>2. Deletes(A, J2, B2, c) <=> Deletes(A, J, B, c)
    BY <1>2, <2>1 DEF Deletes
  <2>3. Earlier(J2, B2, c) = Earlier(J, B, c)
    BY <1>3, <1>4 DEF Added, Earlier
  <2> QED
    BY <2>2, <2>3 DEF Writer
<1> QED
  BY <1>2, <1>3, <1>4, <1>5 DEF Keeps

\* What an update or the end of an Activity hooks.
Joinable(A, J, B, x, P, J2, B2) ==
  /\ Added(J, B, x, P, J2, B2)
  /\ x.of \in Activities /\ A[x.of].life = "live"
  /\ x.finish \in {"create", "update", "end"} /\ x.kind \in {"store", "delete", "noop"}
  /\ x.kind = "store" => x.finish # "end" /\ A[x.of].named /\ TokenAt(A, x) # None
  /\ x.kind = "delete" => x.finish = "end"
  /\ x.kind = "noop" => ~A[x.of].persistent
  /\ x.finish = "create" => A[x.of].named
  /\ x.finish = "end" => A[x.of].extCommand
  /\ Deletes(A, J2, B2, x) => A[x.of].named
  /\ A[x.of].named => P = J
  /\ \A c \in J : c.of = x.of => c \in P /\ c.finish # "end" /\ (c.finish = "replace" => x.finish = "end")

\* A job that is hooked keeps the invariant.
LEMMA JobAdded ==
  ASSUME NEW A, NEW J, NEW B, NEW K, NEW V, NEW D, NEW H, NEW w,
         Sound(A, J, B, K, V, D, H, w), Lined(J, B, H),
         NEW x, NEW P, NEW J2, NEW B2, Joinable(A, J, B, x, P, J2, B2), NEW H2, SameCalls(H, H2)
  PROVE  Sound(A, J2, B2, K, V, D, H2, w)
PROOF
<1>1. /\ x \notin J /\ P \in SUBSET J
      /\ \A y : y \in J2 <=> y \in J \/ y = x
      /\ \A y, z : <<y, z>> \in B2 <=> <<y, z>> \in B \/ (y \in P /\ z = x)
  BY DEF Joinable, Added
<1>2. x.finish # "replace" /\ Added(J, B, x, P, J2, B2)
  BY DEF Joinable
<1>3. /\ \A a : HasReplace(J2, a) <=> HasReplace(J, a)
      /\ \A c \in J : /\ Deletes(A, J2, B2, c) <=> Deletes(A, J, B, c)
                      /\ Writer(A, J2, B2, c) <=> Writer(A, J, B, c)
                      /\ Earlier(J2, B2, c) = Earlier(J, B, c)
      /\ \A c, d \in J : <<c, d>> \in B2 <=> <<c, d>> \in B
      /\ \A d : <<x, d>> \notin B2
  <2>1. Keeps(A, J, B, x, J2, B2)
    BY <1>2, AddedKeeps
  <2> QED
    BY <2>1 DEF Keeps
<1>4. A[x.of].named => x.of \in NamedOf(A) /\ (\A n \in NamedOf(A) : n = x.of) /\ P = J
  BY DEF Joinable, NamedOf, Sound, Lives, OneNamed
<1>5. \A c \in P : c \in J /\ <<c, x>> \in B2
  BY <1>1
<1>6. ASSUME NEW Q \in SUBSET J, NEW t
      PROVE  Closed(A, J, B, V, t, Q) => Closed(A, J2, B2, V, t, Q)
  <2>1. SUFFICES ASSUME Closed(A, J, B, V, t, Q)
                 PROVE  Closed(A, J2, B2, V, t, Q)
    OBVIOUS
  <2>2. \A d \in Q : d \in J /\ (Deletes(A, J2, B2, d) <=> Deletes(A, J, B, d))
    BY <1>3
  <2>3. \A c, d \in Q : <<c, d>> \in B2 <=> <<c, d>> \in B
    BY <1>3
  <2> QED
    BY <2>1, <2>2, <2>3 DEF Closed
<1>7. Works(A, J2)
  <2>1. Works(A, J)
    BY DEF Sound
  <2>2. JobsLive(A, J2) /\ ReplaceLeaves(A, J2) /\ EndIsExternal(A, J2) /\ NoopsAreNot(A, J2)
    <3>1. JobsLive(A, J2)
      <4>1. \A c \in J : c.of \in Activities /\ A[c.of].life = "live"
        BY <2>1 DEF Works, JobsLive
      <4>2. x.of \in Activities /\ A[x.of].life = "live"
        BY DEF Joinable
      <4> QED
        BY <1>1, <4>1, <4>2 DEF JobsLive
    <3>2. ReplaceLeaves(A, J2)
      BY <1>1, <1>2, <2>1 DEF Works, ReplaceLeaves
    <3>3. EndIsExternal(A, J2)
      BY <1>1, <2>1 DEF Joinable, Works, EndIsExternal
    <3>4. NoopsAreNot(A, J2)
      BY <1>1, <2>1 DEF Joinable, Works, NoopsAreNot
    <3> QED
      BY <3>1, <3>2, <3>3, <3>4
  <2>3. StoresHave(A, J2) /\ DeletesEnd(A, J2)
    BY <1>1, <1>3, <2>1 DEF Joinable, Works, StoresHave, DeletesEnd
  <2>4. EndingHas(A, J2)
    BY <1>1, <2>1 DEF Works, EndingHas
  <2>5. DetachedHas(A, J2) /\ SharersHave(A, J2)
    BY <1>3, <2>1 DEF Works, DetachedHas, SharersHave
  <2> QED
    BY <2>2, <2>3, <2>4, <2>5 DEF Works
<1>8. Rows(A, J2, B2)
  <2>1. Rows(A, J, B)
    BY DEF Sound
  <2>2. EndIsLast(J2, B2)
    BY <1>1, <1>3, <2>1 DEF Rows, EndIsLast, Joinable
  <2>3. ReplaceIsLast(J2, B2)
    BY <1>1, <1>3, <2>1 DEF Rows, ReplaceIsLast, Joinable
  <2>4. ReplaceThenCreate(J2, B2)
    <3>1. SUFFICES ASSUME NEW c \in J2, c.kind = "delete", c.finish = "replace"
                   PROVE  \E d \in J2 : d.kind = "noop" /\ d.finish = "create" /\ <<c, d>> \in B2
      BY DEF ReplaceThenCreate
    <3>2. c \in J
      BY <1>1, <1>2, <3>1
    <3>3. PICK d \in J : d.kind = "noop" /\ d.finish = "create" /\ <<c, d>> \in B
      BY <2>1, <3>1, <3>2 DEF Rows, ReplaceThenCreate
    <3> QED
      BY <1>1, <3>3
  <2>5. ReplaceThenEnd(A, J2, B2)
    <3>1. SUFFICES ASSUME NEW c \in J2, NEW d \in J2, c.finish = "replace", d.finish = "end",
                          A[d.of].named, TokenAt(A, d) # None, TokenAt(A, c) = TokenAt(A, d)
                   PROVE  <<c, d>> \in B2
      BY DEF ReplaceThenEnd
    <3>2. c \in J
      BY <1>1, <1>2, <3>1
    <3>3. CASE d \in J
      BY <1>1, <2>1, <3>1, <3>2, <3>3 DEF Rows, ReplaceThenEnd
    <3>4. CASE d = x
      BY <1>4, <1>5, <3>1, <3>2, <3>4
    <3> QED
      BY <1>1, <3>3, <3>4
  <2>6. WritersBefore(A, J2, B2)
    <3>1. SUFFICES ASSUME NEW c \in J2, Writer(A, J2, B2, c)
                   PROVE  \E d \in J2 : d.of \in NamedOf(A) /\ (d = c \/ <<c, d>> \in B2)
      BY DEF WritersBefore
    <3>2. CASE c \in J
      <4>1. PICK d \in J : d.of \in NamedOf(A) /\ (d = c \/ <<c, d>> \in B)
        BY <1>3, <2>1, <3>1, <3>2 DEF Rows, WritersBefore
      <4> QED
        BY <1>1, <4>1
    <3>3. CASE c = x
      BY <1>4, <3>1, <3>3 DEF Writer, Joinable
    <3> QED
      BY <1>1, <3>2, <3>3
  <2> QED
    BY <2>2, <2>3, <2>4, <2>5, <2>6 DEF Rows
<1>9. Flow(A, J2, B2, V)
  <2>1. Flow(A, J, B, V)
    BY DEF Sound
  <2>2. OthersClosed(A, J2, B2, V)
    <3>1. SUFFICES ASSUME NEW c \in J2, c.kind = "store" \/ c.finish = "create", NEW b \in Activities,
                          A[b].token # None, A[b].token # TokenAt(A, c)
                   PROVE  Closed(A, J2, B2, V, A[b].token, Earlier(J2, B2, c))
      BY DEF OthersClosed
    <3>2. PICK t, Q : t = A[b].token /\ Q = Earlier(J2, B2, c)
      OBVIOUS
    <3>3. CASE c \in J
      <4>1. Q \in SUBSET J /\ Q = Earlier(J, B, c)
        BY <1>3, <3>2, <3>3 DEF Earlier
      <4>2. Closed(A, J, B, V, t, Q)
        BY <2>1, <3>1, <3>2, <3>3, <4>1 DEF Flow, OthersClosed
      <4> QED
        BY <1>6, <3>2, <4>1, <4>2
    <3>4. CASE c = x
      <4>1. A[x.of].named
        BY <3>1, <3>4 DEF Joinable
      <4>2. Q = J
        <5>1. \A y : y \in Q <=> y \in J2 /\ <<y, x>> \in B2
          BY <3>2, <3>4 DEF Earlier
        <5>2. \A y : <<y, x>> \notin B
          BY <1>1 DEF Lined, Ordered
        <5> QED
          BY <1>1, <1>4, <4>1, <5>1, <5>2
      <4>3. \A n \in NamedOf(A) : A[n].token # A[b].token
        BY <1>4, <3>1, <3>4, <4>1 DEF TokenAt
      <4>4. Closed(A, J, B, V, t, Q)
        BY <2>1, <3>1, <3>2, <4>2, <4>3 DEF Flow, LostClosed
      <4> QED
        BY <1>6, <3>2, <4>2, <4>4
    <3> QED
      BY <1>1, <3>3, <3>4
  <2>3. LostClosed(A, J2, B2, V)
    <3>1. SUFFICES ASSUME NEW b \in Activities, A[b].token # None,
                          \A n \in NamedOf(A) : A[n].token # A[b].token
                   PROVE  Closed(A, J2, B2, V, A[b].token, J2)
      BY DEF LostClosed
    <3>2. PICK t : t = A[b].token
      OBVIOUS
    <3>3. Closed(A, J2, B2, V, t, J)
      BY <1>6, <2>1, <3>1, <3>2 DEF Flow, LostClosed
    <3>4. x.kind = "store" => TokenAt(A, x) # t
      BY <1>4, <3>1, <3>2 DEF Joinable, TokenAt
    <3>5. Closed(A, J2, B2, V, t, J2)
      BY <1>1, <3>3, <3>4 DEF Closed
    <3> QED
      BY <3>2, <3>5
  <2>4. ValidHas(A, J2, V)
    BY <1>3, <2>1 DEF Flow, ValidHas
  <2> QED
    BY <2>2, <2>3, <2>4 DEF Flow
<1>10. Owned(A, J2, B2, V, D)
  <2>1. Owned(A, J, B, V, D)
    BY DEF Sound
  <2>2. NamedOwns(A, J2, B2, V, D)
    <3>1. SUFFICES ASSUME NEW n \in NamedOf(A), A[n].token # None
                   PROVE  /\ \A e \in J2 : e.kind = "store" /\ TokenAt(A, e) = A[n].token /\ e.of # n =>
                               \E g \in J2 : g.kind = "store" /\ g.of = n /\ <<e, g>> \in B2
                          /\ V[A[n].token].valid => \A r \in DOMAIN D : D[r].of # n =>
                               \E g \in J2 : g.kind = "store" /\ g.of = n
      BY DEF NamedOwns
    <3>2. \A e \in J2 : e.kind = "store" /\ e.of # n => e \in J
      BY <1>1, <1>4 DEF Joinable
    <3> QED
      BY <1>1, <2>1, <3>1, <3>2 DEF Owned, NamedOwns
  <2>3. EndOwns(A, J2, B2, V, D)
    <3>1. SUFFICES ASSUME NEW c \in J2, Deletes(A, J2, B2, c), c.finish = "end"
                   PROVE  /\ \A e \in J2 : e.kind = "store" /\ TokenAt(A, e) = TokenAt(A, c) /\ e.of # c.of /\ <<e, c>> \in B2 =>
                               \E g \in J2 : g.kind = "store" /\ g.of = c.of /\ <<e, g>> \in B2 /\ <<g, c>> \in B2
                          /\ V[TokenAt(A, c)].valid => \A r \in DOMAIN D : D[r].of # c.of =>
                               \E g \in J2 : g.kind = "store" /\ g.of = c.of /\ <<g, c>> \in B2
      BY DEF EndOwns
    <3>2. CASE c \in J
      <4>1. Deletes(A, J, B, c)
        BY <1>3, <3>1, <3>2
      <4>2. \A e \in J2 : <<e, c>> \in B2 => e \in J /\ <<e, c>> \in B
        BY <1>1, <1>3, <3>2
      <4> QED
        BY <1>1, <2>1, <3>1, <3>2, <4>1, <4>2 DEF Owned, EndOwns
    <3>3. CASE c = x
      <4>1. x.of \in NamedOf(A) /\ P = J /\ A[x.of].token # None /\ x.kind = "delete"
        BY <1>4, <3>1, <3>3 DEF Joinable, Deletes, TokenAt
      <4>2. /\ \A e \in J : e.kind = "store" /\ TokenAt(A, e) = A[x.of].token /\ e.of # x.of =>
                 \E g \in J : g.kind = "store" /\ g.of = x.of /\ <<e, g>> \in B
            /\ V[A[x.of].token].valid => \A r \in DOMAIN D : D[r].of # x.of =>
                 \E g \in J : g.kind = "store" /\ g.of = x.of
        BY <2>1, <4>1 DEF Owned, NamedOwns
      <4>3. \A g \in J : <<g, x>> \in B2
        BY <1>5, <4>1
      <4> QED
        BY <1>1, <3>3, <4>1, <4>2, <4>3 DEF TokenAt
    <3> QED
      BY <1>1, <3>2, <3>3
  <2>4. NewOwns(A, J2, B2, V, D)
    <3>1. SUFFICES ASSUME NEW c \in J2, c.kind = "noop", c.finish = "replace", TokenAt(A, c) # None
                   PROVE  /\ \A e \in J2 : e.kind = "store" /\ e.of = c.of =>
                               \E g \in J2 : /\ g.kind = "store" /\ g.of # c.of /\ TokenAt(A, g) = TokenAt(A, c)
                                             /\ <<e, g>> \in B2 /\ <<g, c>> \in B2
                          /\ V[TokenAt(A, c)].valid => \A r \in DOMAIN D : D[r].of = c.of =>
                               \E g \in J2 : /\ g.kind = "store" /\ g.of # c.of
                                             /\ TokenAt(A, g) = TokenAt(A, c) /\ <<g, c>> \in B2
      BY DEF NewOwns
    <3>2. c \in J /\ ~A[c.of].named
      BY <1>1, <1>2, <3>1 DEF Sound, Works, ReplaceLeaves
    <3>3. \A e \in J2 : e.kind = "store" /\ e.of = c.of => e \in J
      BY <1>1, <3>2 DEF Joinable
    <3> QED
      BY <1>1, <2>1, <3>1, <3>2, <3>3 DEF Owned, NewOwns
  <2>5. OwnerHas(A, V, D)
    BY <2>1 DEF Owned
  <2> QED
    BY <2>2, <2>3, <2>4, <2>5 DEF Owned
<1>11. Follows(A, K, V, H2) /\ Calls(A, J2, K, V, D, H2) /\ Ahead(H2) = Ahead(H)
  <2>1. Carried(A, J, H, A, J2)
    BY <1>3 DEF Carried
  <2> QED
    BY <2>1, CallsStay DEF Sound
<1>12. ToldIs(J2, D, H2, w) /\ ToldOf(J2, H2, w)
  <2>1. Pending(J) => Pending(J2)
    BY <1>1 DEF Pending
  <2> QED
    BY <1>11, <2>1, ToldStays DEF Sound
<1> QED
  BY <1>7, <1>8, <1>9, <1>10, <1>11, <1>12 DEF Sound

-----------------------------------------------------------------------------
(* The first Activity, and the last.                                       *)

\* Nothing is stored, nor about to be.
Vacant(A, J, K, V, D, H, w) ==
  /\ J = {} /\ H = {} /\ V = K /\ DOMAIN D = {} /\ w = Nothing
  /\ \A b \in Activities : A[b].token # None => ~V[A[b].token].valid /\ V[A[b].token].record = None

\* With no job, and no token of the Activity with the name, nothing is stored.
LEMMA SoundVacant ==
  ASSUME NEW A, NEW J, NEW B, NEW K, NEW V, NEW D, NEW H, NEW w,
         Sound(A, J, B, K, V, D, H, w), Lined(J, B, H), J = {},
         \A n \in NamedOf(A) : A[n].token = None
  PROVE  Vacant(A, J, K, V, D, H, w)
PROOF
<1>1. H = {} /\ Ahead(H) = {}
  BY DEF Lined, Ahead
<1>2. V = K /\ (w = LatestOf(D) \/ (LatestOf(D) = Nothing /\ Pending(J)))
  BY <1>1 DEF Sound, Follows, ToldIs
<1>3. ~Pending(J)
  BY DEF Pending
<1>4. ASSUME NEW b \in Activities, A[b].token # None
      PROVE  ~V[A[b].token].valid /\ V[A[b].token].record = None
  <2>1. Closed(A, J, B, V, A[b].token, J)
    BY <1>4 DEF Sound, Flow, LostClosed
  <2>2. ~V[A[b].token].valid
    BY <2>1 DEF Closed
  <2> QED
    BY <1>4, <2>2 DEF Sound, Stored, ValidStand
<1>5. DOMAIN D = {}
  BY <1>4 DEF Sound, Stored, RecordsStand, Standing
<1>6. w = Nothing
  BY <1>2, <1>3, <1>5 DEF LatestOf
<1> QED
  BY <1>1, <1>2, <1>4, <1>5, <1>6 DEF Vacant

\* And the other way around.
LEMMA VacantSound ==
  ASSUME NEW A, NEW J, NEW B, NEW K, NEW V, NEW D, NEW H, NEW w,
         Vacant(A, J, K, V, D, H, w), Lives(A),
         EndingHas(A, J), DetachedHas(A, J), SharersHave(A, J)
  PROVE  Sound(A, J, B, K, V, D, H, w)
PROOF
<1>1. /\ J = {} /\ H = {} /\ V = K /\ DOMAIN D = {} /\ w = Nothing
      /\ \A b \in Activities : A[b].token # None => ~V[A[b].token].valid /\ V[A[b].token].record = None
  BY DEF Vacant
<1>2. Works(A, J)
  BY <1>1 DEF Works, JobsLive, ReplaceLeaves, EndIsExternal, StoresHave, DeletesEnd, NoopsAreNot
<1>3. Rows(A, J, B)
  BY <1>1 DEF Rows, EndIsLast, ReplaceIsLast, ReplaceThenCreate, ReplaceThenEnd, WritersBefore
<1>4. Flow(A, J, B, V)
  BY <1>1 DEF Flow, OthersClosed, LostClosed, ValidHas, Closed
<1>5. Owned(A, J, B, V, D)
  <2>1. NamedOwns(A, J, B, V, D)
    BY <1>1 DEF NamedOwns
  <2>2. EndOwns(A, J, B, V, D) /\ NewOwns(A, J, B, V, D) /\ OwnerHas(A, V, D)
    BY <1>1 DEF EndOwns, NewOwns, OwnerHas
  <2> QED
    BY <2>1, <2>2 DEF Owned
<1>6. Stored(A, V, D)
  BY <1>1 DEF Stored, RecordsStand, OneStands, RevsStand, ValidStand, Standing
<1>7. Ahead(H) = {}
  BY <1>1 DEF Ahead
<1>8. Follows(A, K, V, H) /\ Calls(A, J, K, V, D, H)
  BY <1>1, <1>7 DEF Follows, Calls
<1>9. ToldIs(J, D, H, w) /\ ToldOf(J, H, w)
  BY <1>1, <1>7 DEF ToldIs, ToldOf, LatestOf
<1> QED
  BY <1>2, <1>3, <1>4, <1>5, <1>6, <1>8, <1>9 DEF Sound

\* Activity x is the same.
Same(A, A2, x) ==
  /\ A2[x].life = A[x].life /\ A2[x].named = A[x].named
  /\ A2[x].persistent = A[x].persistent /\ A2[x].ending = A[x].ending
  /\ A2[x].intCommand = A[x].intCommand /\ A2[x].extCommand = A[x].extCommand
  /\ A2[x].version = A[x].version /\ A2[x].token = A[x].token

\* Activity a is new, and has the name and token t.
Begins(A, A2, a, t) ==
  /\ A[a].life = "new" /\ A2[a].life = "live" /\ A2[a].named /\ A2[a].token = t
  /\ ~A2[a].ending /\ ~A2[a].intCommand /\ ~A2[a].extCommand
  /\ A2[a].persistent <=> t # None

\* The first Activity gets the name.
LEMMA Begun ==
  ASSUME NEW A, NEW J, NEW B, NEW K, NEW V, NEW D, NEW H, NEW w,
         Sound(A, J, B, K, V, D, H, w), Lined(J, B, H), \A h \in H : Working(h),
         NamedOf(A) = {}, NEW a \in Activities, NEW t, NEW A2, Begins(A, A2, a, t),
         t # None => Unissued(A, t) /\ V[t] = NoToken,
         \A x \in Activities : x # a => Same(A, A2, x)
  PROVE  /\ J = {} /\ w = Nothing /\ Sound(A2, J, B, K, V, D, H, w)
         /\ a \in NamedOf(A2)
PROOF
<1>1. J = {}
  BY Calm DEF Sound, Lives, Rows
<1>2. Vacant(A, J, K, V, D, H, w)
  BY <1>1, SoundVacant
<1>3. Vacant(A2, J, K, V, D, H, w)
  BY <1>2 DEF Vacant, Same, Begins, NoToken
<1>4. NamedOf(A2) = {a}
  BY DEF NamedOf, Same, Begins
<1>5. \A x \in Activities : x # a => A2[x].token = A[x].token
  BY DEF Same
<1>6. Lives(A2)
  <2>1. OneNamed(A2)
    BY <1>4 DEF OneNamed
  <2>2. Unborn(A2)
    BY DEF Sound, Lives, Unborn, Same, Begins
  <2>3. NamedUnlessEnding(A2)
    BY DEF Sound, Lives, NamedUnlessEnding, Same, Begins
  <2>4. TokensPersist(A2) /\ PersistentHave(A2)
    BY <1>4 DEF Sound, Lives, TokensPersist, PersistentHave, Same, Begins
  <2> QED
    BY <2>1, <2>2, <2>3, <2>4 DEF Lives
<1>7. EndingHas(A2, J)
  BY <1>4 DEF EndingHas, Begins
<1>8. DetachedHas(A2, J)
  BY DEF Sound, Works, DetachedHas, Same, Begins
<1>9. SharersHave(A2, J)
  <2>1. SUFFICES ASSUME NEW b \in Activities, NEW c \in Activities, b # c, A2[b].token # None, A2[b].token = A2[c].token
                 PROVE  A2[b].named \/ HasReplace(J, b)
    BY DEF SharersHave
  <2>2. b # a /\ c # a
    BY <1>5, <2>1 DEF Begins, Unissued
  <2> QED
    BY <1>5, <2>1, <2>2 DEF Sound, Works, SharersHave, Same
<1> QED
  BY <1>1, <1>2, <1>3, <1>4, <1>6, <1>7, <1>8, <1>9, VacantSound DEF Vacant

\* There is one record at most, and it is of an Activity whose token stands
\* for it.
TheRecord(A, V, D, r) ==
  /\ D[r].of \in Activities /\ Standing(A, V, D[r].of) /\ V[A[D[r].of].token].record = r
  /\ DOMAIN D = {r} /\ LatestOf(D) = Content(D[r])

\* Whose the record is.
LEMMA RecordOf ==
  ASSUME NEW A, NEW V, NEW D, Records(D), OwnerHas(A, V, D), Stored(A, V, D), NEW r \in DOMAIN D
  PROVE  TheRecord(A, V, D, r)
PROOF
<1>1. D[r] \in Record /\ D[r].of \in Activities /\ D[r].rev \in Nat
  BY DEF Records, Record
<1>2. PICK b \in Activities : Standing(A, V, b) /\ V[A[b].token].record = r
  BY DEF Stored, RecordsStand
<1>3. A[D[r].of].token = A[b].token
  BY <1>2 DEF OwnerHas, Standing
<1>4. Standing(A, V, D[r].of) /\ V[A[D[r].of].token].record = r
  BY <1>2, <1>3 DEF Standing
<1>5. ASSUME NEW s \in DOMAIN D
      PROVE  s = r
  <2>1. PICK c \in Activities : Standing(A, V, c) /\ V[A[c].token].record = s
    BY DEF Stored, RecordsStand
  <2>2. A[c].token = A[b].token
    BY <1>2, <2>1 DEF Stored, OneStands
  <2> QED
    BY <1>2, <2>1, <2>2
<1>6. DOMAIN D = {r}
  BY <1>5
<1>7. LatestOf(D) = Content(D[r])
  <2>1. PICK m : m = CHOOSE i \in DOMAIN D : \A j \in DOMAIN D : D[j].rev <= D[i].rev
    OBVIOUS
  <2>2. r \in DOMAIN D /\ \A j \in DOMAIN D : D[j].rev <= D[r].rev
    BY <1>1, <1>6
  <2>3. m \in DOMAIN D
    BY <2>1, <2>2
  <2>4. m = r
    BY <1>6, <2>3
  <2>5. DOMAIN D # {}
    OBVIOUS
  <2> QED
    BY <2>1, <2>4, <2>5 DEF LatestOf
<1> QED
  BY <1>1, <1>4, <1>6, <1>7 DEF TheRecord

\* The end of an Activity that nothing is stored of leaves nothing to tell.
LEMMA EndTold ==
  ASSUME NEW A, NEW J, NEW B, NEW K, NEW V, NEW D, NEW H, NEW w,
         Sound(A, J, B, K, V, D, H, w), Records(D), NEW c,
         TokenAt(A, c) # None => ~V[TokenAt(A, c)].valid
  PROVE  /\ Sound(A, J, B, K, V, D, H, ToldEnded(w, c))
PROOF
<1> DEFINE w2 == ToldEnded(w, c)
<1>1. w2 = w \/ (w2 = Nothing /\ w.of = c.of)
  BY DEF ToldEnded
<1>2. ToldIs(J, D, H, w2)
  <2>1. SUFFICES ASSUME Ahead(H) = {}, w2 # w, w = LatestOf(D)
                 PROVE  LatestOf(D) = Nothing
    BY <1>1 DEF Sound, ToldIs
  <2>2. ASSUME NEW r \in DOMAIN D
        PROVE  FALSE
    <3>1. /\ D[r].of \in Activities /\ Standing(A, V, D[r].of) /\ LatestOf(D) = Content(D[r])
      <4>1. OwnerHas(A, V, D) /\ Stored(A, V, D)
        BY DEF Sound, Owned
      <4>2. TheRecord(A, V, D, r)
        BY <4>1, <2>2, RecordOf
      <4> QED
        BY <4>2 DEF TheRecord
    <3>2. D[r].of = c.of
      BY <1>1, <2>1, <3>1 DEF Content
    <3> QED
      BY <3>1, <3>2 DEF Standing, TokenAt
  <2>3. DOMAIN D = {}
    BY <2>2
  <2> QED
    BY <2>3 DEF LatestOf
<1>3. ToldOf(J, H, w2)
  BY <1>1 DEF Sound, ToldOf
<1> QED
  BY <1>2, <1>3 DEF Sound

\* Without a command, the end of an Activity that is not stored.
Expires(A, A2, a) ==
  /\ \A x \in Activities : x # a => Same(A, A2, x)
  /\ A2[a].life = A[a].life /\ A2[a].named = FALSE /\ A2[a].persistent = A[a].persistent
  /\ A2[a].intCommand = A[a].intCommand /\ A2[a].extCommand
  /\ A2[a].version = A[a].version /\ A2[a].token = A[a].token

\* An end without a command, of an Activity that is not stored.
LEMMA Expired ==
  ASSUME NEW A, NEW J, NEW B, NEW K, NEW V, NEW D, NEW H, NEW w,
         Sound(A, J, B, K, V, D, H, w), Lined(J, B, H), Records(D), \A h \in H : Working(h),
         NEW a \in Activities, A[a].life = "live", ~A[a].persistent, \A c \in J : c.of # a,
         A[a].named \in BOOLEAN, NEW A2, Expires(A, A2, a), NEW c, c.of = a
  PROVE  Sound(A2, J, B, K, V, D, H, ToldEnded(w, c))
PROOF
<1>1. A[a].token = None
  BY DEF Sound, Lives, TokensPersist
<1>2. CASE A[a].named
  <2>1. a \in NamedOf(A) /\ \A n \in NamedOf(A) : n = a
    BY <1>2 DEF NamedOf, Sound, Lives, OneNamed
  <2>2. J = {}
    BY <2>1, Calm DEF Sound, Lives, Rows
  <2>3. Vacant(A, J, K, V, D, H, w)
    BY <1>1, <2>1, <2>2, SoundVacant
  <2>4. Vacant(A2, J, K, V, D, H, w) /\ w = Nothing
    BY <2>3 DEF Vacant, Expires, Same
  <2>5. NamedOf(A2) = {}
    BY <2>1 DEF NamedOf, Expires, Same
  <2>6. Lives(A2)
    <3>1. OneNamed(A2) /\ PersistentHave(A2)
      BY <2>5 DEF OneNamed, PersistentHave
    <3>2. Unborn(A2)
      BY DEF Sound, Lives, Unborn, Expires, Same
    <3>3. NamedUnlessEnding(A2) /\ TokensPersist(A2)
      BY DEF Sound, Lives, NamedUnlessEnding, TokensPersist, Expires, Same
    <3> QED
      BY <3>1, <3>2, <3>3 DEF Lives
  <2>7. EndingHas(A2, J)
    BY <2>5 DEF EndingHas
  <2>8. DetachedHas(A2, J) /\ SharersHave(A2, J)
    BY <1>1 DEF Sound, Works, DetachedHas, SharersHave, Expires, Same
  <2>9. ToldEnded(w, c) = Nothing
    BY <2>4 DEF ToldEnded
  <2> QED
    BY <2>4, <2>6, <2>7, <2>8, <2>9, VacantSound
<1>3. CASE ~A[a].named
  <2>1. Wanes(A, A2, a)
    BY <1>3 DEF Wanes, Expires, Same
  <2>2. EndingHas(A2, J)
    BY <1>3 DEF Sound, Works, EndingHas, NamedOf, Expires, Same
  <2>3. Sound(A2, J, B, K, V, D, H, w)
    BY <2>1, <2>2, Waned
  <2>4. TokenAt(A2, c) = None
    BY <1>1 DEF TokenAt, Expires
  <2> QED
    BY <2>3, <2>4, EndTold
<1> QED
  BY <1>2, <1>3

\* The end of EndActivity.
Goes(A, A2, a) ==
  /\ \A x \in Activities : x # a => Same(A, A2, x)
  /\ A2[a].life = "gone" /\ ~A2[a].named /\ ~A2[a].persistent /\ ~A2[a].ending
  /\ ~A2[a].intCommand /\ ~A2[a].extCommand /\ A2[a].token = None

\* An Activity that has ended goes.
LEMMA Released ==
  ASSUME NEW A, NEW J, NEW B, NEW K, NEW V, NEW D, NEW H, NEW w,
         Sound(A, J, B, K, V, D, H, w), Lined(J, B, H), Records(D), \A h \in H : Working(h),
         NEW a \in Activities, A[a].life = "live", A[a].ending, \A c \in J : c.of # a,
         NEW A2, Goes(A, A2, a)
  PROVE  Sound(A2, J, B, K, V, D, H, w)
PROOF
<1>1. ~HasReplace(J, a)
  BY DEF HasReplace
<1>2. A2[a].token = None /\ \A x \in Activities : x # a => A2[x].token = A[x].token
  BY DEF Goes, Same
<1>3. OneNamed(A2) /\ Unborn(A2) /\ NamedUnlessEnding(A2) /\ TokensPersist(A2)
  <2>1. OneNamed(A2)
    BY DEF Sound, Lives, OneNamed, NamedOf, Goes, Same
  <2>2. Unborn(A2) /\ NamedUnlessEnding(A2) /\ TokensPersist(A2)
    BY DEF Sound, Lives, Unborn, NamedUnlessEnding, TokensPersist, Goes, Same
  <2> QED
    BY <2>1, <2>2
<1>4. PersistentHave(A2)
  BY DEF Sound, Lives, PersistentHave, NamedOf, Goes, Same
<1>5. Lives(A2)
  BY <1>3, <1>4 DEF Lives
<1>6. EndingHas(A2, J)
  BY DEF Sound, Works, EndingHas, NamedOf, Goes, Same
<1>7. DetachedHas(A2, J)
  BY DEF Sound, Works, DetachedHas, Goes, Same
<1>8. SharersHave(A2, J)
  <2>1. SUFFICES ASSUME NEW b \in Activities, NEW c \in Activities, b # c, A2[b].token # None, A2[b].token = A2[c].token
                 PROVE  A2[b].named \/ HasReplace(J, b)
    BY DEF SharersHave
  <2>2. b # a /\ c # a
    BY <1>2, <2>1
  <2> QED
    BY <1>2, <2>1, <2>2 DEF Sound, Works, SharersHave, Goes, Same
<1>9. CASE A[a].named
  <2>1. a \in NamedOf(A) /\ \A n \in NamedOf(A) : n = a
    BY <1>9 DEF NamedOf, Sound, Lives, OneNamed
  <2>2. J = {}
    BY <2>1, Calm DEF Sound, Lives, Rows
  <2>3. ~A[a].persistent
    BY <2>1 DEF Sound, Works, EndingHas
  <2>4. A[a].token = None
    BY <2>3 DEF Sound, Lives, TokensPersist
  <2>5. Vacant(A, J, K, V, D, H, w)
    BY <2>1, <2>2, <2>4, SoundVacant
  <2>6. Vacant(A2, J, K, V, D, H, w)
    BY <1>2, <2>5 DEF Vacant
  <2> QED
    BY <1>5, <1>6, <1>7, <1>8, <2>6, VacantSound
<1>10. CASE ~A[a].named
  <2>1. NamedOf(A2) = NamedOf(A) /\ a \notin NamedOf(A)
    BY <1>10 DEF NamedOf, Goes, Same
  <2>2. ~Standing(A, V, a)
    BY <1>1, <1>10 DEF Sound, Flow, ValidHas, Standing
  <2>3. \A b \in Activities : b # a /\ A[a].token # None => A[b].token # A[a].token
    BY <1>1, <1>10 DEF Sound, Works, SharersHave
  <2>4. \A c \in J : c.of \in Activities /\ c.of # a /\ Same(A, A2, c.of) /\ TokenAt(A2, c) = TokenAt(A, c)
    BY <1>2 DEF Lined, Goes, TokenAt
  <2>5. \A c \in J : Deletes(A2, J, B, c) <=> Deletes(A, J, B, c)
    BY <2>4 DEF Deletes, Same
  <2>6. ASSUME NEW P \in SUBSET J, NEW t
        PROVE  Closed(A2, J, B, V, t, P) <=> Closed(A, J, B, V, t, P)
    BY <2>4, <2>5 DEF Closed
  <2>7. Works(A2, J)
    <3>1. Works(A, J)
      BY DEF Sound
    <3>2. JobsLive(A2, J) /\ ReplaceLeaves(A2, J) /\ EndIsExternal(A2, J) /\ NoopsAreNot(A2, J)
      BY <2>4, <3>1 DEF Same, Works, JobsLive, ReplaceLeaves, EndIsExternal, NoopsAreNot
    <3>3. StoresHave(A2, J) /\ DeletesEnd(A2, J)
      BY <2>4, <3>1 DEF Same, Works, StoresHave, DeletesEnd
    <3> QED
      BY <1>6, <1>7, <1>8, <3>2, <3>3 DEF Works
  <2>8. Rows(A2, J, B)
    <3>1. Rows(A, J, B)
      BY DEF Sound
    <3>2. ReplaceThenEnd(A2, J, B)
      BY <2>4, <3>1 DEF Same, Rows, ReplaceThenEnd
    <3>3. WritersBefore(A2, J, B)
      BY <2>1, <2>5, <3>1 DEF Rows, WritersBefore, Writer
    <3> QED
      BY <3>1, <3>2, <3>3 DEF Rows
  <2>9. Flow(A2, J, B, V)
    <3>1. Flow(A, J, B, V)
      BY DEF Sound
    <3>2. OthersClosed(A2, J, B, V)
      <4>1. SUFFICES ASSUME NEW c \in J, c.kind = "store" \/ c.finish = "create", NEW b \in Activities,
                            A2[b].token # None, A2[b].token # TokenAt(A2, c)
                     PROVE  Closed(A2, J, B, V, A2[b].token, Earlier(J, B, c))
        BY DEF OthersClosed
      <4>2. b # a /\ A2[b].token = A[b].token /\ Earlier(J, B, c) \in SUBSET J
        BY <1>2, <4>1 DEF Earlier
      <4>3. Closed(A, J, B, V, A[b].token, Earlier(J, B, c))
        BY <2>4, <3>1, <4>1, <4>2 DEF Flow, OthersClosed
      <4> QED
        BY <2>6, <4>2, <4>3
    <3>3. LostClosed(A2, J, B, V)
      <4>1. SUFFICES ASSUME NEW b \in Activities, A2[b].token # None,
                            \A n \in NamedOf(A2) : A2[n].token # A2[b].token
                     PROVE  Closed(A2, J, B, V, A2[b].token, J)
        BY DEF LostClosed
      <4>2. b # a /\ A2[b].token = A[b].token
        BY <1>2, <4>1
      <4>3. \A n \in NamedOf(A) : A[n].token # A[b].token
        BY <1>2, <2>1, <4>1, <4>2 DEF NamedOf
      <4>4. Closed(A, J, B, V, A[b].token, J)
        BY <3>1, <4>1, <4>2, <4>3 DEF Flow, LostClosed
      <4> QED
        BY <2>6, <4>2, <4>4
    <3>4. ValidHas(A2, J, V)
      BY <3>1 DEF Flow, ValidHas, Goes, Same
    <3> QED
      BY <3>2, <3>3, <3>4 DEF Flow
  <2>10. Owned(A2, J, B, V, D)
    <3>1. Owned(A, J, B, V, D)
      BY DEF Sound
    <3>2. NamedOwns(A2, J, B, V, D)
      BY <1>2, <2>1, <2>4, <3>1 DEF Owned, NamedOwns, NamedOf
    <3>3. EndOwns(A2, J, B, V, D)
      BY <2>4, <2>5, <3>1, ZenonT(60) DEF Owned, EndOwns
    <3>4. NewOwns(A2, J, B, V, D)
      BY <2>4, <3>1, ZenonT(60) DEF Owned, NewOwns
    <3>5. OwnerHas(A2, V, D)
      <4>1. SUFFICES ASSUME NEW b \in Activities, A2[b].token # None, V[A2[b].token].valid, NEW r \in DOMAIN D
                     PROVE  A2[D[r].of].token = A2[b].token
        BY DEF OwnerHas
      <4>2. b # a /\ A2[b].token = A[b].token
        BY <1>2, <4>1
      <4>3. A[D[r].of].token = A[b].token
        BY <3>1, <4>1, <4>2 DEF Owned, OwnerHas
      <4>4. D[r].of \in Activities /\ D[r].of # a
        BY <2>2, <4>1, <4>2, <4>3 DEF Records, Record, Standing
      <4> QED
        BY <1>2, <4>2, <4>3, <4>4
    <3> QED
      BY <3>2, <3>3, <3>4, <3>5 DEF Owned
  <2>11. Stored(A2, V, D)
    <3>1. Stored(A, V, D)
      BY DEF Sound
    <3>2. \A b \in Activities : Standing(A2, V, b) <=> Standing(A, V, b)
      BY <1>2, <2>2 DEF Standing
    <3>3. \A b \in Activities : Standing(A, V, b) => A2[b].token = A[b].token
      BY <1>2, <2>2
    <3>4. RecordsStand(A2, V, D)
      BY <3>1, <3>2, <3>3 DEF Stored, RecordsStand
    <3>5. OneStands(A2, V) /\ RevsStand(A2, V, D)
      BY <3>1, <3>2, <3>3 DEF Stored, OneStands, RevsStand
    <3>6. ValidStand(A2, V)
      BY <1>2, <3>1 DEF Stored, ValidStand
    <3> QED
      BY <3>4, <3>5, <3>6 DEF Stored
  <2>12. Carried(A, J, H, A2, J)
    <3>1. SUFFICES ASSUME NEW h \in H, Working(h)
                   PROVE  /\ TokenAt(A2, h) = TokenAt(A, h)
                          /\ h.version <= A[h.of].version => h.version <= A2[h.of].version
                          /\ A[h.of].named \/ HasReplace(J, h.of) => A2[h.of].named \/ HasReplace(J, h.of)
      BY DEF Carried
    <3>2. Job(h) \in J /\ Job(h).of = h.of
      BY JobFields DEF Lined
    <3>3. Same(A, A2, h.of)
      BY <2>4, <3>2
    <3> QED
      BY <3>3 DEF Same, TokenAt
  <2>13. Follows(A2, K, V, H) /\ Calls(A2, J, K, V, D, H)
    BY <2>12, CallsStay DEF Sound, SameCalls
  <2> QED
    BY <1>5, <2>7, <2>8, <2>9, <2>10, <2>11, <2>13 DEF Sound
<1> QED
  BY <1>9, <1>10

-----------------------------------------------------------------------------
(* One Activity replaces another.                                          *)

\* Behind all jobs: cr creates an Activity and rp replaces another. A delete
\* comes first, a noop last.
Pair(J, B, cr, rp, J2, B2) ==
  /\ cr \notin J /\ rp \notin J /\ cr # rp
  /\ \A y : y \in J2 <=> y \in J \/ y = cr \/ y = rp
  /\ \A y, z : <<y, z>> \in B2 <=>
       \/ <<y, z>> \in B
       \/ y \in J /\ (z = cr \/ z = rp)
       \/ rp.kind = "delete" /\ y = rp /\ z = cr
       \/ rp.kind # "delete" /\ y = cr /\ z = rp

\* What is hooked for the new Activity a, with token t, and for the old one.
Pairs(A, V, a, old, t, cr, rp) ==
  /\ cr.of = a /\ cr.finish = "create" /\ cr.kind \in {"store", "noop"}
  /\ rp.of = old /\ rp.finish = "replace" /\ rp.kind \in {"delete", "noop"}
  /\ cr.kind = "store" <=> t # None
  /\ rp.kind = "delete" <=> t = None /\ A[old].token # None
  /\ t # None => IF A[old].token # None THEN t = A[old].token ELSE Unissued(A, t) /\ V[t] = NoToken

\* The old Activity is cancelled, and its name passes to the new one.
Passes(A, A2, a, old, t) ==
  /\ \A x \in Activities : x # a /\ x # old => Same(A, A2, x)
  /\ Begins(A, A2, a, t)
  /\ A2[old].life = A[old].life /\ ~A2[old].named /\ A2[old].persistent = A[old].persistent
  /\ A2[old].ending /\ A2[old].intCommand /\ A2[old].extCommand = A[old].extCommand
  /\ A2[old].version = A[old].version /\ A2[old].token = A[old].token

\* The commands of a create with replace keep the invariant.
LEMMA PairAdded ==
  ASSUME NEW A, NEW J, NEW B, NEW K, NEW V, NEW D, NEW H, NEW w,
         Sound(A, J, B, K, V, D, H, w), Lined(J, B, H), Records(D),
         NEW a \in Activities, NEW old \in NamedOf(A), NEW t, NEW A2, Passes(A, A2, a, old, t),
         NEW cr, NEW rp, Pairs(A, V, a, old, t, cr, rp),
         NEW J2, NEW B2, Pair(J, B, cr, rp, J2, B2), NEW H2, SameCalls(H, H2)
  PROVE  Sound(A2, J2, B2, K, V, D, H2, w)
PROOF
<1>1. /\ cr \notin J /\ rp \notin J /\ cr # rp
      /\ \A y : y \in J2 <=> y \in J \/ y = cr \/ y = rp
      /\ \A c \in J : <<c, cr>> \in B2 /\ <<c, rp>> \in B2
      /\ rp.kind = "delete" => <<rp, cr>> \in B2 /\ <<cr, rp>> \notin B2
      /\ rp.kind # "delete" => <<cr, rp>> \in B2 /\ <<rp, cr>> \notin B2
      /\ \A c \in J : <<cr, c>> \notin B2 /\ <<rp, c>> \notin B2
      /\ \A c, d \in J : <<c, d>> \in B2 <=> <<c, d>> \in B
      /\ <<cr, cr>> \notin B2 /\ <<rp, rp>> \notin B2
      /\ \A c, d : <<c, d>> \in B => <<c, d>> \in B2 /\ c \in J /\ d \in J
  <2>1. \A c, d : <<c, d>> \in B => c \in J /\ d \in J
    BY DEF Lined, Ordered
  <2> QED
    BY <2>1 DEF Pair
<1>2. /\ cr.of = a /\ cr.finish = "create" /\ cr.kind \in {"store", "noop"}
      /\ rp.of = old /\ rp.finish = "replace" /\ rp.kind \in {"delete", "noop"}
      /\ cr.kind = "store" <=> t # None
      /\ rp.kind = "delete" <=> t = None /\ A[old].token # None
  BY DEF Pairs
<1>3. /\ old \in Activities /\ A[old].life = "live" /\ A[old].named /\ \A n \in NamedOf(A) : n = old
  BY DEF NamedOf, Sound, Lives, OneNamed
<1>4. /\ a # old /\ A[a].life # "live" /\ A[a].token = None /\ A2[a].token = t /\ A2[a].life = "live"
      /\ A2[a].named /\ ~A2[a].ending /\ (A2[a].persistent <=> t # None)
  BY <1>3 DEF Passes, Begins, Sound, Lives, Unborn
<1>5. /\ A2[old].life = A[old].life /\ ~A2[old].named /\ A2[old].persistent = A[old].persistent
      /\ A2[old].ending /\ A2[old].intCommand /\ A2[old].extCommand = A[old].extCommand
      /\ A2[old].version = A[old].version /\ A2[old].token = A[old].token
  BY DEF Passes
<1>6. NamedOf(A2) = {a}
  BY <1>3, <1>4, <1>5 DEF NamedOf, Passes, Same
<1>7. \A x \in Activities : x # a => A2[x].token = A[x].token /\ A2[x].life = A[x].life
                                     /\ A2[x].persistent = A[x].persistent /\ A2[x].extCommand = A[x].extCommand
  BY <1>5 DEF Passes, Same
<1>8. \A c \in J : c.of \in Activities /\ c.of # a /\ A[c.of].life = "live" /\ TokenAt(A2, c) = TokenAt(A, c)
  BY <1>4, <1>7 DEF Sound, Works, JobsLive, TokenAt
<1>9. TokenAt(A2, cr) = t /\ TokenAt(A2, rp) = A[old].token
  BY <1>2, <1>4, <1>5 DEF TokenAt
<1>10. ~HasReplace(J, old) /\ \A x : HasReplace(J2, x) <=> HasReplace(J, x) \/ x = old
  <2>1. ~HasReplace(J, old)
    BY <1>3 DEF Sound, Works, ReplaceLeaves, HasReplace
  <2> QED
    BY <1>1, <1>2, <2>1 DEF HasReplace
<1>11. ASSUME NEW c \in J
       PROVE  /\ Deletes(A2, J2, B2, c) <=> Deletes(A, J, B, c)
              /\ Earlier(J2, B2, c) = Earlier(J, B, c)
  <2>1. Replaced(J2, B2, c) <=> Replaced(J, B, c)
    BY <1>1 DEF Replaced
  <2>2. A2[c.of].named \/ HasReplace(J2, c.of) <=> A[c.of].named \/ HasReplace(J, c.of)
    <3>1. CASE c.of = old
      BY <1>3, <1>10, <3>1
    <3>2. CASE c.of # old
      BY <1>8, <1>10, <3>2 DEF Passes, Same
    <3> QED
      BY <3>1, <3>2
  <2>3. Earlier(J2, B2, c) = Earlier(J, B, c)
    BY <1>1 DEF Earlier
  <2> QED
    BY <1>8, <2>1, <2>2, <2>3 DEF Deletes
<1>12. ASSUME NEW Q \in SUBSET J, NEW u
       PROVE  Closed(A, J, B, V, u, Q) => Closed(A2, J2, B2, V, u, Q)
  <2>1. SUFFICES ASSUME Closed(A, J, B, V, u, Q)
                 PROVE  Closed(A2, J2, B2, V, u, Q)
    OBVIOUS
  <2>2. \A d \in Q : d \in J /\ (Deletes(A2, J2, B2, d) <=> Deletes(A, J, B, d)) /\ TokenAt(A2, d) = TokenAt(A, d)
    BY <1>8, <1>11
  <2>3. \A c, d \in Q : <<c, d>> \in B2 <=> <<c, d>> \in B
    BY <1>1
  <2> QED
    BY <2>1, <2>2, <2>3 DEF Closed
<1>13. ASSUME NEW b \in Activities, A[b].token # None, A[b].token # A[old].token
       PROVE  Closed(A2, J2, B2, V, A[b].token, J)
  <2>1. Closed(A, J, B, V, A[b].token, J)
    BY <1>3, <1>13 DEF Sound, Flow, LostClosed
  <2> QED
    BY <1>12, <2>1
<1>14. rp.kind = "delete" => Deletes(A2, J2, B2, rp)
  <2>1. SUFFICES ASSUME rp.kind = "delete"
                 PROVE  ~Replaced(J2, B2, rp)
    BY <1>1, <1>2, <1>9, <1>10 DEF Deletes
  <2>2. \A d \in J : ~(d.of = old /\ d.finish = "replace")
    BY <1>10 DEF HasReplace
  <2> QED
    BY <1>1, <1>2, <2>2 DEF Replaced
<1>15. t # None => IF A[old].token # None THEN t = A[old].token
                   ELSE (\A x \in Activities : A[x].token # t) /\ ~V[t].valid /\ V[t].record = None
  BY DEF Pairs, Unissued, NoToken
<1>16. Lives(A2)
  <2>1. OneNamed(A2) /\ PersistentHave(A2)
    BY <1>4, <1>6 DEF OneNamed, PersistentHave
  <2>2. Unborn(A2)
    BY <1>3, <1>4, <1>5 DEF Sound, Lives, Unborn, Passes, Same
  <2>3. NamedUnlessEnding(A2) 
    BY <1>4, <1>5 DEF Sound, Lives, NamedUnlessEnding, Passes, Same
  <2>4. TokensPersist(A2)
    BY <1>4, <1>7 DEF Sound, Lives, TokensPersist
  <2> QED
    BY <2>1, <2>2, <2>3, <2>4 DEF Lives
<1>17. Works(A2, J2)
  <2>1. Works(A, J)
    BY DEF Sound
  <2>2. JobsLive(A2, J2)
    BY <1>1, <1>2, <1>3, <1>4, <1>5, <1>7, <1>8 DEF JobsLive
  <2>3. ReplaceLeaves(A2, J2)
    <3>1. SUFFICES ASSUME NEW c \in J, c.finish = "replace"
                   PROVE  ~A2[c.of].named /\ A2[c.of].intCommand
      BY <1>1, <1>2, <1>5 DEF ReplaceLeaves
    <3>2. c.of # old
      BY <1>10, <3>1 DEF HasReplace
    <3> QED
      BY <1>8, <2>1, <3>1, <3>2 DEF Works, ReplaceLeaves, Passes, Same
  <2>4. EndIsExternal(A2, J2)
    BY <1>1, <1>2, <1>7, <1>8, <2>1 DEF Works, EndIsExternal
  <2>5. StoresHave(A2, J2)
    <3>1. SUFFICES ASSUME NEW c \in J2, c.kind = "store"
                   PROVE  /\ TokenAt(A2, c) # None /\ c.finish \in {"create", "update"}
                          /\ A2[c.of].named \/ HasReplace(J2, c.of)
      BY DEF StoresHave
    <3>2. CASE c = cr
      BY <1>2, <1>4, <1>9, <3>1, <3>2
    <3>3. CASE c \in J
      <4>1. /\ TokenAt(A, c) # None /\ c.finish \in {"create", "update"}
            /\ A[c.of].named \/ HasReplace(J, c.of)
        BY <2>1, <3>1, <3>3 DEF Works, StoresHave
      <4>2. A[c.of].named => c.of = old
        BY <1>3, <1>8, <3>3 DEF NamedOf
      <4> QED
        BY <1>8, <1>10, <3>3, <4>1, <4>2
    <3> QED
      BY <1>1, <1>2, <3>1, <3>2, <3>3
  <2>6. DeletesEnd(A2, J2)
    BY <1>1, <1>2, <1>8, <1>9, <2>1 DEF Works, DeletesEnd
  <2>7. NoopsAreNot(A2, J2)
    BY <1>1, <1>2, <1>4, <1>7, <1>8, <2>1 DEF Works, NoopsAreNot
  <2>8. EndingHas(A2, J2)
    BY <1>4, <1>6 DEF EndingHas
  <2>9. DetachedHas(A2, J2)
    <3>1. SUFFICES ASSUME NEW x \in Activities, A2[x].life = "live", ~A2[x].named, ~A2[x].extCommand,
                          A2[x].token # None, x # old
                   PROVE  HasReplace(J, x)
      BY <1>10 DEF DetachedHas
    <3>2. x # a
      BY <1>4, <3>1
    <3> QED
      BY <2>1, <3>1, <3>2 DEF Works, DetachedHas, Passes, Same
  <2>10. SharersHave(A2, J2)
    <3>1. SUFFICES ASSUME NEW x \in Activities, NEW y \in Activities, x # y, A2[x].token # None,
                          A2[x].token = A2[y].token, x # a, x # old
                   PROVE  HasReplace(J, x)
      BY <1>4, <1>10 DEF SharersHave
    <3>2. ~A[x].named
      <4>1. A2[x].life = A[x].life /\ A2[x].named = A[x].named
        BY <3>1 DEF Passes, Same
      <4>2. A[x].life = "live" \/ A[x].token = None
        BY DEF Sound, Lives, Unborn
      <4> QED
        BY <1>3, <1>7, <3>1, <4>1, <4>2 DEF NamedOf
    <3>3. CASE y # a
      BY <1>7, <2>1, <3>1, <3>2, <3>3 DEF Works, SharersHave
    <3>4. CASE y = a
      <4>1. A[x].token = A[old].token
        BY <1>4, <1>7, <1>15, <3>1, <3>4
      <4> QED
        BY <1>3, <1>7, <2>1, <3>1, <3>2, <4>1 DEF Works, SharersHave
    <3> QED
      BY <3>3, <3>4
  <2> QED
    BY <2>2, <2>3, <2>4, <2>5, <2>6, <2>7, <2>8, <2>9, <2>10 DEF Works
<1>18. Rows(A2, J2, B2)
  <2>1. Rows(A, J, B)
    BY DEF Sound
  <2>2. EndIsLast(J2, B2)
    <3>1. SUFFICES ASSUME NEW c \in J2, NEW d \in J2, c.finish = "end", c.of = d.of, <<c, d>> \in B2
                   PROVE  d.finish = "replace"
      BY DEF EndIsLast
    <3>2. c \in J /\ d # cr
      BY <1>1, <1>2, <1>8, <3>1
    <3> QED
      BY <1>1, <1>2, <2>1, <3>1, <3>2 DEF Rows, EndIsLast
  <2>3. ReplaceIsLast(J2, B2)
    <3>1. SUFFICES ASSUME NEW c \in J2, NEW d \in J2, c.finish = "replace", c.of = d.of, <<c, d>> \in B2
                   PROVE  d.finish = "end"
      BY DEF ReplaceIsLast
    <3>2. c \in J
      BY <1>1, <1>2, <1>4, <3>1
    <3>3. c.of # old
      BY <1>10, <3>1, <3>2 DEF HasReplace
    <3>4. d \in J
      BY <1>1, <1>2, <1>8, <3>1, <3>2, <3>3
    <3> QED
      BY <1>1, <2>1, <3>1, <3>2, <3>4 DEF Rows, ReplaceIsLast
  <2>4. ReplaceThenCreate(J2, B2)
    <3>1. SUFFICES ASSUME NEW c \in J2, c.kind = "delete", c.finish = "replace"
                   PROVE  \E d \in J2 : d.kind = "noop" /\ d.finish = "create" /\ <<c, d>> \in B2
      BY DEF ReplaceThenCreate
    <3>2. CASE c = rp
      BY <1>1, <1>2, <3>1, <3>2
    <3>3. CASE c \in J
      <4>1. PICK d \in J : d.kind = "noop" /\ d.finish = "create" /\ <<c, d>> \in B
        BY <2>1, <3>1, <3>3 DEF Rows, ReplaceThenCreate
      <4> QED
        BY <1>1, <4>1
    <3> QED
      BY <1>1, <1>2, <3>1, <3>2, <3>3
  <2>5. ReplaceThenEnd(A2, J2, B2)
    <3>1. SUFFICES ASSUME NEW d \in J2, d.finish = "end", A2[d.of].named
                   PROVE  FALSE
      BY DEF ReplaceThenEnd
    <3>2. d \in J
      BY <1>1, <1>2, <3>1
    <3>3. d.of \in NamedOf(A2)
      BY <1>7, <1>8, <3>1, <3>2 DEF NamedOf
    <3> QED
      BY <1>6, <1>8, <3>2, <3>3
  <2>6. WritersBefore(A2, J2, B2)
    <3>1. SUFFICES ASSUME NEW c \in J2, Writer(A2, J2, B2, c), c # cr
                   PROVE  <<c, cr>> \in B2
      BY <1>1, <1>2, <1>6 DEF WritersBefore
    <3>2. c = rp => rp.kind = "delete"
      BY <1>2, <3>1 DEF Writer, Deletes
    <3> QED
      BY <1>1, <3>1, <3>2
  <2> QED
    BY <2>2, <2>3, <2>4, <2>5, <2>6 DEF Rows
<1>19. Flow(A2, J2, B2, V)
  <2>1. Flow(A, J, B, V)
    BY DEF Sound
  <2>2. OthersClosed(A2, J2, B2, V)
    <3>1. SUFFICES ASSUME NEW c \in J2, c.kind = "store" \/ c.finish = "create", NEW b \in Activities,
                          A2[b].token # None, A2[b].token # TokenAt(A2, c)
                   PROVE  Closed(A2, J2, B2, V, A2[b].token, Earlier(J2, B2, c))
      BY DEF OthersClosed
    <3>2. PICK u, Q : u = A2[b].token /\ Q = Earlier(J2, B2, c)
      OBVIOUS
    <3>3. CASE c \in J
      <4>1. Q \in SUBSET J /\ Q = Earlier(J, B, c)
        BY <1>11, <3>2, <3>3 DEF Earlier
      <4>2. CASE \E y \in Activities : A[y].token = u
        <5>1. PICK y \in Activities : A[y].token = u
          BY <4>2
        <5>2. Closed(A, J, B, V, A[y].token, Earlier(J, B, c))
          BY <1>8, <2>1, <3>1, <3>2, <3>3, <5>1 DEF Flow, OthersClosed
        <5>3. Closed(A, J, B, V, u, Q)
          BY <4>1, <5>1, <5>2
        <5> QED
          BY <1>12, <3>2, <4>1, <5>3
      <4>3. CASE ~\E y \in Activities : A[y].token = u
        <5>1. b = a /\ u = t /\ ~V[t].valid
          BY <1>3, <1>4, <1>7, <1>15, <3>1, <3>2, <4>3
        <5>2. \A e \in Q : TokenAt(A2, e) # u
          BY <1>8, <4>1, <4>3 DEF TokenAt
        <5> QED
          BY <3>2, <5>1, <5>2 DEF Closed
      <4> QED
        BY <4>2, <4>3
    <3>4. CASE c = cr
      <4>1. b # a
        BY <1>4, <1>9, <3>1, <3>4
      <4>2. u = A[b].token /\ u # None /\ u # t
        BY <1>7, <1>9, <3>1, <3>2, <3>4, <4>1
      <4>3. CASE u = A[old].token
        <5>1. rp.kind = "delete" /\ TokenAt(A2, rp) = u /\ Deletes(A2, J2, B2, rp)
          BY <1>2, <1>9, <1>14, <1>15, <4>2, <4>3
        <5>2. rp \in Q /\ \A e \in Q : e.kind = "store" => e \in J
          BY <1>1, <1>2, <3>2, <3>4, <5>1 DEF Earlier
        <5>3. \A e \in J : <<e, rp>> \in B2
          BY <1>1
        <5>4. Closed(A2, J2, B2, V, u, Q)
          BY <5>1, <5>2, <5>3 DEF Closed
        <5> QED
          BY <3>2, <5>4
      <4>4. CASE u # A[old].token
        <5>1. Closed(A2, J2, B2, V, u, J)
          BY <1>13, <4>2, <4>4
        <5>2. \A e \in Q : e \in J \/ e = rp
          BY <1>1, <3>2, <3>4 DEF Earlier
        <5>3. J \subseteq Q
          BY <1>1, <3>2, <3>4 DEF Earlier
        <5>4. Closed(A2, J2, B2, V, u, Q)
          BY <1>2, <5>1, <5>2, <5>3 DEF Closed
        <5> QED
          BY <3>2, <5>4
      <4> QED
        BY <4>3, <4>4
    <3> QED
      BY <1>1, <1>2, <3>1, <3>3, <3>4
  <2>3. LostClosed(A2, J2, B2, V)
    <3>1. SUFFICES ASSUME NEW b \in Activities, A2[b].token # None, A2[b].token # t
                   PROVE  Closed(A2, J2, B2, V, A2[b].token, J2)
      BY <1>4, <1>6 DEF LostClosed
    <3>2. PICK u : u = A2[b].token
      OBVIOUS
    <3>3. b # a /\ u = A[b].token /\ u # None /\ u # t
      BY <1>4, <1>7, <3>1, <3>2
    <3>4. \A e \in J2 : e.kind = "store" /\ TokenAt(A2, e) = u => e \in J
      BY <1>1, <1>2, <1>9, <3>3
    <3>5. CASE u = A[old].token
      <4>1. rp.kind = "delete" /\ TokenAt(A2, rp) = u /\ Deletes(A2, J2, B2, rp) /\ rp \in J2
        BY <1>1, <1>2, <1>9, <1>14, <1>15, <3>3, <3>5
      <4>2. \A e \in J : <<e, rp>> \in B2
        BY <1>1
      <4>3. Closed(A2, J2, B2, V, u, J2)
        BY <3>4, <4>1, <4>2 DEF Closed
      <4> QED
        BY <3>2, <4>3
    <3>6. CASE u # A[old].token
      <4>1. Closed(A2, J2, B2, V, u, J)
        BY <1>13, <3>3, <3>6
      <4>2. J \subseteq J2
        BY <1>1
      <4>3. Closed(A2, J2, B2, V, u, J2)
        BY <3>4, <4>1, <4>2 DEF Closed
      <4> QED
        BY <3>2, <4>3
    <3> QED
      BY <3>5, <3>6
  <2>4. ValidHas(A2, J2, V)
    <3>1. SUFFICES ASSUME NEW b \in Activities, A2[b].token # None, V[A2[b].token].valid, b # a, b # old
                   PROVE  A2[b].named \/ HasReplace(J2, b)
      BY <1>4, <1>10 DEF ValidHas
    <3> QED
      BY <1>7, <1>10, <2>1, <3>1 DEF Flow, ValidHas, Passes, Same
  <2> QED
    BY <2>2, <2>3, <2>4 DEF Flow
<1>20. Owned(A2, J2, B2, V, D)
  <2>1. Owned(A, J, B, V, D)
    BY DEF Sound
  <2>2. NamedOwns(A2, J2, B2, V, D)
    <3>1. SUFFICES ASSUME A2[a].token # None
                   PROVE  /\ \A e \in J2 : e.kind = "store" /\ e.of # a =>
                               \E g \in J2 : g.kind = "store" /\ g.of = a /\ <<e, g>> \in B2
                          /\ \E g \in J2 : g.kind = "store" /\ g.of = a
      BY <1>6 DEF NamedOwns
    <3>2. cr.kind = "store" /\ cr.of = a /\ cr \in J2
      BY <1>1, <1>2, <1>4, <3>1
    <3>3. \A e \in J2 : e.kind = "store" /\ e.of # a => <<e, cr>> \in B2
      BY <1>1, <1>2
    <3> QED
      BY <3>2, <3>3
  <2>3. EndOwns(A2, J2, B2, V, D)
    <3>1. SUFFICES ASSUME NEW c \in J2, Deletes(A2, J2, B2, c), c.finish = "end"
                   PROVE  /\ \A e \in J2 : e.kind = "store" /\ TokenAt(A2, e) = TokenAt(A2, c) /\ e.of # c.of /\ <<e, c>> \in B2 =>
                               \E g \in J2 : g.kind = "store" /\ g.of = c.of /\ <<e, g>> \in B2 /\ <<g, c>> \in B2
                          /\ V[TokenAt(A2, c)].valid => \A r \in DOMAIN D : D[r].of # c.of =>
                               \E g \in J2 : g.kind = "store" /\ g.of = c.of /\ <<g, c>> \in B2
      BY DEF EndOwns
    <3>2. c \in J
      BY <1>1, <1>2, <3>1
    <3>3. Deletes(A, J, B, c) /\ TokenAt(A2, c) = TokenAt(A, c)
      BY <1>8, <1>11, <3>1, <3>2
    <3>4. \A e \in J2 : <<e, c>> \in B2 => e \in J /\ <<e, c>> \in B /\ TokenAt(A2, e) = TokenAt(A, e)
      BY <1>1, <1>8, <3>2
    <3>5. ASSUME NEW e \in J2, e.kind = "store", TokenAt(A2, e) = TokenAt(A2, c), e.of # c.of, <<e, c>> \in B2
          PROVE  \E g \in J2 : g.kind = "store" /\ g.of = c.of /\ <<e, g>> \in B2 /\ <<g, c>> \in B2
      <4>1. e \in J /\ <<e, c>> \in B /\ TokenAt(A, e) = TokenAt(A, c)
        BY <3>3, <3>4, <3>5
      <4>2. PICK g \in J : g.kind = "store" /\ g.of = c.of /\ <<e, g>> \in B /\ <<g, c>> \in B
        BY <2>1, <3>1, <3>2, <3>3, <3>5, <4>1 DEF Owned, EndOwns
      <4> QED
        BY <1>1, <4>2
    <3>6. ASSUME V[TokenAt(A2, c)].valid, NEW r \in DOMAIN D, D[r].of # c.of
          PROVE  \E g \in J2 : g.kind = "store" /\ g.of = c.of /\ <<g, c>> \in B2
      <4>1. PICK g \in J : g.kind = "store" /\ g.of = c.of /\ <<g, c>> \in B
        BY <2>1, <3>1, <3>2, <3>3, <3>6 DEF Owned, EndOwns
      <4> QED
        BY <1>1, <4>1
    <3> QED
      BY <3>5, <3>6
  <2>4. NewOwns(A2, J2, B2, V, D)
    <3>1. SUFFICES ASSUME NEW c \in J2, c.kind = "noop", c.finish = "replace", TokenAt(A2, c) # None
                   PROVE  /\ \A e \in J2 : e.kind = "store" /\ e.of = c.of =>
                               \E g \in J2 : /\ g.kind = "store" /\ g.of # c.of /\ TokenAt(A2, g) = TokenAt(A2, c)
                                             /\ <<e, g>> \in B2 /\ <<g, c>> \in B2
                          /\ V[TokenAt(A2, c)].valid => \A r \in DOMAIN D : D[r].of = c.of =>
                               \E g \in J2 : /\ g.kind = "store" /\ g.of # c.of
                                             /\ TokenAt(A2, g) = TokenAt(A2, c) /\ <<g, c>> \in B2
      BY DEF NewOwns
    <3>2. CASE c = rp
      <4>1. A[old].token # None /\ t # None /\ t = A[old].token
        BY <1>2, <1>9, <1>15, <3>1, <3>2
      <4>2. cr.kind = "store" /\ cr.of # rp.of /\ TokenAt(A2, cr) = TokenAt(A2, rp) /\ <<cr, rp>> \in B2 /\ cr \in J2
        BY <1>1, <1>2, <1>4, <1>9, <3>1, <3>2, <4>1
      <4>3. \A e \in J2 : e.kind = "store" /\ e.of = rp.of => <<e, cr>> \in B2
        BY <1>1, <1>2, <1>4
      <4> QED
        BY <3>2, <4>2, <4>3
    <3>3. CASE c \in J
      <4>1. \A e \in J2 : e.kind = "store" /\ e.of = c.of => e \in J
        BY <1>1, <1>2, <1>8, <3>3
      <4>2. TokenAt(A2, c) = TokenAt(A, c) /\ \A g \in J : TokenAt(A2, g) = TokenAt(A, g) /\ g \in J2
        BY <1>1, <1>8, <3>3
      <4>3. ASSUME NEW e \in J2, e.kind = "store", e.of = c.of
            PROVE  \E g \in J2 : /\ g.kind = "store" /\ g.of # c.of /\ TokenAt(A2, g) = TokenAt(A2, c)
                                 /\ <<e, g>> \in B2 /\ <<g, c>> \in B2
        <5>1. PICK g \in J : /\ g.kind = "store" /\ g.of # c.of /\ TokenAt(A, g) = TokenAt(A, c)
                             /\ <<e, g>> \in B /\ <<g, c>> \in B
          BY <2>1, <3>1, <3>3, <4>1, <4>2, <4>3 DEF Owned, NewOwns
        <5> QED
          BY <1>1, <4>2, <5>1
      <4>4. ASSUME V[TokenAt(A2, c)].valid, NEW r \in DOMAIN D, D[r].of = c.of
            PROVE  \E g \in J2 : /\ g.kind = "store" /\ g.of # c.of
                                 /\ TokenAt(A2, g) = TokenAt(A2, c) /\ <<g, c>> \in B2
        <5>1. PICK g \in J : /\ g.kind = "store" /\ g.of # c.of /\ TokenAt(A, g) = TokenAt(A, c)
                             /\ <<g, c>> \in B
          BY <2>1, <3>1, <3>3, <4>2, <4>4 DEF Owned, NewOwns
        <5> QED
          BY <1>1, <4>2, <5>1
      <4> QED
        BY <4>3, <4>4
    <3> QED
      BY <1>1, <1>2, <3>1, <3>2, <3>3
  <2>5. OwnerHas(A2, V, D)
    <3>1. SUFFICES ASSUME NEW b \in Activities, A2[b].token # None, V[A2[b].token].valid, NEW r \in DOMAIN D
                   PROVE  A2[D[r].of].token = A2[b].token
      BY DEF OwnerHas
    <3>2. PICK y \in Activities : A[y].token = A2[b].token
      BY <1>3, <1>4, <1>7, <1>15, <3>1
    <3>3. A[D[r].of].token = A2[b].token
      BY <2>1, <3>1, <3>2 DEF Owned, OwnerHas
    <3>4. D[r].of \in Activities /\ D[r].of # a
      BY <1>4, <3>1, <3>3 DEF Records, Record
    <3> QED
      BY <1>7, <3>3, <3>4
  <2> QED
    BY <2>2, <2>3, <2>4, <2>5 DEF Owned
<1>21. Stored(A2, V, D)
  <2>1. Stored(A, V, D)
    BY DEF Sound
  <2>2. ASSUME NEW b \in Activities, Standing(A2, V, b)
        PROVE  \E y \in Activities : Standing(A, V, y) /\ A[y].token = A2[b].token
    BY <1>3, <1>4, <1>7, <1>15, <2>2 DEF Standing
  <2>3. \A b \in Activities : Standing(A, V, b) => Standing(A2, V, b) /\ A2[b].token = A[b].token
    BY <1>4, <1>7 DEF Standing
  <2>4. RecordsStand(A2, V, D)
    <3>1. ASSUME NEW r
          PROVE  r \in DOMAIN D <=> \E b \in Activities : Standing(A2, V, b) /\ V[A2[b].token].record = r
      <4>1. r \in DOMAIN D <=> \E b \in Activities : Standing(A, V, b) /\ V[A[b].token].record = r
        BY <2>1 DEF Stored, RecordsStand
      <4>2. ASSUME NEW b \in Activities, Standing(A2, V, b), V[A2[b].token].record = r
            PROVE  \E y \in Activities : Standing(A, V, y) /\ V[A[y].token].record = r
        BY <2>2, <4>2
      <4>3. ASSUME NEW b \in Activities, Standing(A, V, b), V[A[b].token].record = r
            PROVE  \E y \in Activities : Standing(A2, V, y) /\ V[A2[y].token].record = r
        BY <2>3, <4>3
      <4> QED
        BY <4>1, <4>2, <4>3
    <3> QED
      BY <3>1 DEF RecordsStand
  <2>5. OneStands(A2, V)
    <3>1. SUFFICES ASSUME NEW b \in Activities, NEW c \in Activities, Standing(A2, V, b), Standing(A2, V, c)
                   PROVE  A2[b].token = A2[c].token
      BY DEF OneStands
    <3>2. PICK y \in Activities : Standing(A, V, y) /\ A[y].token = A2[b].token
      BY <2>2, <3>1
    <3>3. PICK z \in Activities : Standing(A, V, z) /\ A[z].token = A2[c].token
      BY <2>2, <3>1
    <3> QED
      BY <2>1, <3>2, <3>3 DEF Stored, OneStands
  <2>6. RevsStand(A2, V, D)
    <3>1. SUFFICES ASSUME NEW b \in Activities, Standing(A2, V, b)
                   PROVE  D[V[A2[b].token].record].rev = V[A2[b].token].rev
      BY DEF RevsStand
    <3>2. PICK y \in Activities : Standing(A, V, y) /\ A[y].token = A2[b].token
      BY <2>2, <3>1
    <3>3. D[V[A[y].token].record].rev = V[A[y].token].rev
      BY <2>1, <3>2 DEF Stored, RevsStand
    <3> QED
      BY <3>2, <3>3
  <2>7. ValidStand(A2, V)
    <3>1. SUFFICES ASSUME NEW b \in Activities, A2[b].token # None
                   PROVE  V[A2[b].token].valid <=> V[A2[b].token].record # None
      BY DEF ValidStand
    <3>2. CASE b # a
      BY <1>7, <2>1, <3>1, <3>2 DEF Stored, ValidStand
    <3>3. CASE b = a
      BY <1>3, <1>4, <1>15, <2>1, <3>1, <3>3 DEF Stored, ValidStand
    <3> QED
      BY <3>2, <3>3
  <2> QED
    BY <2>4, <2>5, <2>6, <2>7 DEF Stored
<1>22. Carried(A, J, H, A2, J2)
  <2>1. SUFFICES ASSUME NEW h \in H, Working(h)
                 PROVE  /\ TokenAt(A2, h) = TokenAt(A, h)
                        /\ h.version <= A[h.of].version => h.version <= A2[h.of].version
                        /\ A[h.of].named \/ HasReplace(J, h.of) => A2[h.of].named \/ HasReplace(J2, h.of)
    BY DEF Carried
  <2>2. Job(h) \in J /\ Job(h).of = h.of
    BY JobFields DEF Lined
  <2>3. h.of \in Activities /\ h.of # a /\ TokenAt(A2, h) = TokenAt(A, h)
    BY <1>7, <1>8, <2>2 DEF TokenAt
  <2>4. CASE h.of = old
    BY <1>5, <1>10, <2>3, <2>4
  <2>5. CASE h.of # old
    BY <1>10, <2>3, <2>5 DEF Passes, Same
  <2> QED
    BY <2>4, <2>5
<1>23. Follows(A2, K, V, H2) /\ Calls(A2, J2, K, V, D, H2) /\ Ahead(H2) = Ahead(H)
  BY <1>22, CallsStay DEF Sound
<1>24. ToldIs(J2, D, H2, w) /\ ToldOf(J2, H2, w)
  <2>1. Pending(J) => Pending(J2)
    BY <1>1 DEF Pending
  <2> QED
    BY <1>23, <2>1, ToldStays DEF Sound
<1> QED
  BY <1>16, <1>17, <1>18, <1>19, <1>20, <1>21, <1>23, <1>24 DEF Sound

-----------------------------------------------------------------------------
(* The first command of a chain.                                           *)

\* The name passes at once when nothing is stored and nothing is hooked.
LEMMA PassedAtOnce ==
  ASSUME NEW A, NEW J, NEW B, NEW K, NEW V, NEW D, NEW H, NEW w,
         Sound(A, J, B, K, V, D, H, w), Lined(J, B, H), \A h \in H : Working(h),
         NEW a \in Activities, NEW old \in NamedOf(A), \A c \in J : c.of # old, ~A[old].persistent,
         NEW A2, Passes(A, A2, a, old, None)
  PROVE  J = {} /\ w = Nothing /\ Sound(A2, J, B, K, V, D, H, w)
PROOF
<1>1. /\ old \in Activities /\ A[old].life = "live" /\ A[old].named /\ \A n \in NamedOf(A) : n = old
      /\ A[old].token = None
  BY DEF NamedOf, Sound, Lives, OneNamed, TokensPersist
<1>2. J = {}
  BY <1>1, Calm DEF Sound, Lives, Rows
<1>3. Vacant(A, J, K, V, D, H, w)
  BY <1>1, <1>2, SoundVacant
<1>4. /\ a # old /\ A2[a].token = None /\ A2[a].named /\ A2[a].life = "live" /\ ~A2[a].ending /\ ~A2[a].persistent
  BY <1>1 DEF Passes, Begins
<1>5. A2[old].token = None /\ ~A2[old].named /\ A2[old].intCommand /\ A2[old].life = "live"
  BY <1>1 DEF Passes
<1>6. \A x \in Activities : x # a /\ x # old => Same(A, A2, x)
  BY DEF Passes
<1>7. \A x \in Activities : A2[x].token # None => x # a /\ x # old /\ A2[x].token = A[x].token
  BY <1>4, <1>5, <1>6 DEF Same
<1>8. Vacant(A2, J, K, V, D, H, w)
  BY <1>3, <1>7 DEF Vacant
<1>9. NamedOf(A2) = {a}
  BY <1>1, <1>4, <1>5, <1>6 DEF NamedOf, Same
<1>10. Lives(A2)
  <2>1. OneNamed(A2) /\ PersistentHave(A2)
    BY <1>4, <1>9 DEF OneNamed, PersistentHave
  <2>2. Unborn(A2) /\ TokensPersist(A2)
    BY <1>4, <1>5, <1>6, <1>7 DEF Sound, Lives, Unborn, TokensPersist, Same
  <2>3. NamedUnlessEnding(A2)
    BY <1>4, <1>5, <1>6 DEF Sound, Lives, NamedUnlessEnding, Same
  <2> QED
    BY <2>1, <2>2, <2>3 DEF Lives
<1>11. EndingHas(A2, J)
  BY <1>4, <1>9 DEF EndingHas
<1>12. DetachedHas(A2, J)
  BY <1>6, <1>7 DEF Sound, Works, DetachedHas, Same
<1>13. SharersHave(A2, J)
  <2>1. SUFFICES ASSUME NEW x \in Activities, NEW y \in Activities, x # y, A2[x].token # None, A2[x].token = A2[y].token
                 PROVE  A2[x].named \/ HasReplace(J, x)
    BY DEF SharersHave
  <2>2. x # a /\ x # old /\ A2[x].token = A[x].token /\ A2[y].token = A[y].token
    BY <1>7, <2>1
  <2> QED
    BY <1>6, <2>1, <2>2 DEF Sound, Works, SharersHave, Same
<1> QED
  BY <1>2, <1>3, <1>8, <1>10, <1>11, <1>12, <1>13, VacantSound DEF Vacant

LEMMA HeadsApart ==
  ASSUME NEW J, NEW B, NEW H, Lined(J, B, H), NEW h \in H, NEW g \in H, h.of = g.of
  PROVE  h = g
PROOF
<1>1. Job(h) \in J /\ Job(g) \in J /\ Job(h).of = h.of /\ Job(g).of = g.of
  BY JobFields DEF Lined
<1>2. Job(h) = Job(g) \/ <<Job(h), Job(g)>> \in B \/ <<Job(g), Job(h)>> \in B
  BY <1>1 DEF Lined, Ordered
<1> QED
  BY <1>2 DEF Lined

\* A head that writes is the only one that db8 has been called for.
LEMMA WriterAlone ==
  ASSUME NEW A, NEW J, NEW B, NEW K, NEW V, NEW D, NEW H, Lined(J, B, H),
         OneNamed(A), WritersBefore(A, J, B), Calls(A, J, K, V, D, H),
         NEW c \in H, Writer(A, J, B, Job(c)), NEW g \in H, Working(g)
  PROVE  g = c
PROOF
<1>1. Writer(A, J, B, Job(g))
  BY HeadWrites
<1>2. Job(c) \in J /\ Job(g) \in J
  BY DEF Lined
<1>3. Job(c) = Job(g) \/ <<Job(c), Job(g)>> \in B \/ <<Job(g), Job(c)>> \in B
  BY <1>1, <1>2, WritersOrdered
<1> QED
  BY <1>3 DEF Lined

\* A head that has a reply, or that needs none.
Idle(A, K, c) ==
  /\ c.status = "waiting"
  /\ c.kind = "noop" \/ TokenAt(A, c) = None \/ (c.kind = "delete" /\ ~K[TokenAt(A, c)].valid)

\* db8 has done what it was asked for.
Done(c) == c.status = "ok"

\* Its token is not valid then, if it was a delete, and the record is its
\* own, if it was a store.
Settled(A, V, D, c) ==
  /\ c.kind = "delete" /\ TokenAt(A, c) # None => ~V[TokenAt(A, c)].valid
  /\ c.kind = "store" => /\ c.status = "ok"
                         /\ \A r \in DOMAIN D : D[r].of = c.of

\* What has been done for the head, when its turn is over.
LEMMA HeadSettled ==
  ASSUME NEW A, NEW J, NEW B, NEW K \in [Tokens -> TokenState], NEW V, NEW D, NEW H, NEW w,
         Sound(A, J, B, K, V, D, H, w), Lined(J, B, H), Records(D),
         NEW c \in H, Idle(A, K, c) \/ Done(c), TokenAt(A, c) \in Tokens \cup {None}
  PROVE  Settled(A, V, D, c)
PROOF
<1>1. /\ c.of \in Activities /\ Job(c) \in J /\ Job(c).of = c.of /\ Job(c).kind = c.kind
      /\ TokenAt(A, Job(c)) = TokenAt(A, c)
  BY JobFields DEF Lined, Command, TokenAt
<1>2. CASE Idle(A, K, c)
  <2>1. c.kind # "store"
    BY <1>1, <1>2 DEF Idle, Sound, Works, StoresHave
  <2>2. ASSUME c.kind = "delete", TokenAt(A, c) # None, V[TokenAt(A, c)].valid
        PROVE  FALSE
    <3>1. ~K[TokenAt(A, c)].valid
      BY <1>2, <2>2 DEF Idle
    <3>2. PICK g \in H : g.status = "ok"
      BY <2>2, <3>1 DEF Sound, Follows, Ahead
    <3>3. A[c.of].named \/ HasReplace(J, c.of)
      BY <1>1, <2>2 DEF Sound, Flow, ValidHas, TokenAt
    <3>4. ~Replaced(J, B, Job(c))
      BY DEF Lined, Replaced
    <3>5. Writer(A, J, B, Job(c))
      BY <1>1, <2>2, <3>3, <3>4 DEF Deletes, Writer
    <3>6. g = c
      BY <3>2, <3>5, WriterAlone DEF Sound, Lives, Rows, Working
    <3> QED
      BY <1>2, <3>2, <3>6 DEF Idle
  <2> QED
    BY <2>1, <2>2 DEF Settled
<1>3. CASE Done(c)
  <2>1. c \in Ahead(H) /\ Working(c)
    BY <1>3 DEF Ahead, Done, Working
  <2>2. V = [K EXCEPT ![TokenAt(A, c)] = Result(c)]
    BY <2>1 DEF Sound, Follows
  <2>3. Calling(A, J, K, V, D, c) /\ TokenAt(A, c) # None
    BY <2>1 DEF Sound, Calls, Calling
  <2>4. V[TokenAt(A, c)] = Result(c)
    BY <2>2, <2>3
  <2>5. c.kind = "delete" => ~V[TokenAt(A, c)].valid
    BY <2>4 DEF Result, NoToken
  <2>6. ASSUME c.kind = "store", NEW r \in DOMAIN D
        PROVE  D[r].of = c.of
    <3>1. c.record \in DOMAIN D /\ D[c.record].of = c.of
      BY <1>3, <2>3, <2>6 DEF Calling, Done
    <3>2. OwnerHas(A, V, D) /\ Stored(A, V, D)
      BY DEF Sound, Owned
    <3>3. TheRecord(A, V, D, r)
      BY <3>2, <2>6, RecordOf
    <3> QED
      BY <3>1, <3>3 DEF TheRecord
  <2> QED
    BY <1>3, <2>5, <2>6 DEF Settled, Done
<1> QED
  BY <1>2, <1>3

\* What the end of command c does to the Activities and to what was told.
Finishes(A, w, c, A2, w2) ==
  \/ c.finish \in {"create", "update"} /\ A2 = A /\ w2 = ToldStored(w, c)
  \/ c.finish = "end" /\ Unnames(A, A2, c.of) /\ (~A[c.of].named => A2 = A) /\ w2 = ToldEnded(w, c)
  \/ c.finish = "replace" /\ Drops(A, A2, c.of) /\ w2 = w

\* The head c is gone, and what comes after it has not been looked at.
Unlisted(H, c, H2) ==
  /\ \A h \in H : h # c => h \in H2
  /\ \A h \in H2 : Working(h) => h \in H /\ h # c

\* Jobs and Activities when the head of a chain is finished.
LEMMA TakenWorks ==
  ASSUME NEW A, NEW J, NEW B, NEW K, NEW V, NEW D, NEW H, NEW w,
         Sound(A, J, B, K, V, D, H, w), Lined(J, B, H), Records(D),
         NEW c \in H, Settled(A, V, D, c), NEW A2, NEW w2, Finishes(A, w, c, A2, w2),
         NEW J2, NEW B2, Taken(J, B, Job(c), J2, B2)
  PROVE  /\ Lives(A2) /\ Works(A2, J2) /\ Rows(A2, J2, B2)
         /\ Flow(A2, J2, B2, V) /\ Owned(A2, J2, B2, V, D) /\ Stored(A2, V, D)
PROOF
<1> DEFINE j == Job(c)
<1>1. j.of = c.of /\ j.kind = c.kind /\ j.finish = c.finish /\ TokenAt(A, j) = TokenAt(A, c)
  BY JobFields DEF TokenAt
<1>2. /\ Lives(A) /\ Works(A, J) /\ Rows(A, J, B)
      /\ Flow(A, J, B, V) /\ Owned(A, J, B, V, D) /\ Stored(A, V, D)
  BY DEF Sound
<1>3. /\ j.kind = "delete" /\ TokenAt(A, j) # None => ~V[TokenAt(A, j)].valid
      /\ j.kind = "store" => \A r \in DOMAIN D : D[r].of = j.of
  BY <1>1 DEF Settled
<1>4. Taken(J, B, j, J2, B2)
  OBVIOUS
<1> HIDE DEF j
<1>5. CASE j.finish \in {"create", "update"}
  <2>1. A2 = A /\ j.finish # "replace" /\ j.finish # "end"
    BY <1>1, <1>5 DEF Finishes
  <2> QED
    BY <1>2, <1>3, <1>4, <2>1, TakeSame
<1>6. CASE j.finish = "end"
  <2>1. Unnames(A, A2, j.of) /\ (~A[j.of].named => A2 = A)
    BY <1>1, <1>6 DEF Finishes
  <2>2. CASE A[j.of].named
    BY <1>2, <1>3, <1>4, <1>6, <2>1, <2>2, TakeNamedEnd
  <2>3. CASE ~A[j.of].named
    BY <1>2, <1>3, <1>4, <1>6, <2>1, <2>3, TakeSame
  <2> QED
    BY <2>2, <2>3
<1>7. CASE j.finish = "replace"
  <2>1. Drops(A, A2, j.of)
    BY <1>1, <1>7 DEF Finishes
  <2>2. j.kind = "delete" => TokenAt(A, j) # None
    BY <1>2, <1>4, <1>7 DEF Works, DeletesEnd, Taken
  <2>3. j.kind = "delete" => ~V[TokenAt(A, j)].valid
    BY <1>3, <2>2
  <2> QED
    BY <1>2, <1>4, <1>7, <2>1, <2>3, TakeReplace
<1>8. j.finish \in {"create", "update", "end", "replace"}
  BY <1>4 DEF Taken, Lined
<1> QED
  BY <1>5, <1>6, <1>7, <1>8

\* The rest, for a head that nothing is done for.
LEMMA IdleCalls ==
  ASSUME NEW A, NEW J, NEW B, NEW K, NEW V, NEW D, NEW H, NEW w,
         Sound(A, J, B, K, V, D, H, w), Lined(J, B, H), Records(D),
         NEW c \in H, Idle(A, K, c), Settled(A, V, D, c), NEW A2, NEW w2, Finishes(A, w, c, A2, w2),
         NEW J2, NEW B2, Taken(J, B, Job(c), J2, B2), NEW H2, Unlisted(H, c, H2)
  PROVE  /\ Follows(A2, K, V, H2) /\ Calls(A2, J2, K, V, D, H2)
         /\ ToldIs(J2, D, H2, w2) /\ ToldOf(J2, H2, w2)
PROOF
<1>1. /\ c.of \in Activities /\ Job(c) \in J /\ Job(c).of = c.of /\ Job(c).kind = c.kind
      /\ Job(c).finish = c.finish /\ TokenAt(A, Job(c)) = TokenAt(A, c)
      /\ c.kind \in {"store", "delete", "noop"}
      /\ c.finish \in {"create", "update", "end", "replace"}
  BY JobFields DEF Lined, Command, TokenAt
<1>2. ~Working(c)
  BY DEF Idle, Working
<1>3. SameCalls(H, H2)
  BY <1>2 DEF SameCalls, Unlisted
<1>4. \A x : x # c.of => (HasReplace(J, x) => HasReplace(J2, x))
  BY <1>1 DEF HasReplace, Taken
<1>5. Carried(A, J, H, A2, J2)
  <2>1. SUFFICES ASSUME NEW h \in H, Working(h)
                 PROVE  /\ TokenAt(A2, h) = TokenAt(A, h)
                        /\ h.version <= A[h.of].version => h.version <= A2[h.of].version
                        /\ A[h.of].named \/ HasReplace(J, h.of) => A2[h.of].named \/ HasReplace(J2, h.of)
    BY DEF Carried
  <2>2. h.of # c.of /\ h.of \in Activities
    <3>1. h # c
      BY <1>2, <2>1
    <3>2. h.of # c.of
      BY <3>1, HeadsApart
    <3>3. h.of \in Activities
      BY DEF Lined, Command
    <3> QED
      BY <3>2, <3>3
  <2>3. /\ A2[h.of].token = A[h.of].token /\ A2[h.of].version = A[h.of].version
        /\ A[h.of].named => A2[h.of].named
    BY <2>2 DEF Finishes, Unnames, Drops
  <2> QED
    BY <1>4, <2>2, <2>3 DEF TokenAt
<1>6. Follows(A2, K, V, H2) /\ Calls(A2, J2, K, V, D, H2) /\ Ahead(H2) = Ahead(H)
  BY <1>3, <1>5, CallsStay DEF Sound
<1>7. c.kind # "store"
  BY DEF Settled, Idle
<1>8. CASE c.finish = "create"
  <2>1. c.kind = "noop"
    BY <1>1, <1>7, <1>8 DEF Sound, Works, DeletesEnd
  <2>2. w2 = Nothing
    BY <1>8, <2>1 DEF Finishes, ToldStored
  <2>3. TokenAt(A, c) = None
    BY <1>1, <1>8, <2>1 DEF Sound, Works, NoopsAreNot, Lives, TokensPersist, TokenAt
  <2>4. ASSUME NEW r \in DOMAIN D
        PROVE  FALSE
    <3>1. OwnerHas(A, V, D) /\ Stored(A, V, D)
      BY DEF Sound, Owned
    <3>2. TheRecord(A, V, D, r)
      BY <3>1, RecordOf
    <3>3. PICK b \in Activities : Standing(A, V, b)
      BY <3>2 DEF TheRecord
    <3>4. A[b].token # None /\ V[A[b].token].valid
      BY <3>3 DEF Standing
    <3>5. Closed(A, J, B, V, A[b].token, Earlier(J, B, Job(c)))
      BY <1>1, <1>8, <2>3, <3>4 DEF Sound, Flow, OthersClosed
    <3>6. Earlier(J, B, Job(c)) = {}
      BY DEF Lined, Earlier
    <3> QED
      BY <3>4, <3>5, <3>6 DEF Closed
  <2>5. LatestOf(D) = Nothing
    <3>1. DOMAIN D = {}
      BY <2>4
    <3> QED
      BY <3>1 DEF LatestOf
  <2>6. ToldIs(J2, D, H2, w2) /\ ToldOf(J2, H2, w2)
    BY <2>2, <2>5 DEF ToldIs, ToldOf
  <2> QED
    BY <1>6, <2>6
<1>9. CASE c.finish # "create"
  <2>1. Pending(J) => Pending(J2)
    BY <1>1, <1>9 DEF Pending, Taken
  <2>2. w2 = w \/ (c.finish = "end" /\ w2 = ToldEnded(w, c))
    BY <1>1, <1>7, <1>9 DEF Finishes, ToldStored
  <2>3. ToldIs(J, D, H, w2) /\ ToldOf(J, H, w2)
    <3>1. CASE w2 = w
      BY <3>1 DEF Sound
    <3>2. CASE c.finish = "end" /\ w2 = ToldEnded(w, c)
      <4>1. TokenAt(A, c) # None => ~V[TokenAt(A, c)].valid
        <5>1. CASE c.kind = "delete"
          BY <5>1 DEF Settled
        <5>2. CASE c.kind = "noop"
          BY <1>1, <3>2, <5>2 DEF Sound, Works, NoopsAreNot, Lives, TokensPersist, TokenAt
        <5> QED
          BY <1>1, <1>7, <5>1, <5>2
      <4>2. Sound(A, J, B, K, V, D, H, ToldEnded(w, c))
        BY <4>1, EndTold
      <4> QED
        BY <3>2, <4>2 DEF Sound
    <3> QED
      BY <2>2, <3>1, <3>2
  <2>4. ToldIs(J2, D, H2, w2) /\ ToldOf(J2, H2, w2)
    BY <1>6, <2>1, <2>3, ToldStays
  <2> QED
    BY <1>6, <2>4
<1> QED
  BY <1>8, <1>9

\* And for one that db8 has done what it asked for.
LEMMA DoneCalls ==
  ASSUME NEW A, NEW J, NEW B, NEW K, NEW V, NEW D, NEW H, NEW w,
         Sound(A, J, B, K, V, D, H, w), Lined(J, B, H), Records(D),
         NEW c \in H, Done(c), NEW A2, NEW w2, Finishes(A, w, c, A2, w2),
         NEW J2, NEW B2, Taken(J, B, Job(c), J2, B2), NEW H2, Unlisted(H, c, H2)
  PROVE  /\ Follows(A2, V, V, H2) /\ Calls(A2, J2, V, V, D, H2)
         /\ ToldIs(J2, D, H2, w2) /\ ToldOf(J2, H2, w2)
PROOF
<1>1. /\ c.of \in Activities /\ Job(c) \in J /\ Job(c).of = c.of /\ Job(c).kind = c.kind
      /\ Job(c).finish = c.finish /\ c.finish \in {"create", "update", "end", "replace"}
  BY JobFields DEF Lined, Command
<1>2. Working(c) /\ c \in Ahead(H)
  BY DEF Done, Working, Ahead
<1>3. \A h \in H2 : ~Working(h)
  BY <1>2, OneWorking DEF Unlisted, Sound, Lives, Rows
<1>4. Ahead(H2) = {}
  BY <1>3 DEF Ahead, Working
<1>5. Follows(A2, V, V, H2) /\ Calls(A2, J2, V, V, D, H2) /\ ToldOf(J2, H2, w2)
  BY <1>3, <1>4 DEF Follows, Calls, ToldOf
<1>6. Calling(A, J, K, V, D, c)
  BY <1>2 DEF Sound, Calls
<1>7. ToldIs(J2, D, H2, w2)
  <2>1. CASE c.kind = "store"
    <3>1. c.record \in DOMAIN D /\ D[c.record].of = c.of /\ D[c.record].version = c.version
      BY <1>6, <2>1 DEF Calling, Done
    <3>2. OwnerHas(A, V, D) /\ Stored(A, V, D)
      BY DEF Sound, Owned
    <3>3. TheRecord(A, V, D, c.record)
      BY <3>1, <3>2, RecordOf
    <3>4. LatestOf(D) = [of |-> c.of, version |-> c.version]
      BY <3>1, <3>3 DEF TheRecord, Content
    <3>5. c.finish \in {"create", "update"}
      BY <1>1, <2>1 DEF Sound, Works, StoresHave
    <3>6. w2 = [of |-> c.of, version |-> c.version]
      BY <2>1, <3>5 DEF Finishes, ToldStored
    <3> QED
      BY <3>4, <3>6 DEF ToldIs
  <2>2. CASE c.kind = "delete"
    <3>1. DOMAIN D = {}
      BY <1>6, <2>2 DEF Calling, Done
    <3>2. LatestOf(D) = Nothing
      BY <3>1 DEF LatestOf
    <3>3. c.finish \in {"end", "replace"}
      BY <1>1, <2>2 DEF Sound, Works, DeletesEnd
    <3>4. CASE c.finish = "end"
      <4>1. w = Nothing \/ w.of = c.of \/ Pending(J)
        BY <1>2, <2>2, <3>4 DEF Sound, ToldOf
      <4>2. w2 = ToldEnded(w, c)
        BY <3>4 DEF Finishes
      <4>3. Pending(J) => Pending(J2)
        BY <1>1, <3>4 DEF Pending, Taken
      <4> QED
        BY <3>2, <4>1, <4>2, <4>3 DEF ToldIs, ToldEnded
    <3>5. CASE c.finish = "replace"
      <4>1. PICK d \in J : d.kind = "noop" /\ d.finish = "create"
        BY <1>1, <2>2, <3>5 DEF Sound, Rows, ReplaceThenCreate
      <4>2. Pending(J2)
        BY <1>1, <3>5, <4>1 DEF Pending, Taken
      <4> QED
        BY <3>2, <4>2 DEF ToldIs
    <3> QED
      BY <3>3, <3>4, <3>5
  <2> QED
    BY <1>6, <2>1, <2>2 DEF Calling
<1> QED
  BY <1>5, <1>7

-----------------------------------------------------------------------------
(* db8 is called, and answers.                                             *)

\* The head c of a chain becomes n.
Reheads(H, c, n, H2) ==
  /\ c \in H /\ H2 = (H \ {c}) \cup {n}
  /\ n.kind = c.kind /\ n.of = c.of /\ n.finish = c.finish

\* db8 is called for the head of a chain.
LEMMA CallMade ==
  ASSUME NEW A, NEW J, NEW B, NEW K, NEW V, NEW D, NEW H, NEW w,
         Sound(A, J, B, K, V, D, H, w), Lined(J, B, H), \A a \in Activities : A[a].version \in Nat,
         NEW c, NEW n, NEW H2, Reheads(H, c, n, H2),
         c.status = "waiting", c.kind # "noop", TokenAt(A, c) # None,
         c.kind = "delete" => K[TokenAt(A, c)].valid,
         n.status = "sent", n.version = A[c.of].version, n.record = K[TokenAt(A, c)].record
  PROVE  Sound(A, J, B, K, V, D, H2, w)
PROOF
<1>1. /\ c \in H /\ c.of \in Activities /\ Job(c) \in J /\ Job(c).of = c.of /\ Job(c).kind = c.kind
      /\ TokenAt(A, Job(c)) = TokenAt(A, c) /\ c.kind \in {"store", "delete"}
      /\ TokenAt(A, n) = TokenAt(A, c) /\ n.of = c.of /\ n.kind = c.kind
  BY JobFields DEF Lined, Command, TokenAt, Reheads
<1>2. ~Replaced(J, B, Job(c))
  BY <1>1 DEF Lined, Replaced
<1>3. c.kind = "delete" => A[c.of].named \/ HasReplace(J, c.of)
  <2>1. SUFFICES ASSUME c.kind = "delete"
                 PROVE  A[c.of].named \/ HasReplace(J, c.of)
    OBVIOUS
  <2>2. CASE V[TokenAt(A, c)].valid
    BY <1>1, <2>2 DEF Sound, Flow, ValidHas, TokenAt
  <2>3. CASE ~V[TokenAt(A, c)].valid
    <3>1. V # K
      BY <2>1, <2>3
    <3>2. PICK g \in H : g.status = "ok" /\ V = [K EXCEPT ![TokenAt(A, g)] = Result(g)]
      BY <3>1 DEF Sound, Follows, Ahead
    <3>3. TokenAt(A, g) = TokenAt(A, c)
      BY <2>1, <2>3, <3>2
    <3>4. g # c
      BY <3>2
    <3>5. g.of # c.of
      BY <1>1, <3>4, HeadsApart
    <3>6. g.of \in Activities
      BY DEF Lined, Command
    <3> QED
      BY <1>1, <3>3, <3>5, <3>6 DEF Sound, Works, SharersHave, TokenAt
  <2> QED
    BY <2>2, <2>3
<1>4. Writer(A, J, B, Job(c))
  BY <1>1, <1>2, <1>3 DEF Deletes, Writer
<1>5. \A g \in H : ~Working(g)
  <2>1. SUFFICES ASSUME NEW g \in H, Working(g)
                 PROVE  FALSE
    OBVIOUS
  <2>2. g = c
    BY <1>1, <1>4, <2>1, WriterAlone DEF Sound, Lives, Rows
  <2> QED
    BY <2>1, <2>2 DEF Working
<1>6. Ahead(H) = {} /\ Ahead(H2) = {}
  BY <1>5 DEF Ahead, Working, Reheads
<1>7. V = K
  BY <1>6 DEF Sound, Follows
<1>8. Calling(A, J, K, V, D, n)
  BY <1>1, <1>3, <1>7 DEF Calling
<1>9. Calls(A, J, K, V, D, H2)
  BY <1>5, <1>8 DEF Calls, Reheads
<1>10. Follows(A, K, V, H2) /\ ToldIs(J, D, H2, w) /\ ToldOf(J, H2, w)
  BY <1>6, <1>7 DEF Sound, Follows, ToldIs, ToldOf
<1> QED
  BY <1>9, <1>10 DEF Sound

\* The call fails for now, or is made again.
LEMMA CallRepeated ==
  ASSUME NEW A, NEW J, NEW B, NEW K, NEW V, NEW D, NEW H, NEW w,
         Sound(A, J, B, K, V, D, H, w),
         NEW c, NEW n, NEW H2, Reheads(H, c, n, H2),
         c.status \in {"sent", "transient"}, n.status \in {"sent", "transient"},
         n.version = c.version, n.record = c.record
  PROVE  Sound(A, J, B, K, V, D, H2, w)
PROOF
<1>1. Ahead(H2) = Ahead(H)
  BY DEF Ahead, Reheads
<1>2. Calling(A, J, K, V, D, c)
  BY DEF Sound, Calls, Working, Reheads
<1>3. Calling(A, J, K, V, D, n)
  BY <1>2 DEF Calling, Reheads, TokenAt
<1>4. Calls(A, J, K, V, D, H2)
  BY <1>3 DEF Sound, Calls, Reheads
<1>5. Follows(A, K, V, H2) /\ ToldIs(J, D, H2, w) /\ ToldOf(J, H2, w)
  BY <1>1 DEF Sound, Follows, ToldIs, ToldOf
<1> QED
  BY <1>4, <1>5 DEF Sound

\* db8 has done what head c, now n, asked for.
Serves(A, V, H, c, n, H2, V2) ==
  /\ Reheads(H, c, n, H2)
  /\ c.status = "sent" /\ n.status = "ok" /\ n.version = c.version
  /\ TokenAt(A, c) \in Tokens \cup {None}
  /\ V2 = [V EXCEPT ![TokenAt(A, c)] = Result(n)]

\* Before, nothing was ahead of the tokens.
ServedHead(A, J, B, K, V, D, H, c, n, H2, V2) ==
  /\ Calling(A, J, K, V, D, c) /\ V = K /\ Ahead(H) = {} /\ Ahead(H2) = {n}
  /\ \A h \in H2 : Working(h) => h = n
  /\ Job(c) \in J /\ Job(c).of = c.of /\ Job(c).kind = c.kind /\ Job(c).finish = c.finish
  /\ c.of \in Activities /\ TokenAt(A, Job(c)) = TokenAt(A, c)
  /\ TokenAt(A, n) = TokenAt(A, c) /\ TokenAt(A, c) = A[c.of].token
  /\ TokenAt(A, c) # None
  /\ V2[TokenAt(A, c)] = Result(n)
  /\ \A u : u # TokenAt(A, c) => V2[u] = V[u]
  /\ \A x : <<x, Job(c)>> \notin B
  /\ Writer(A, J, B, Job(c))
  /\ V2 = [K EXCEPT ![TokenAt(A, n)] = Result(n)]

\* What is known of the head that db8 has served.
LEMMA ServedFirst ==
  ASSUME NEW A, NEW J, NEW B, NEW K, NEW V \in [Tokens -> TokenState], NEW D, NEW H, NEW w,
         Sound(A, J, B, K, V, D, H, w), Lined(J, B, H),
         NEW c, NEW n, NEW H2, NEW V2, Serves(A, V, H, c, n, H2, V2)
  PROVE  ServedHead(A, J, B, K, V, D, H, c, n, H2, V2)
PROOF
<1>1. /\ c \in H /\ H2 = (H \ {c}) \cup {n} /\ n.kind = c.kind /\ n.of = c.of /\ n.finish = c.finish
      /\ c.status = "sent" /\ n.status = "ok"
  BY DEF Serves, Reheads
<1>2. Working(c)
  BY <1>1 DEF Working
<1>3. Calling(A, J, K, V, D, c)
  BY <1>1, <1>2 DEF Sound, Calls
<1>4. \A g \in H : Working(g) => g = c
  BY <1>1, <1>2, OneWorking DEF Sound, Lives, Rows
<1>5. Ahead(H) = {} /\ Ahead(H2) = {n} /\ \A h \in H2 : Working(h) => h = n
  BY <1>1, <1>4 DEF Ahead, Working
<1>6. V = K
  BY <1>5 DEF Sound, Follows
<1>7. /\ Job(c) \in J /\ Job(c).of = c.of /\ Job(c).kind = c.kind /\ Job(c).finish = c.finish
      /\ c.of \in Activities /\ TokenAt(A, Job(c)) = TokenAt(A, c) /\ \A x : <<x, Job(c)>> \notin B
  BY <1>1, JobFields DEF Lined, Command, TokenAt
<1>8. TokenAt(A, n) = TokenAt(A, c) /\ TokenAt(A, c) = A[c.of].token
  BY <1>1 DEF TokenAt
<1>9. TokenAt(A, c) # None
  BY <1>3 DEF Calling
<1>10. V2 = [V EXCEPT ![TokenAt(A, c)] = Result(n)] /\ TokenAt(A, c) \in Tokens
  BY <1>9 DEF Serves
<1>11. V2[TokenAt(A, c)] = Result(n) /\ \A u : u # TokenAt(A, c) => V2[u] = V[u]
  BY <1>10
<1>12. Writer(A, J, B, Job(c))
  BY <1>1, <1>2, HeadWrites DEF Sound
<1> QED
  BY <1>3, <1>5, <1>6, <1>7, <1>8, <1>9, <1>10, <1>11, <1>12 DEF ServedHead

\* A put: the record of the token, or a new one, is the Activity's.
Puts(D, c, n, D2) ==
  /\ c.kind = "store" /\ n.record # None /\ (c.record # None => n.record = c.record)
  /\ DOMAIN D2 = DOMAIN D \cup {n.record}
  /\ D2[n.record] = [of |-> c.of, version |-> c.version, rev |-> n.rev]
  /\ \A r \in DOMAIN D : D[r].rev <= n.rev

\* A store that db8 has done keeps the invariant.
LEMMA StoreDone ==
  ASSUME NEW A, NEW J, NEW B, NEW K, NEW V \in [Tokens -> TokenState], NEW D, NEW H, NEW w,
         Sound(A, J, B, K, V, D, H, w), Lined(J, B, H), Records(D),
         NEW c, NEW n, NEW H2, NEW V2, Serves(A, V, H, c, n, H2, V2),
         NEW D2, Puts(D, c, n, D2)
  PROVE  Sound(A, J, B, K, V2, D2, H2, w)
PROOF
<1> DEFINE t == TokenAt(A, c)
           j == Job(c)
<1>1. /\ Calling(A, J, K, V, D, c) /\ V = K /\ Ahead(H) = {} /\ Ahead(H2) = {n}
      /\ \A h \in H2 : Working(h) => h = n
      /\ j \in J /\ j.of = c.of /\ j.kind = c.kind
      /\ c.of \in Activities /\ TokenAt(A, j) = t
      /\ TokenAt(A, n) = t /\ t = A[c.of].token
      /\ t # None
      /\ V2[t] = Result(n)
      /\ \A u : u # t => V2[u] = V[u]
      /\ \A x : <<x, j>> \notin B
      /\ Writer(A, J, B, j)
      /\ V2 = [K EXCEPT ![TokenAt(A, n)] = Result(n)]
  <2>1. ServedHead(A, J, B, K, V, D, H, c, n, H2, V2)
    BY ServedFirst
  <2> QED
    BY <2>1 DEF ServedHead
<1> HIDE DEF t, j
<1>2. c.kind = "store" /\ n.kind = "store" /\ n.of = c.of /\ n.version = c.version /\ n.status = "ok"
  BY DEF Puts, Serves, Reheads
<1>3. V2[t].valid /\ V2[t].record = n.record /\ V2[t].rev = n.rev
  BY <1>1, <1>2 DEF Result
<1>4. c.record = V[t].record /\ c.version <= A[c.of].version
  BY <1>1, <1>2 DEF Calling, t, Serves
<1>5. \A b \in Activities : A[b].token # None /\ A[b].token # t => ~V[A[b].token].valid
  <2>1. Earlier(J, B, j) = {}
    BY <1>1 DEF Earlier
  <2>2. SUFFICES ASSUME NEW b \in Activities, A[b].token # None, A[b].token # t
                 PROVE  ~V[A[b].token].valid
    OBVIOUS
  <2>3. Closed(A, J, B, V, A[b].token, Earlier(J, B, j))
    BY <1>1, <1>2, <2>2 DEF Sound, Flow, OthersClosed
  <2> QED
    BY <2>1, <2>3 DEF Closed
<1>6. \A b \in Activities : Standing(A, V2, b) <=> A[b].token = t
  BY <1>1, <1>3, <1>5 DEF Standing
<1>7. Stored(A, V, D)
  BY DEF Sound
<1>8. V[t].valid => n.record = V[t].record /\ V[t].rev <= n.rev
  <2>1. SUFFICES ASSUME V[t].valid
                 PROVE  n.record = V[t].record /\ V[t].rev <= n.rev
    OBVIOUS
  <2>2. Standing(A, V, c.of)
    BY <1>1, <2>1 DEF Standing
  <2>3. V[t].record # None /\ V[t].record \in DOMAIN D /\ D[V[t].record].rev = V[t].rev
    BY <1>1, <1>7, <2>1, <2>2 DEF Stored, ValidStand, RecordsStand, RevsStand
  <2> QED
    BY <1>4, <2>3 DEF Puts
<1>9. DOMAIN D2 = {n.record} /\ D2[n.record].of = c.of /\ D2[n.record].version = c.version /\ D2[n.record].rev = n.rev
  <2>1. ASSUME NEW r \in DOMAIN D
        PROVE  r = n.record
    <3>1. PICK b \in Activities : Standing(A, V, b) /\ V[A[b].token].record = r
      BY <1>7 DEF Stored, RecordsStand
    <3>2. A[b].token = t
      BY <1>5, <3>1 DEF Standing
    <3> QED
      BY <1>8, <3>1, <3>2 DEF Standing
  <2> QED
    BY <2>1 DEF Puts
<1>10. Stored(A, V2, D2)
  <2>1. RecordsStand(A, V2, D2)
    <3>1. \A b \in Activities : Standing(A, V2, b) => V2[A[b].token].record = n.record
      BY <1>3, <1>6
    <3>2. Standing(A, V2, c.of)
      BY <1>1, <1>6
    <3> QED
      BY <1>1, <1>9, <3>1, <3>2 DEF RecordsStand
  <2>2. OneStands(A, V2)
    BY <1>6 DEF OneStands
  <2>3. RevsStand(A, V2, D2)
    <3>1. SUFFICES ASSUME NEW b \in Activities, Standing(A, V2, b)
                   PROVE  D2[V2[A[b].token].record].rev = V2[A[b].token].rev
      BY DEF RevsStand
    <3>2. A[b].token = t
      BY <1>6, <3>1
    <3> QED
      BY <1>3, <1>9, <3>2
  <2>4. ValidStand(A, V2)
    <3>1. SUFFICES ASSUME NEW b \in Activities, A[b].token # None
                   PROVE  V2[A[b].token].valid <=> V2[A[b].token].record # None
      BY DEF ValidStand
    <3>2. CASE A[b].token = t
      BY <1>3, <3>2 DEF Puts
    <3>3. CASE A[b].token # t
      BY <1>1, <1>7, <3>1, <3>3 DEF Stored, ValidStand
    <3> QED
      BY <3>2, <3>3
  <2> QED
    BY <2>1, <2>2, <2>3, <2>4 DEF Stored
<1>11. \A u, P : Closed(A, J, B, V, u, P) /\ (u = t => j \in P) => Closed(A, J, B, V2, u, P)
  <2>1. SUFFICES ASSUME NEW u, NEW P, Closed(A, J, B, V, u, P), u = t => j \in P
                 PROVE  Closed(A, J, B, V2, u, P)
    OBVIOUS
  <2>2. CASE u = t
    BY <1>1, <1>2, <2>1, <2>2 DEF Closed
  <2>3. CASE u # t
    BY <1>1, <2>1, <2>3 DEF Closed
  <2> QED
    BY <2>2, <2>3
<1>12. \A x \in J : Writer(A, J, B, x) /\ x # j => <<j, x>> \in B
  <2>1. SUFFICES ASSUME NEW x \in J, Writer(A, J, B, x), x # j
                 PROVE  <<j, x>> \in B
    OBVIOUS
  <2> QED
    BY <1>1, <2>1, WritersOrdered DEF Sound, Lives, Rows
<1>13. Flow(A, J, B, V2)
  <2>1. OthersClosed(A, J, B, V2)
    <3>1. SUFFICES ASSUME NEW x \in J, x.kind = "store" \/ x.finish = "create",
                          NEW b \in Activities, A[b].token # None, A[b].token # TokenAt(A, x)
                   PROVE  Closed(A, J, B, V2, A[b].token, Earlier(J, B, x))
      BY DEF OthersClosed
    <3>2. Closed(A, J, B, V, A[b].token, Earlier(J, B, x))
      BY <3>1 DEF Sound, Flow, OthersClosed
    <3>3. A[b].token = t => j \in Earlier(J, B, x)
      <4>1. SUFFICES ASSUME A[b].token = t
                     PROVE  <<j, x>> \in B
        BY <1>1 DEF Earlier
      <4>2. x # j
        BY <1>1, <3>1, <4>1
      <4>3. Writer(A, J, B, x)
        BY <3>1 DEF Writer
      <4> QED
        BY <1>12, <4>2, <4>3
    <3> QED
      BY <1>11, <3>2, <3>3
  <2>2. LostClosed(A, J, B, V2)
    <3>1. SUFFICES ASSUME NEW b \in Activities, A[b].token # None,
                          \A n2 \in NamedOf(A) : A[n2].token # A[b].token
                   PROVE  Closed(A, J, B, V2, A[b].token, J)
      BY DEF LostClosed
    <3>2. Closed(A, J, B, V, A[b].token, J)
      BY <3>1 DEF Sound, Flow, LostClosed
    <3> QED
      BY <1>1, <1>11, <3>2
  <2>3. ValidHas(A, J, V2)
    <3>1. SUFFICES ASSUME NEW b \in Activities, Standing(A, V2, b)
                   PROVE  A[b].named \/ HasReplace(J, b)
      BY DEF ValidHas, Standing
    <3>2. A[b].token = t
      BY <1>6, <3>1
    <3>3. CASE b = c.of
      BY <1>1, <1>2, <3>3 DEF Sound, Works, StoresHave
    <3>4. CASE b # c.of
      BY <1>1, <3>2, <3>4 DEF Sound, Works, SharersHave
    <3> QED
      BY <3>3, <3>4
  <2> QED
    BY <2>1, <2>2, <2>3 DEF Flow
<1>14. Owned(A, J, B, V2, D2)
  <2>1. \A r \in DOMAIN D2 : D2[r].of = c.of
    BY <1>9
  <2>2. \A b \in Activities : A[b].token # None /\ V2[A[b].token].valid => A[b].token = t
    BY <1>6 DEF Standing
  <2>3. NamedOwns(A, J, B, V2, D2)
    <3>1. SUFFICES ASSUME NEW m \in NamedOf(A), A[m].token # None
                   PROVE  /\ \A e \in J : e.kind = "store" /\ TokenAt(A, e) = A[m].token /\ e.of # m =>
                               \E g \in J : g.kind = "store" /\ g.of = m /\ <<e, g>> \in B
                          /\ V2[A[m].token].valid => \A r \in DOMAIN D2 : D2[r].of # m =>
                               \E g \in J : g.kind = "store" /\ g.of = m
      BY DEF NamedOwns
    <3>2. \A e \in J : e.kind = "store" /\ TokenAt(A, e) = A[m].token /\ e.of # m =>
            \E g \in J : g.kind = "store" /\ g.of = m /\ <<e, g>> \in B
      BY <3>1 DEF Sound, Owned, NamedOwns
    <3>3. ASSUME V2[A[m].token].valid, NEW r \in DOMAIN D2, D2[r].of # m
          PROVE  \E g \in J : g.kind = "store" /\ g.of = m
      <4>1. A[m].token = t
        BY <2>2, <3>1, <3>3 DEF NamedOf
      <4>2. j.of # m
        BY <1>1, <2>1, <3>3
      <4> QED
        BY <1>1, <1>2, <3>2, <4>1, <4>2
    <3> QED
      BY <3>2, <3>3
  <2>4. EndOwns(A, J, B, V2, D2)
    <3>1. SUFFICES ASSUME NEW x \in J, Deletes(A, J, B, x), x.finish = "end"
                   PROVE  /\ \A e \in J : e.kind = "store" /\ TokenAt(A, e) = TokenAt(A, x) /\ e.of # x.of /\ <<e, x>> \in B =>
                               \E g \in J : g.kind = "store" /\ g.of = x.of /\ <<e, g>> \in B /\ <<g, x>> \in B
                          /\ V2[TokenAt(A, x)].valid => \A r \in DOMAIN D2 : D2[r].of # x.of =>
                               \E g \in J : g.kind = "store" /\ g.of = x.of /\ <<g, x>> \in B
      BY DEF EndOwns
    <3>2. \A e \in J : e.kind = "store" /\ TokenAt(A, e) = TokenAt(A, x) /\ e.of # x.of /\ <<e, x>> \in B =>
            \E g \in J : g.kind = "store" /\ g.of = x.of /\ <<e, g>> \in B /\ <<g, x>> \in B
      BY <3>1 DEF Sound, Owned, EndOwns
    <3>3. ASSUME V2[TokenAt(A, x)].valid, NEW r \in DOMAIN D2, D2[r].of # x.of
          PROVE  \E g \in J : g.kind = "store" /\ g.of = x.of /\ <<g, x>> \in B
      <4>1. x.of \in Activities /\ x.kind = "delete" /\ TokenAt(A, x) # None
        BY <3>1 DEF Lined, Deletes
      <4>2. TokenAt(A, x) = t
        BY <2>2, <3>3, <4>1 DEF TokenAt
      <4>3. j.of # x.of
        BY <1>1, <2>1, <3>3
      <4>4. <<j, x>> \in B
        <5>1. Writer(A, J, B, x)
          BY <3>1 DEF Writer
        <5> QED
          BY <1>12, <4>3, <5>1
      <4> QED
        BY <1>1, <1>2, <3>2, <4>2, <4>3, <4>4
    <3> QED
      BY <3>2, <3>3
  <2>5. NewOwns(A, J, B, V2, D2)
    <3>1. SUFFICES ASSUME NEW x \in J, x.kind = "noop", x.finish = "replace", TokenAt(A, x) # None
                   PROVE  /\ \A e \in J : e.kind = "store" /\ e.of = x.of =>
                               \E g \in J : /\ g.kind = "store" /\ g.of # x.of /\ TokenAt(A, g) = TokenAt(A, x)
                                            /\ <<e, g>> \in B /\ <<g, x>> \in B
                          /\ V2[TokenAt(A, x)].valid => \A r \in DOMAIN D2 : D2[r].of = x.of =>
                               \E g \in J : g.kind = "store" /\ g.of # x.of /\ TokenAt(A, g) = TokenAt(A, x) /\ <<g, x>> \in B
      BY DEF NewOwns
    <3>2. \A e \in J : e.kind = "store" /\ e.of = x.of =>
            \E g \in J : /\ g.kind = "store" /\ g.of # x.of /\ TokenAt(A, g) = TokenAt(A, x)
                         /\ <<e, g>> \in B /\ <<g, x>> \in B
      BY <3>1 DEF Sound, Owned, NewOwns
    <3>3. ASSUME V2[TokenAt(A, x)].valid, NEW r \in DOMAIN D2, D2[r].of = x.of
          PROVE  \E g \in J : g.kind = "store" /\ g.of # x.of /\ TokenAt(A, g) = TokenAt(A, x) /\ <<g, x>> \in B
      <4>1. j.of = x.of
        BY <1>1, <2>1, <3>3
      <4> QED
        BY <1>1, <1>2, <3>2, <4>1
    <3> QED
      BY <3>2, <3>3
  <2>6. OwnerHas(A, V2, D2)
    BY <1>1, <2>1, <2>2 DEF OwnerHas
  <2> QED
    BY <2>3, <2>4, <2>5, <2>6 DEF Owned
<1>15. Follows(A, K, V2, H2)
  BY <1>1 DEF Follows
<1>16. Calls(A, J, K, V2, D2, H2)
  <2>1. Calling(A, J, K, V2, D2, n)
    BY <1>1, <1>2, <1>4, <1>8, <1>9 DEF Calling
  <2> QED
    BY <1>1, <2>1 DEF Calls
<1>17. ToldIs(J, D2, H2, w) /\ ToldOf(J, H2, w)
  BY <1>1, <1>2 DEF ToldIs, ToldOf
<1> QED
  BY <1>10, <1>13, <1>14, <1>15, <1>16, <1>17 DEF Sound

\* A delete: nothing is stored.
LEMMA DeleteDone ==
  ASSUME NEW A, NEW J, NEW B, NEW K, NEW V \in [Tokens -> TokenState], NEW D, NEW H, NEW w,
         Sound(A, J, B, K, V, D, H, w), Lined(J, B, H), Records(D),
         NEW c, NEW n, NEW H2, NEW V2, Serves(A, V, H, c, n, H2, V2),
         c.kind = "delete", n.record = c.record,
         NEW D2, DOMAIN D2 = DOMAIN D \ {c.record}
  PROVE  Sound(A, J, B, K, V2, D2, H2, w)
PROOF
<1> DEFINE t == TokenAt(A, c)
           j == Job(c)
<1>1. /\ Calling(A, J, K, V, D, c) /\ V = K /\ Ahead(H) = {} /\ Ahead(H2) = {n}
      /\ \A h \in H2 : Working(h) => h = n
      /\ j \in J /\ j.of = c.of /\ j.kind = c.kind /\ j.finish = c.finish
      /\ c.of \in Activities /\ TokenAt(A, j) = t
      /\ TokenAt(A, n) = t /\ t = A[c.of].token
      /\ t # None
      /\ V2[t] = Result(n)
      /\ \A u : u # t => V2[u] = V[u]
      /\ \A x : <<x, j>> \notin B
      /\ Writer(A, J, B, j)
      /\ V2 = [K EXCEPT ![TokenAt(A, n)] = Result(n)]
  <2>1. ServedHead(A, J, B, K, V, D, H, c, n, H2, V2)
    BY ServedFirst
  <2> QED
    BY <2>1 DEF ServedHead
<1> HIDE DEF t, j
<1>2. c.kind = "delete" /\ n.kind = "delete" /\ n.of = c.of /\ n.version = c.version /\ n.status = "ok"
      /\ n.finish = c.finish /\ c.status = "sent"
  BY DEF Serves, Reheads
<1>3. V2[t] = NoToken
  BY <1>1, <1>2 DEF Result
<1>4. /\ c.record = V[t].record /\ V[t].valid /\ c.version <= A[c.of].version
      /\ A[c.of].named \/ HasReplace(J, c.of)
  BY <1>1, <1>2 DEF Calling, t
<1>5. Stored(A, V, D) /\ Standing(A, V, c.of)
  BY <1>1, <1>4 DEF Sound, Standing
<1>6. \A b \in Activities : Standing(A, V, b) => A[b].token = t
  BY <1>1, <1>5 DEF Stored, OneStands
<1>7. DOMAIN D = {c.record}
  <2>1. RecordsStand(A, V, D)
    BY <1>5 DEF Stored
  <2>2. ASSUME NEW r \in DOMAIN D
        PROVE  r = c.record
    <3>1. PICK b \in Activities : Standing(A, V, b) /\ V[A[b].token].record = r
      BY <2>1 DEF RecordsStand
    <3> QED
      BY <1>4, <1>6, <3>1
  <2>3. c.record \in DOMAIN D
    BY <1>1, <1>4, <1>5, <2>1 DEF RecordsStand
  <2> QED
    BY <2>2, <2>3
<1>8. DOMAIN D2 = {}
  BY <1>7
<1>9. \A b \in Activities : ~Standing(A, V2, b)
  <2>1. SUFFICES ASSUME NEW b \in Activities, Standing(A, V2, b)
                 PROVE  FALSE
    OBVIOUS
  <2>2. A[b].token # t
    BY <1>3, <2>1 DEF Standing, NoToken
  <2>3. Standing(A, V, b)
    BY <1>1, <2>1, <2>2 DEF Standing
  <2> QED
    BY <1>6, <2>2, <2>3
<1>10. Stored(A, V2, D2)
  <2>1. ValidStand(A, V2)
    <3>1. SUFFICES ASSUME NEW b \in Activities, A[b].token # None
                   PROVE  V2[A[b].token].valid <=> V2[A[b].token].record # None
      BY DEF ValidStand
    <3>2. CASE A[b].token = t
      BY <1>3, <3>2 DEF NoToken
    <3>3. CASE A[b].token # t
      BY <1>1, <1>5, <3>1, <3>3 DEF Stored, ValidStand
    <3> QED
      BY <3>2, <3>3
  <2> QED
    BY <1>8, <1>9, <2>1 DEF Stored, RecordsStand, OneStands, RevsStand
<1>11. \A u, P : Closed(A, J, B, V, u, P) => Closed(A, J, B, V2, u, P)
  <2>1. SUFFICES ASSUME NEW u, NEW P, Closed(A, J, B, V, u, P)
                 PROVE  Closed(A, J, B, V2, u, P)
    OBVIOUS
  <2>2. CASE u = t
    BY <1>3, <2>1, <2>2 DEF Closed, NoToken
  <2>3. CASE u # t
    BY <1>1, <2>1, <2>3 DEF Closed
  <2> QED
    BY <2>2, <2>3
<1>12. Flow(A, J, B, V2)
  <2>1. OthersClosed(A, J, B, V2) /\ LostClosed(A, J, B, V2)
    BY <1>11 DEF Sound, Flow, OthersClosed, LostClosed
  <2>2. ValidHas(A, J, V2)
    BY <1>9 DEF ValidHas, Standing
  <2> QED
    BY <2>1, <2>2 DEF Flow
<1>13. Owned(A, J, B, V2, D2)
  <2>1. NamedOwns(A, J, B, V2, D2)
    BY <1>8 DEF Sound, Owned, NamedOwns
  <2>2. EndOwns(A, J, B, V2, D2)
    BY <1>8 DEF Sound, Owned, EndOwns
  <2>3. NewOwns(A, J, B, V2, D2)
    BY <1>8 DEF Sound, Owned, NewOwns
  <2>4. OwnerHas(A, V2, D2)
    BY <1>8 DEF OwnerHas
  <2> QED
    BY <2>1, <2>2, <2>3, <2>4 DEF Owned
<1>14. Follows(A, K, V2, H2)
  BY <1>1 DEF Follows
<1>15. Calls(A, J, K, V2, D2, H2)
  <2>1. Calling(A, J, K, V2, D2, n)
    BY <1>1, <1>2, <1>4, <1>8 DEF Calling
  <2> QED
    BY <1>1, <2>1 DEF Calls
<1>16. ToldIs(J, D2, H2, w)
  BY <1>1 DEF ToldIs
<1>17. ToldOf(J, H2, w)
  <2>1. SUFFICES ASSUME c.finish = "end"
                 PROVE  w = Nothing \/ w.of = c.of \/ Pending(J)
    BY <1>1, <1>2 DEF ToldOf
  <2>2. w = LatestOf(D) \/ Pending(J)
    BY <1>1 DEF Sound, ToldIs
  <2>3. TheRecord(A, V, D, c.record)
    <3>1. OwnerHas(A, V, D)
      BY DEF Sound, Owned
    <3> QED
      BY <1>5, <1>7, <3>1, RecordOf
  <2>4. LatestOf(D) = Content(D[c.record])
    BY <2>3 DEF TheRecord
  <2>5. D[c.record].of = c.of
    <3>1. Deletes(A, J, B, j)
      <4>1. ~Replaced(J, B, j)
        BY <1>1 DEF Replaced
      <4> QED
        BY <1>1, <1>2, <1>4, <4>1 DEF Deletes
    <3>2. EndOwns(A, J, B, V, D)
      BY DEF Sound, Owned
    <3>3. j.finish = "end" /\ V[TokenAt(A, j)].valid /\ c.record \in DOMAIN D
      BY <1>1, <1>4, <1>7, <2>1
    <3>4. SUFFICES ASSUME D[c.record].of # j.of
                   PROVE  FALSE
      BY <1>1
    <3>5. \E g \in J : <<g, j>> \in B
      BY <1>1, <3>1, <3>2, <3>3, <3>4 DEF EndOwns
    <3> QED
      BY <1>1, <3>5
  <2> QED
    BY <2>2, <2>4, <2>5 DEF Content
<1> QED
  BY <1>10, <1>12, <1>13, <1>14, <1>15, <1>16, <1>17 DEF Sound
=============================================================================
