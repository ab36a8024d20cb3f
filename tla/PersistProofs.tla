----------------------------- MODULE PersistProofs -----------------------------
(***************************************************************************)
(* Theorems about Persist, for every value of its constants: the commands  *)
(* hooked to the Activities are in the chains, in order; a token that      *)
(* stands for a record stands for one that is there; what clients were     *)
(* told is what a crash leaves; and loading brings back the latest record. *)
(* Each operation is shown to lead from a state that is fit, which has the *)
(* invariant of PersistInvariant, to one that is.                          *)
(***************************************************************************)
EXTENDS PersistInvariant

-----------------------------------------------------------------------------
(* What a call hooks.                                                      *)

\* A view agrees with what it is a view of.
LEMMA ViewFields ==
  ASSUME NEW A, NEW x \in Activities
  PROVE  Same(A, View(A), x) /\ Same(View(A), A, x)
PROOF
  BY DEF Same, View

LEMMA ViewSame ==
  ASSUME NEW A, NEW A2, \A x \in Activities : Same(A, A2, x)
  PROVE  View(A2) = View(A)
PROOF
  BY DEF Same, View

\* With nothing to be looked at, all jobs are in the chain of the Activity that
\* has the name.
LEMMA PlaceIsAll ==
  ASSUME NEW A, NEW J, NEW B, NEW K, NEW V, NEW D, NEW H, NEW w,
         Sound(A, J, B, K, V, D, H, w), Lined(J, B, H), \A h \in H : Working(h),
         NEW a \in NamedOf(A), NEW P, PlaceOf(J, B, a, P)
  PROVE  P = J
PROOF
<1>1. /\ \A x, y \in J : x = y \/ <<x, y>> \in B \/ <<y, x>> \in B
      /\ J # {} => \E d \in J : d.of \in NamedOf(A)
  BY Calm DEF Sound, Lives, Rows
<1>2. P \subseteq J
  BY DEF PlaceOf, Together
<1>3. CASE J = {}
  BY <1>2, <1>3
<1>4. CASE J # {}
  <2>1. PICK d \in J : d.of \in NamedOf(A)
    BY <1>1, <1>4
  <2>2. d.of = a
    BY <2>1 DEF Sound, Lives, OneNamed
  <2>3. d \in P
    BY <2>2 DEF PlaceOf
  <2>4. \A y \in J : y \in P
    BY <1>1, <2>3 DEF PlaceOf, Together
  <2> QED
    BY <1>2, <2>4
<1> QED
  BY <1>3, <1>4

\* A call hooks job x to Activity a.
Hooks1(J, B, H, a, x, P, J2, B2, H2) ==
  /\ Added(J, B, x, P, J2, B2) /\ PlaceOf(J, B, a, P) /\ SameCalls(H, H2)
  /\ x.of = a

\* An Activity is updated.
Updates(A, A2, a) ==
  /\ \A x \in Activities : x # a => Same(A, A2, x)
  /\ A2[a].life = A[a].life /\ A2[a].named = A[a].named
  /\ A2[a].persistent = A[a].persistent /\ A2[a].ending = A[a].ending
  /\ A2[a].intCommand = A[a].intCommand /\ A2[a].extCommand = A[a].extCommand
  /\ A[a].version \in Nat /\ A2[a].version = A[a].version + 1 /\ A2[a].token = A[a].token

LEMMA UpdateWanes ==
  ASSUME NEW A, NEW J, NEW B, NEW K, NEW V, NEW D, NEW H, NEW w,
         Sound(A, J, B, K, V, D, H, w), Lined(J, B, H), Records(D),
         NEW a \in Activities, A[a].life = "live", ~A[a].intCommand, ~A[a].extCommand,
         NEW A2, Updates(A, A2, a)
  PROVE  Sound(A2, J, B, K, V, D, H, w) /\ a \in NamedOf(A2) /\ (A2[a].persistent => A2[a].token # None)
PROOF
<1>1. A[a].named
  BY DEF Sound, Lives, NamedUnlessEnding
<1>2. a \in NamedOf(A) /\ a \in NamedOf(A2)
  BY <1>1 DEF NamedOf, Updates
<1>3. A[a].persistent => A[a].token # None
  BY <1>2 DEF Sound, Lives, PersistentHave
<1>4. Wanes(A, A2, a)
  BY DEF Wanes, Updates, Same
<1>5. EndingHas(A2, J)
  <2>1. EndingHas(A, J)
    BY DEF Sound, Works
  <2>2. NamedOf(A2) = NamedOf(A)
    BY DEF NamedOf, Updates, Same
  <2>3. \A n \in NamedOf(A) : A2[n].persistent = A[n].persistent /\ A2[n].ending = A[n].ending
    BY DEF NamedOf, Updates, Same
  <2> QED
    BY <2>1, <2>2, <2>3 DEF EndingHas
<1>6. Sound(A2, J, B, K, V, D, H, w)
  BY <1>4, <1>5, Waned
<1> QED
  BY <1>2, <1>3, <1>6 DEF Updates

\* The store of an update is hooked.
LEMMA UpdateHooked ==
  ASSUME NEW A, NEW J, NEW B, NEW K, NEW V, NEW D, NEW H, NEW w,
         Sound(A, J, B, K, V, D, H, w), Lined(J, B, H), \A h \in H : Working(h),
         NEW a \in NamedOf(A), ~A[a].extCommand,
         NEW x, NEW P, NEW J2, NEW B2, NEW H2, Hooks1(J, B, H, a, x, P, J2, B2, H2),
         x.finish = "update" \/ (x.finish = "create" /\ J = {}),
         \/ x.kind = "store" /\ A[a].token # None
         \/ x.kind = "noop" /\ ~A[a].persistent
  PROVE  Sound(A, J2, B2, K, V, D, H2, w)
PROOF
<1>1. P = J
  BY PlaceIsAll DEF Hooks1
<1>2. a \in Activities /\ A[a].life = "live" /\ A[a].named
  BY DEF NamedOf
<1>3. \A c \in J : c.of = a => c.finish # "end" /\ c.finish # "replace"
  BY <1>2 DEF Sound, Works, EndIsExternal, ReplaceLeaves
<1>4. Joinable(A, J, B, x, P, J2, B2)
  BY <1>1, <1>2, <1>3 DEF Joinable, Hooks1, TokenAt, Deletes
<1> QED
  BY <1>4, JobAdded DEF Hooks1

\* Activity a is told to end, by a client.
Ends(A, A2, a) ==
  /\ \A x \in Activities : x # a => Same(A, A2, x)
  /\ A2[a].life = A[a].life /\ A2[a].named = A[a].named
  /\ A2[a].persistent = A[a].persistent /\ A2[a].ending
  /\ A2[a].intCommand = A[a].intCommand /\ A2[a].extCommand
  /\ A2[a].version = A[a].version /\ A2[a].token = A[a].token

\* It keeps its name till the delete is done, if it is stored.
LEMMA EndWanes ==
  ASSUME NEW A, NEW J, NEW B, NEW K, NEW V, NEW D, NEW H, NEW w,
         Sound(A, J, B, K, V, D, H, w), Lined(J, B, H), Records(D),
         NEW a \in Activities, A[a].life = "live",
         \A x \in Activities : A[x].version \in Nat,
         NEW A2, Ends(A, A2, a),
         A[a].persistent => ~A[a].named \/ \E c \in J : c.of = a /\ c.finish = "end"
  PROVE  Sound(A2, J, B, K, V, D, H, w)
PROOF
<1>1. Wanes(A, A2, a)
  BY DEF Wanes, Ends, Same
<1>2. EndingHas(A2, J)
  <2>1. EndingHas(A, J)
    BY DEF Sound, Works
  <2>2. SUFFICES ASSUME NEW n \in NamedOf(A2), A2[n].persistent, A2[n].ending
                 PROVE  \E c \in J : c.of = n /\ c.finish = "end"
    BY DEF EndingHas
  <2>3. CASE n = a
    BY <2>2, <2>3 DEF NamedOf, Ends
  <2>4. CASE n # a
    <3>1. Same(A, A2, n) /\ n \in Activities
      BY <2>4 DEF NamedOf, Ends
    <3>2. n \in NamedOf(A) /\ A[n].persistent /\ A[n].ending
      BY <2>2, <3>1 DEF NamedOf, Same
    <3> QED
      BY <2>1, <3>2 DEF EndingHas
  <2> QED
    BY <2>3, <2>4
<1> QED
  BY <1>1, <1>2, Waned

\* The end of an Activity is hooked.
EndJob(A, J, a, x) ==
  /\ A[a].life = "live" /\ A[a].extCommand
  /\ \A c \in J : c.of = a => c.finish # "end"
  /\ x.finish = "end" /\ (x.kind = "delete" \/ (x.kind = "noop" /\ ~A[a].persistent))

\* The noop or the delete of an end is hooked.
LEMMA EndHooked ==
  ASSUME NEW A, NEW J, NEW B, NEW K, NEW V, NEW D, NEW H, NEW w,
         Sound(A, J, B, K, V, D, H, w), Lined(J, B, H), \A h \in H : Working(h),
         NEW a \in Activities,
         NEW x, NEW P, NEW J2, NEW B2, NEW H2, Hooks1(J, B, H, a, x, P, J2, B2, H2),
         EndJob(A, J, a, x)
  PROVE  Sound(A, J2, B2, K, V, D, H2, w)
PROOF
<1>1. A[a].named => P = J
  <2>1. SUFFICES ASSUME A[a].named
                 PROVE  P = J
    OBVIOUS
  <2>2. a \in NamedOf(A)
    BY <2>1 DEF NamedOf, EndJob
  <2> QED
    BY <2>2, PlaceIsAll DEF Hooks1
<1>2. \A c \in J : c.of = a => c \in P
  BY DEF Hooks1, PlaceOf
<1>3. Deletes(A, J2, B2, x) => A[a].named
  <2>1. SUFFICES ASSUME Deletes(A, J2, B2, x), ~A[a].named
                 PROVE  FALSE
    OBVIOUS
  <2>2. PICK d \in J2 : d.of = a /\ d.finish = "replace"
    BY <2>1 DEF Deletes, HasReplace, Hooks1
  <2>3. d \in J
    BY <2>2 DEF Hooks1, Added, EndJob
  <2>4. <<d, x>> \in B2
    BY <1>2, <2>2, <2>3 DEF Hooks1, Added, EndJob
  <2> QED
    BY <2>1, <2>2, <2>4 DEF Deletes, Replaced, Hooks1
<1>4. Joinable(A, J, B, x, P, J2, B2)
  BY <1>1, <1>2, <1>3 DEF Joinable, Hooks1, EndJob
<1> QED
  BY <1>4, JobAdded DEF Hooks1

\* The end of an Activity that is stored, and has a token.
LEMMA StoredEnds ==
  ASSUME NEW A, NEW J, NEW B, NEW K, NEW V, NEW D, NEW H, NEW w,
         Sound(A, J, B, K, V, D, H, w), Lined(J, B, H), Records(D), \A h \in H : Working(h),
         NEW a \in Activities, A[a].life = "live", ~A[a].extCommand,
         \A x \in Activities : A[x].version \in Nat,
         NEW A2, Ends(A, A2, a),
         NEW x, NEW P, NEW J2, NEW B2, NEW H2, Hooks1(J, B, H, a, x, P, J2, B2, H2),
         x.finish = "end", x.kind = "delete" \/ (x.kind = "noop" /\ ~A[a].persistent),
         Lined(J2, B2, H2)
  PROVE  Sound(A2, J2, B2, K, V, D, H2, w)
PROOF
<1>1. \A c \in J : c.of = a => c.finish # "end"
  BY DEF Sound, Works, EndIsExternal
<1>2. x \in J2 /\ x.of = a
  BY DEF Hooks1, Added
<1>3. CASE A[a].persistent /\ A[a].named
  <2>1. PICK A1 : A1 = [y \in Activities |->
          [life |-> A[y].life, named |-> A[y].named, persistent |-> A[y].persistent,
           ending |-> A[y].ending, intCommand |-> A[y].intCommand,
           extCommand |-> IF y = a THEN TRUE ELSE A[y].extCommand,
           version |-> A[y].version, token |-> A[y].token]]
    OBVIOUS
  <2>2. \A y \in Activities :
          /\ A1[y].life = A[y].life /\ A1[y].named = A[y].named
          /\ A1[y].persistent = A[y].persistent /\ A1[y].ending = A[y].ending
          /\ A1[y].intCommand = A[y].intCommand
          /\ A1[y].extCommand = IF y = a THEN TRUE ELSE A[y].extCommand
          /\ A1[y].version = A[y].version /\ A1[y].token = A[y].token
    BY <2>1
  <2>3. Wanes(A, A1, a)
    BY <2>2 DEF Wanes
  <2>4. EndingHas(A1, J)
    <3>1. EndingHas(A, J)
      BY DEF Sound, Works
    <3>2. NamedOf(A1) = NamedOf(A)
      BY <2>2 DEF NamedOf
    <3>3. \A n \in NamedOf(A) : A1[n].persistent = A[n].persistent /\ A1[n].ending = A[n].ending
      BY <2>2 DEF NamedOf
    <3> QED
      BY <3>1, <3>2, <3>3 DEF EndingHas
  <2>5. Sound(A1, J, B, K, V, D, H, w)
    BY <2>3, <2>4, Waned
  <2>6. A1[a].life = "live" /\ A1[a].extCommand /\ A1[a].persistent = A[a].persistent
    BY <2>2
  <2>7. Sound(A1, J2, B2, K, V, D, H2, w)
    <3>1. EndJob(A1, J, a, x)
      BY <1>1, <2>6 DEF EndJob
    <3> QED
      BY <2>5, <3>1, EndHooked
  <2>8. Ends(A1, A2, a)
    <3>1. \A y \in Activities : y # a => Same(A1, A2, y)
      <4>1. SUFFICES ASSUME NEW y \in Activities, y # a
                     PROVE  Same(A1, A2, y)
        OBVIOUS
      <4>2. Same(A, A2, y)
        BY <4>1 DEF Ends
      <4>3. /\ A1[y].life = A[y].life /\ A1[y].named = A[y].named
            /\ A1[y].persistent = A[y].persistent /\ A1[y].ending = A[y].ending
            /\ A1[y].intCommand = A[y].intCommand
            /\ A1[y].extCommand = A[y].extCommand
            /\ A1[y].version = A[y].version /\ A1[y].token = A[y].token
        BY <2>2, <4>1
      <4> QED
        BY <4>2, <4>3 DEF Same
    <3>2. /\ A2[a].life = A1[a].life /\ A2[a].named = A1[a].named
          /\ A2[a].persistent = A1[a].persistent /\ A2[a].ending
          /\ A2[a].intCommand = A1[a].intCommand /\ A2[a].extCommand
          /\ A2[a].version = A1[a].version /\ A2[a].token = A1[a].token
      BY <2>2 DEF Ends
    <3> QED
      BY <3>1, <3>2 DEF Ends
  <2>9. \A y \in Activities : A1[y].version \in Nat
    BY <2>2
  <2>10. \E c \in J2 : c.of = a /\ c.finish = "end"
    BY <1>2
  <2> QED
    BY <2>6, <2>7, <2>8, <2>9, <2>10, EndWanes
<1>4. CASE ~(A[a].persistent /\ A[a].named)
  <2>1. Sound(A2, J, B, K, V, D, H, w)
    BY <1>4, EndWanes
  <2>2. A2[a].life = "live" /\ A2[a].extCommand /\ A2[a].persistent = A[a].persistent
    BY DEF Ends
  <2>3. EndJob(A2, J, a, x)
    BY <1>1, <2>2 DEF EndJob
  <2> QED
    BY <2>1, <2>3, EndHooked
<1> QED
  BY <1>3, <1>4

-----------------------------------------------------------------------------
(* The state, seen as the invariant sees it.                               *)

\* The end of an Activity that is stored, but has given its token up.
LEMMA DetachedEnds ==
  ASSUME NEW A, NEW J, NEW B, NEW K, NEW V, NEW D, NEW H, NEW w,
         Sound(A, J, B, K, V, D, H, w), Lined(J, B, H), Records(D), \A h \in H : Working(h),
         NEW a \in Activities, A[a].life = "live", ~A[a].extCommand,
         A[a].persistent, A[a].token = None,
         \A x \in Activities : A[x].version \in Nat,
         NEW A1, Ends(A, A1, a), NEW t, Unissued(A1, t), V[t] = NoToken,
         NEW A2, Gains(A1, A2, a, t),
         NEW x, NEW P, NEW J2, NEW B2, NEW H2, Hooks1(J, B, H, a, x, P, J2, B2, H2),
         x.finish = "end", x.kind = "delete"
  PROVE  Sound(A2, J2, B2, K, V, D, H2, w)
PROOF
<1>1. ~A[a].named
  <2>1. SUFFICES ASSUME A[a].named
                 PROVE  FALSE
    OBVIOUS
  <2>2. a \in NamedOf(A)
    BY <2>1 DEF NamedOf
  <2> QED
    BY <2>2 DEF Sound, Lives, PersistentHave
<1>2. Sound(A1, J, B, K, V, D, H, w)
  BY <1>1, EndWanes
<1>3. /\ A1[a].life = "live" /\ A1[a].persistent /\ A1[a].token = None /\ ~A1[a].named /\ A1[a].extCommand
  BY <1>1 DEF Ends
<1>4. \A c \in J : c.of = a => c.finish # "end"
  BY DEF Sound, Works, EndIsExternal
<1>5. \A c \in J : c.of = a => c.kind # "delete"
  BY <1>4 DEF Sound, Works, DeletesEnd, TokenAt
<1>6. Sound(A2, J, B, K, V, D, H, w)
  BY <1>2, <1>3, <1>5, Gained
<1>7. EndJob(A2, J, a, x)
  BY <1>3, <1>4 DEF EndJob, Gains
<1> QED
  BY <1>6, <1>7, EndHooked

\* Only a live Activity has something hooked.
Bare(A) == \A a \in Activities : A[a].life # "live" => A[a].hooked = << >>

\* The invariant, of the Activities, the chains, the tokens, what was told and
\* the records.
Fit(A, Q, K, w, D) == Good(View(A), Jobs(Q), Order(Q), K, D, HeadsOf(Q), w)

\* With the tokens V.
SoundIn(A, Q, K, V, w, D) == Sound(View(A), Jobs(Q), Order(Q), K, V, D, HeadsOf(Q), w)

\* The state that s is, is typed, and fit if this one is.
Leads(A, Q, K, w, D, s, ok) == \E A2, Q2, K2, w2 :
  /\ s = State(A2, Q2, K2, w2)
  /\ Typed(A2, Q2, K2) /\ Bare(A2)
  /\ ok /\ Fit(A, Q, K, w, D) => Fit(A2, Q2, K2, w2, D)

\* What it is to be fit.
LEMMA FitSound ==
  ASSUME NEW A, NEW Q, NEW K, NEW w, NEW D
  PROVE  Fit(A, Q, K, w, D) <=> \E V \in [Tokens -> TokenState] : SoundIn(A, Q, K, V, w, D)
PROOF
  BY DEF Fit, Good, SoundIn

\* A command that is appended is a job that is hooked.
LEMMA AddsHooks ==
  ASSUME NEW A, NEW Q, NEW K, Typed(A, Q, K), NEW R, NEW c, NEW P, NEW a,
         Adds(Q, R, c, P), PlaceOf(Jobs(Q), Order(Q), a, P), c.status = "waiting", c.of = a
  PROVE  Hooks1(Jobs(Q), Order(Q), HeadsOf(Q), a, Job(c), P, Jobs(R), Order(R), HeadsOf(R))
PROOF
<1>1. Added(Jobs(Q), Order(Q), Job(c), P, Jobs(R), Order(R))
  BY DEF Added, Adds, PlaceOf, Together
<1>2. SameCalls(HeadsOf(Q), HeadsOf(R))
  BY DEF SameCalls, Adds, Working
<1>3. Job(c).of = a
  BY JobFields
<1> QED
  BY <1>1, <1>2, <1>3 DEF Hooks1

LEMMA BareHook ==
  ASSUME NEW A \in [Activities -> ActivityState], NEW c \in Command, Bare(A), A[c.of].life = "live"
  PROVE  Bare(WithHook(A, c))
PROOF
<1>1. \A x \in Activities : WithHook(A, c)[x].life = A[x].life
  BY WithHookFields
<1>2. \A x \in Activities : x # c.of => WithHook(A, c)[x].hooked = A[x].hooked
  BY WithHookFields
<1> QED
  BY <1>1, <1>2 DEF Bare

LEMMA ViewHook ==
  ASSUME NEW A \in [Activities -> ActivityState], NEW c \in Command
  PROVE  View(WithHook(A, c)) = View(A)
PROOF
<1>1. \A x \in Activities : Same(A, WithHook(A, c), x)
  BY WithHookFields DEF Same
<1> QED
  BY <1>1, ViewSame

\* SetAct.
WithRecord(A, a, r) == [A EXCEPT ![a] = r]

\* Setting the record of an Activity.
IsSet(A, Q, K, w, a, r, A2) ==
  /\ SetAct(State(A, Q, K, w), a, r) = State(A2, Q, K, w)
  /\ A2 \in [Activities -> ActivityState]
  /\ A2[a] = r
  /\ \A x \in Activities : x # a => A2[x] = A[x]
  /\ Typed(A2, Q, K) /\ Bare(A2)

LEMMA RecordSet ==
  ASSUME NEW A, NEW Q, NEW K, NEW w, Typed(A, Q, K), NEW a \in Activities,
         NEW r \in ActivityState, r.hooked = A[a].hooked, Bare(A),
         r.life = "live" \/ r.hooked = << >>
  PROVE  IsSet(A, Q, K, w, a, r, WithRecord(A, a, r))
PROOF
<1>1. A \in [Activities -> ActivityState] /\ K \in [Tokens -> TokenState]
  BY DEF Typed
<1>2. SetAct(State(A, Q, K, w), a, r) = State(WithRecord(A, a, r), Q, K, w)
  BY DEF SetAct, State, WithRecord
<1>3. /\ WithRecord(A, a, r) \in [Activities -> ActivityState]
      /\ WithRecord(A, a, r)[a] = r
      /\ \A x \in Activities : x # a => WithRecord(A, a, r)[x] = A[x]
  BY <1>1 DEF WithRecord
<1>4. \A x \in Activities : WithRecord(A, a, r)[x].hooked = A[x].hooked
  BY <1>3
<1>5. Typed(WithRecord(A, a, r), Q, K)
  BY <1>1, <1>3, <1>4, TypedSame
<1>6. Bare(WithRecord(A, a, r))
  BY <1>3 DEF Bare
<1> QED
  BY <1>2, <1>3, <1>5, <1>6 DEF IsSet

LEMMA VersionsNat ==
  ASSUME NEW A \in [Activities -> ActivityState], PersistAssumption
  PROVE  \A x \in Activities : View(A)[x].version \in Nat /\ View(A)[x].version = A[x].version
PROOF
  BY DEF View, ActivityState, PersistAssumption

\* What a command that is hooked leaves to be shown.
LEMMA GotLeads ==
  ASSUME NEW A, NEW Q, NEW K, NEW w, NEW D, NEW ok, NEW a \in Activities,
         NEW A1 \in [Activities -> ActivityState], Bare(A1), A1[a].life = "live",
         NEW K1, NEW kind, NEW finish, NEW c, NEW R, NEW P, NEW s,
         Got(Q, K, w, a, A1, K1, kind, finish, c, R, P, s),
         ok /\ Fit(A, Q, K, w, D) =>
           \E V \in [Tokens -> TokenState] :
             Sound(View(A1), Jobs(R), Order(R), K1, V, D, HeadsOf(R), w)
  PROVE  Leads(A, Q, K, w, D, s, ok)
PROOF
<1>1. c \in Command /\ c.of = a
  BY DEF Got, IsNew
<1>2. Bare(WithHook(A1, c))
  BY <1>1, BareHook
<1>3. View(WithHook(A1, c)) = View(A1)
  BY <1>1, ViewHook
<1>4. ok /\ Fit(A, Q, K, w, D) => Fit(WithHook(A1, c), R, K1, w, D)
  BY <1>3 DEF Fit, Good
<1> QED
  BY <1>2, <1>4 DEF Leads, Got

\* And a command that is finished at once.
LEMMA FinishLeads ==
  ASSUME NEW A, NEW Q, NEW K, NEW w, NEW D, NEW ok,
         NEW A1, Typed(A1, Q, K), Bare(A1), NEW a \in Activities,
         NEW finish \in {"create", "update", "end", "replace"}, NEW c, IsNew(c, "noop", a, finish),
         \A A2, w2 : ok /\ Fit(A, Q, K, w, D) /\ Finished(A1, w, c, A2, w2) => Fit(A2, Q, K, w2, D)
  PROVE  Leads(A, Q, K, w, D, Finish(State(A1, Q, K, w), c), ok)
PROOF
<1>1. c \in Command /\ c.of = a /\ c.finish = finish
  BY DEF IsNew
<1>2. PICK A2, w2 : Finish(State(A1, Q, K, w), c) = State(A2, Q, K, w2) /\ Finished(A1, w, c, A2, w2)
  BY <1>1, FinishDoes
<1>3. A1 \in [Activities -> ActivityState] /\ K \in [Tokens -> TokenState]
  BY DEF Typed
<1>4. A2 \in [Activities -> ActivityState] /\ \A x \in Activities : A2[x].hooked = A1[x].hooked
  <2>1. Finished(A1, w, c, A2, w2)
    BY <1>2
  <2> QED
    BY <1>1, <1>3, <2>1, FinishedTyped
<1>5. Typed(A2, Q, K)
  BY <1>3, <1>4, TypedSame
<1>6. Bare(A2)
  <2>1. \A x \in Activities : A2[x].life = A1[x].life
    <3>1. CASE A2 = A1
      BY <3>1
    <3>2. CASE A2 = Unnamed(A1, c.of)
      <4>1. A2[a].life = A1[a].life /\ \A x \in Activities : x # a => A2[x] = A1[x]
        BY <1>1, <1>3, <3>2, UnnamedFields
      <4> QED
        BY <4>1
    <3>3. CASE A2 = WithToken(A1, c.of, None)
      BY <1>1, <1>3, <3>3, WithTokenFields DEF Kept
    <3> QED
      BY <1>2, <3>1, <3>2, <3>3 DEF Finished
  <2> QED
    BY <1>4, <2>1 DEF Bare
<1> QED
  BY <1>2, <1>5, <1>6 DEF Leads

\* A state in which a call is served.
Serving(A, Q, K, D) ==
  /\ Typed(A, Q, K) /\ Bare(A) /\ Records(D) /\ \A h \in HeadsOf(Q) : Working(h)
  /\ PersistAssumption

LEMMA ServingIs ==
  ASSUME NEW A, NEW Q, NEW K, NEW D, Serving(A, Q, K, D)
  PROVE  /\ Typed(A, Q, K) /\ Bare(A) /\ Records(D)
         /\ A \in [Activities -> ActivityState] /\ K \in [Tokens -> TokenState]
         /\ Lined(Jobs(Q), Order(Q), HeadsOf(Q)) /\ \A h \in HeadsOf(Q) : Working(h)
         /\ \A x \in Activities : A[x].version \in Nat
         /\ \A x \in Activities : View(A)[x].version \in Nat
PROOF
<1>1. Typed(A, Q, K) /\ Bare(A) /\ Records(D) /\ PersistAssumption
      /\ A \in [Activities -> ActivityState] /\ K \in [Tokens -> TokenState]
  BY DEF Serving, Typed
<1>2. Lined(Jobs(Q), Order(Q), HeadsOf(Q))
  BY <1>1, ChainsLined
<1>3. \A x \in Activities : View(A)[x].version \in Nat /\ View(A)[x].version = A[x].version
  BY <1>1, VersionsNat
<1> QED
  BY <1>1, <1>2, <1>3 DEF Serving

-----------------------------------------------------------------------------
(* The calls.                                                              *)

\* complete with restart.
LEMMA UpdateLeads ==
  ASSUME NEW A, NEW Q, NEW K, NEW w, NEW D, Serving(A, Q, K, D), NEW a \in Activities,
         A[a].life = "live", ~A[a].extCommand, A[a].version < MaxVersion
  PROVE  Leads(A, Q, K, w, D,
               EnsureCompletion(SetAct(State(A, Q, K, w), a, [A[a] EXCEPT !.version = @ + 1]),
                                a, "store", "update"),
               ~A[a].intCommand)
PROOF
<1> DEFINE r == [A[a] EXCEPT !.version = @ + 1]
           ok == ~A[a].intCommand
<1>1. /\ Typed(A, Q, K) /\ Bare(A) /\ Records(D)
      /\ A \in [Activities -> ActivityState] /\ K \in [Tokens -> TokenState]
      /\ Lined(Jobs(Q), Order(Q), HeadsOf(Q)) /\ \A h \in HeadsOf(Q) : Working(h)
      /\ \A x \in Activities : A[x].version \in Nat
  BY ServingIs
<1>2. /\ r \in ActivityState /\ r.hooked = A[a].hooked /\ r.life = "live"
      /\ r.named = A[a].named /\ r.persistent = A[a].persistent /\ r.ending = A[a].ending
      /\ r.intCommand = A[a].intCommand /\ r.extCommand = A[a].extCommand
      /\ r.version = A[a].version + 1 /\ r.token = A[a].token
  <2>1. PICK q \in ActivityState : q = A[a]
    BY <1>1
  <2>2. r = [q EXCEPT !.version = @ + 1]
    BY <2>1
  <2>3. q.version + 1 \in 0..MaxVersion
    BY <1>1, <2>1 DEF ActivityState, Serving, PersistAssumption
  <2>4. r \in ActivityState
    BY <2>2, <2>3 DEF ActivityState
  <2>5. /\ r.hooked = q.hooked /\ r.life = q.life
        /\ r.named = q.named /\ r.persistent = q.persistent /\ r.ending = q.ending
        /\ r.intCommand = q.intCommand /\ r.extCommand = q.extCommand
        /\ r.version = q.version + 1 /\ r.token = q.token
    BY <2>2 DEF ActivityState
  <2> QED
    BY <2>1, <2>4, <2>5
<1> HIDE DEF r
<1>3. PICK A1 : A1 = WithRecord(A, a, r)
  OBVIOUS
<1>4. /\ SetAct(State(A, Q, K, w), a, r) = State(A1, Q, K, w)
      /\ A1 \in [Activities -> ActivityState]
      /\ A1[a] = r
      /\ \A x \in Activities : x # a => A1[x] = A[x]
      /\ Typed(A1, Q, K) /\ Bare(A1)
  <2>1. IsSet(A, Q, K, w, a, r, WithRecord(A, a, r))
    BY <1>1, <1>2, RecordSet
  <2> QED
    BY <1>3, <2>1 DEF IsSet
<1>5. Updates(View(A), View(A1), a)
  <2>1. \A x \in Activities : x # a => Same(View(A), View(A1), x)
    BY <1>4 DEF Same, View
  <2> QED
    BY <1>1, <1>2, <1>4, <2>1 DEF Updates, View
<1>6. ASSUME NEW V, SoundIn(A, Q, K, V, w, D), ok
      PROVE  /\ Sound(View(A1), Jobs(Q), Order(Q), K, V, D, HeadsOf(Q), w)
             /\ a \in NamedOf(View(A1)) /\ (A1[a].persistent => A1[a].token # None)
  <2>1. View(A)[a].life = "live" /\ ~View(A)[a].intCommand /\ ~View(A)[a].extCommand
    BY <1>6 DEF View
  <2>2. Sound(View(A), Jobs(Q), Order(Q), K, V, D, HeadsOf(Q), w)
    BY <1>6 DEF SoundIn
  <2>3. /\ Sound(View(A1), Jobs(Q), Order(Q), K, V, D, HeadsOf(Q), w)
        /\ a \in NamedOf(View(A1)) /\ (View(A1)[a].persistent => View(A1)[a].token # None)
    BY <1>1, <1>5, <2>1, <2>2, UpdateWanes
  <2> QED
    BY <2>3 DEF View
<1>7. ASSUME NEW V, SoundIn(A, Q, K, V, w, D), ok, NEW kind \in {"store", "noop"},
             kind = "store" <=> A1[a].persistent,
             NEW c, NEW R, NEW P, NEW s, Got(Q, K, w, a, A1, K, kind, "update", c, R, P, s)
      PROVE  Sound(View(A1), Jobs(R), Order(R), K, V, D, HeadsOf(R), w)
  <2>1. Hooks1(Jobs(Q), Order(Q), HeadsOf(Q), a, Job(c), P, Jobs(R), Order(R), HeadsOf(R))
    BY <1>1, <1>7, AddsHooks DEF Got, IsNew
  <2>2. Job(c).finish = "update" /\ Job(c).kind = kind
    BY <1>7, JobFields DEF Got, IsNew
  <2>3. ~View(A1)[a].extCommand /\ View(A1)[a].persistent = A1[a].persistent /\ View(A1)[a].token = A1[a].token
    BY <1>2, <1>4 DEF View
  <2>4. /\ Sound(View(A1), Jobs(Q), Order(Q), K, V, D, HeadsOf(Q), w)
        /\ a \in NamedOf(View(A1)) /\ (A1[a].persistent => A1[a].token # None)
    BY <1>6, <1>7
  <2>5. \/ Job(c).kind = "store" /\ View(A1)[a].token # None
        \/ Job(c).kind = "noop" /\ ~View(A1)[a].persistent
    BY <1>7, <2>2, <2>3, <2>4
  <2> QED
    BY <1>1, <2>1, <2>2, <2>3, <2>4, <2>5, UpdateHooked
<1> DEFINE s == EnsureCompletion(State(A1, Q, K, w), a, "store", "update")
<1>8. Ensured(A1, Q, K, w, a, "store", "update", s)
  BY <1>4, CompletionEnsured
<1>9. A1[a].life = "live"
  BY <1>2, <1>4
<1>10. Leads(A, Q, K, w, D, s, ok)
  <2> HIDE DEF s
  <2>1. CASE /\ A1[a].persistent
             /\ \E A2, K2, c, R, P : TokenFor(A1, K, a, A2, K2) /\ Got(Q, K, w, a, A2, K2, "store", "update", c, R, P, s)
    <3>1. PICK A2, K2, c, R, P : TokenFor(A1, K, a, A2, K2) /\ Got(Q, K, w, a, A2, K2, "store", "update", c, R, P, s)
      BY <2>1
    <3>2. CASE A1[a].token # None
      <4>1. A2 = A1 /\ K2 = K
        BY <3>1, <3>2 DEF TokenFor
      <4>2. Got(Q, K, w, a, A1, K, "store", "update", c, R, P, s)
        BY <3>1, <4>1
      <4>3. ok /\ Fit(A, Q, K, w, D) =>
              \E V \in [Tokens -> TokenState] : Sound(View(A1), Jobs(R), Order(R), K, V, D, HeadsOf(R), w)
        <5>1. SUFFICES ASSUME ok, Fit(A, Q, K, w, D)
                       PROVE  \E V \in [Tokens -> TokenState] : Sound(View(A1), Jobs(R), Order(R), K, V, D, HeadsOf(R), w)
          OBVIOUS
        <5>2. PICK V \in [Tokens -> TokenState] : SoundIn(A, Q, K, V, w, D)
          BY <5>1, FitSound
        <5> QED
          BY <1>7, <2>1, <4>2, <5>1, <5>2
      <4> QED
        BY <1>4, <1>9, <4>2, <4>3, GotLeads
    <3>3. CASE A1[a].token = None
      <4>1. PICK t : Unissued(A1, t) /\ A2 = WithToken(A1, a, t)
        BY <3>1, <3>3 DEF TokenFor
      <4>2. /\ A2 \in [Activities -> ActivityState]
            /\ \A x \in Activities : A2[x].hooked = A1[x].hooked /\ A2[x].life = A1[x].life
        BY <1>4, <4>1, WithTokenFields DEF Kept, Unissued
      <4>3. Bare(A2) /\ A2[a].life = "live"
        BY <1>4, <1>9, <4>2 DEF Bare
      <4>4. ~(ok /\ Fit(A, Q, K, w, D))
        <5>1. SUFFICES ASSUME ok, Fit(A, Q, K, w, D)
                       PROVE  FALSE
          OBVIOUS
        <5>2. PICK V \in [Tokens -> TokenState] : SoundIn(A, Q, K, V, w, D)
          BY <5>1, FitSound
        <5> QED
          BY <1>6, <2>1, <3>3, <5>1, <5>2
      <4>5. Got(Q, K, w, a, A2, K2, "store", "update", c, R, P, s)
        BY <3>1
      <4> QED
        BY <4>2, <4>3, <4>4, <4>5, GotLeads
    <3> QED
      BY <3>2, <3>3
  <2>2. CASE /\ ~A1[a].persistent
             /\ \E c, R, P : Got(Q, K, w, a, A1, K, "noop", "update", c, R, P, s)
    <3>1. PICK c, R, P : Got(Q, K, w, a, A1, K, "noop", "update", c, R, P, s)
      BY <2>2
    <3>2. ok /\ Fit(A, Q, K, w, D) =>
            \E V \in [Tokens -> TokenState] : Sound(View(A1), Jobs(R), Order(R), K, V, D, HeadsOf(R), w)
      <4>1. SUFFICES ASSUME ok, Fit(A, Q, K, w, D)
                     PROVE  \E V \in [Tokens -> TokenState] : Sound(View(A1), Jobs(R), Order(R), K, V, D, HeadsOf(R), w)
        OBVIOUS
      <4>2. PICK V \in [Tokens -> TokenState] : SoundIn(A, Q, K, V, w, D)
        BY <4>1, FitSound
      <4> QED
        BY <1>7, <2>2, <3>1, <4>1, <4>2
    <3> QED
      BY <1>4, <1>9, <3>1, <3>2, GotLeads
  <2>3. CASE \E c : s = Finish(State(A1, Q, K, w), c) /\ IsNew(c, "noop", a, "update")
    <3>1. PICK c : s = Finish(State(A1, Q, K, w), c) /\ IsNew(c, "noop", a, "update")
      BY <2>3
    <3>2. ASSUME NEW A2, NEW w2, ok, Fit(A, Q, K, w, D), Finished(A1, w, c, A2, w2)
          PROVE  Fit(A2, Q, K, w2, D)
      <4>1. A2 = A1 /\ w2 = w
        BY <3>1, <3>2 DEF Finished, IsNew, ToldStored
      <4>2. PICK V \in [Tokens -> TokenState] : SoundIn(A, Q, K, V, w, D)
        BY <3>2, FitSound
      <4> QED
        BY <1>6, <3>2, <4>1, <4>2, FitSound DEF SoundIn
    <3>3. Leads(A, Q, K, w, D, Finish(State(A1, Q, K, w), c), ok)
      BY <1>4, <3>1, <3>2, FinishLeads
    <3> QED
      BY <3>1, <3>3
  <2> QED
    BY <1>8, <2>1, <2>2, <2>3 DEF Ensured
<1> QED
  BY <1>4, <1>10 DEF r

LEMMA TokenForFields ==
  ASSUME NEW A \in [Activities -> ActivityState], NEW K, NEW a \in Activities, NEW A2, NEW K2,
         TokenFor(A, K, a, A2, K2), Bare(A), A[a].life = "live"
  PROVE  /\ A2 \in [Activities -> ActivityState] /\ Bare(A2) /\ A2[a].life = "live"
PROOF
<1>1. CASE A2 = A
  BY <1>1
<1>2. CASE A2 # A
  <2>1. PICK t : Unissued(A, t) /\ A2 = WithToken(A, a, t)
    BY <1>2 DEF TokenFor
  <2>2. /\ A2 \in [Activities -> ActivityState]
        /\ \A x \in Activities : A2[x].hooked = A[x].hooked /\ A2[x].life = A[x].life
    BY <2>1, WithTokenFields DEF Kept, Unissued
  <2> QED
    BY <2>2 DEF Bare
<1> QED
  BY <1>1, <1>2

\* The new token, if there was none.
LEMMA TokenForNew ==
  ASSUME NEW A, NEW K, NEW a, NEW A2, NEW K2, TokenFor(A, K, a, A2, K2), A[a].token = None
  PROVE  \E t : Unissued(A, t) /\ A2 = WithToken(A, a, t) /\ K2 = [K EXCEPT ![t] = NoToken]
PROOF
  BY DEF TokenFor

LEMMA ReadyRecord ==
  ASSUME NEW A, NEW Q, NEW K, NEW w, NEW D, Serving(A, Q, K, D), NEW a \in Activities,
         NEW r \in ActivityState, r.hooked = A[a].hooked, r.life = "live" \/ r.hooked = << >>
  PROVE  IsSet(A, Q, K, w, a, r, WithRecord(A, a, r))
PROOF
<1>1. Typed(A, Q, K) /\ Bare(A)
  BY ServingIs
<1> QED
  BY <1>1, RecordSet

\* create, of a name nobody has.
LEMMA CreateLeads ==
  ASSUME NEW A, NEW Q, NEW K, NEW w, NEW D, Serving(A, Q, K, D), NEW a \in Activities,
         NEW p \in BOOLEAN, A[a].life = "new", NamedOf(A) = {}
  PROVE  Leads(A, Q, K, w, D,
               EnsureCompletion(SetAct(State(A, Q, K, w), a,
                                       [A[a] EXCEPT !.life = "live", !.named = TRUE, !.persistent = p]),
                                a, "store", "create"),
               TRUE)
PROOF
<1> DEFINE r == [A[a] EXCEPT !.life = "live", !.named = TRUE, !.persistent = p]
<1>1. /\ Typed(A, Q, K) /\ Bare(A) /\ Records(D)
      /\ A \in [Activities -> ActivityState] /\ K \in [Tokens -> TokenState]
      /\ Lined(Jobs(Q), Order(Q), HeadsOf(Q)) /\ \A h \in HeadsOf(Q) : Working(h)
  BY ServingIs
<1>2. /\ r \in ActivityState /\ r.hooked = A[a].hooked /\ r.life = "live"
      /\ r.named /\ r.persistent = p /\ r.ending = A[a].ending
      /\ r.intCommand = A[a].intCommand /\ r.extCommand = A[a].extCommand
      /\ r.token = A[a].token
  <2>1. PICK q \in ActivityState : q = A[a]
    BY <1>1
  <2>2. r = [q EXCEPT !.life = "live", !.named = TRUE, !.persistent = p]
    BY <2>1
  <2>3. r \in ActivityState
    BY <2>2 DEF ActivityState
  <2>4. /\ r.hooked = q.hooked /\ r.life = "live" /\ r.named /\ r.persistent = p
        /\ r.ending = q.ending /\ r.intCommand = q.intCommand /\ r.extCommand = q.extCommand
        /\ r.token = q.token
    BY <2>2 DEF ActivityState
  <2> QED
    BY <2>1, <2>3, <2>4
<1> HIDE DEF r
<1>3. PICK A1 : A1 = WithRecord(A, a, r)
  OBVIOUS
<1>4. /\ SetAct(State(A, Q, K, w), a, r) = State(A1, Q, K, w)
      /\ A1 \in [Activities -> ActivityState]
      /\ A1[a] = r
      /\ \A x \in Activities : x # a => A1[x] = A[x]
      /\ Typed(A1, Q, K) /\ Bare(A1)
  <2>1. IsSet(A, Q, K, w, a, r, WithRecord(A, a, r))
    BY <1>2, ReadyRecord
  <2> QED
    BY <1>3, <2>1 DEF IsSet
<1>5. NamedOf(View(A)) = {}
  BY DEF NamedOf, View
<1>6. ASSUME NEW V, SoundIn(A, Q, K, V, w, D)
      PROVE  ~A[a].ending /\ ~A[a].intCommand /\ ~A[a].extCommand /\ A[a].token = None
  <2>1. Unborn(View(A))
    BY <1>6 DEF SoundIn, Sound, Lives
  <2> QED
    BY <2>1 DEF Unborn, View
<1>7. ASSUME NEW V \in [Tokens -> TokenState], NEW K2 \in [Tokens -> TokenState],
             Sound(View(A), Jobs(Q), Order(Q), K2, V, D, HeadsOf(Q), w),
             ~A[a].ending, ~A[a].intCommand, ~A[a].extCommand,
             NEW A2, NEW t, p <=> t # None, A2[a].token = t,
             \A x \in Activities : Kept(A1[x], A2[x]) /\ (x # a => A2[x].token = A1[x].token),
             t # None => Unissued(A, t) /\ V[t] = NoToken
      PROVE  /\ Jobs(Q) = {} /\ w = Nothing /\ Sound(View(A2), Jobs(Q), Order(Q), K2, V, D, HeadsOf(Q), w)
             /\ a \in NamedOf(View(A2))
  <2>1. Begins(View(A), View(A2), a, t)
    BY <1>2, <1>4, <1>7 DEF Begins, View, Kept
  <2>2. \A x \in Activities : x # a => Same(View(A), View(A2), x)
    <3>1. SUFFICES ASSUME NEW x \in Activities, x # a
                   PROVE  Same(View(A), View(A2), x)
      OBVIOUS
    <3>2. A1[x] = A[x] /\ Kept(A1[x], A2[x]) /\ A2[x].token = A1[x].token
      BY <1>4, <1>7, <3>1
    <3> QED
      BY <3>2 DEF Same, View, Kept
  <2>3. t # None => Unissued(View(A), t) /\ V[t] = NoToken
    BY <1>7 DEF Unissued, View
  <2> QED
    BY <1>1, <1>5, <1>7, <2>1, <2>2, <2>3, Begun
<1> DEFINE s == EnsureCompletion(State(A1, Q, K, w), a, "store", "create")
<1>8. Ensured(A1, Q, K, w, a, "store", "create", s)
  BY <1>4, CompletionEnsured
<1>9. A1[a].life = "live" /\ A1[a].persistent = p
  BY <1>2, <1>4
<1>10. ASSUME NEW V, SoundIn(A, Q, K, V, w, D), V \in [Tokens -> TokenState], ~p
       PROVE  /\ Jobs(Q) = {} /\ w = Nothing /\ Sound(View(A1), Jobs(Q), Order(Q), K, V, D, HeadsOf(Q), w)
  <2>1. A1[a].token = None /\ ~A[a].ending /\ ~A[a].intCommand /\ ~A[a].extCommand
    BY <1>2, <1>4, <1>6, <1>10
  <2>2. \A x \in Activities : Kept(A1[x], A1[x])
    BY DEF Kept
  <2> QED
    BY <1>1, <1>7, <1>10, <2>1, <2>2 DEF SoundIn
<1>11. Leads(A, Q, K, w, D, s, TRUE)
  <2> HIDE DEF s
  <2>1. CASE /\ A1[a].persistent
             /\ \E A2, K2, c, R, P : TokenFor(A1, K, a, A2, K2) /\ Got(Q, K, w, a, A2, K2, "store", "create", c, R, P, s)
    <3>1. PICK A2, K2, c, R, P : TokenFor(A1, K, a, A2, K2) /\ Got(Q, K, w, a, A2, K2, "store", "create", c, R, P, s)
      BY <2>1
    <3>2. A2 \in [Activities -> ActivityState] /\ Bare(A2) /\ A2[a].life = "live"
      BY <1>4, <1>9, <3>1, TokenForFields
    <3>3. SUFFICES ASSUME Fit(A, Q, K, w, D)
                   PROVE  \E V \in [Tokens -> TokenState] : Sound(View(A2), Jobs(R), Order(R), K2, V, D, HeadsOf(R), w)
      BY <3>1, <3>2, GotLeads
    <3>4. PICK V0 \in [Tokens -> TokenState] : SoundIn(A, Q, K, V0, w, D)
      BY <3>3, FitSound
    <3>5. ~A[a].ending /\ ~A[a].intCommand /\ ~A[a].extCommand /\ A[a].token = None /\ A1[a].token = None
      BY <1>2, <1>4, <1>6, <3>4
    <3>6. PICK t : Unissued(A1, t) /\ A2 = WithToken(A1, a, t) /\ K2 = [K EXCEPT ![t] = NoToken]
      BY <3>1, <3>5, TokenForNew
    <3>7. Unissued(A, t) /\ Unissued(View(A), t)
      <4>1. \A x \in Activities : A[x].token = A1[x].token
        BY <1>4, <3>5
      <4> QED
        BY <3>6, <4>1 DEF Unissued, View
    <3>8. PICK V : V = [V0 EXCEPT ![t] = NoToken]
      OBVIOUS
    <3>9. Sound(View(A), Jobs(Q), Order(Q), K2, V, D, HeadsOf(Q), w) /\ V \in [Tokens -> TokenState] /\ V[t] = NoToken
      <4>1. Sound(View(A), Jobs(Q), Order(Q), K, V0, D, HeadsOf(Q), w)
        BY <3>4 DEF SoundIn
      <4>2. ResetSound(View(A), Jobs(Q), Order(Q), [K EXCEPT ![t] = NoToken], [V0 EXCEPT ![t] = NoToken], D, HeadsOf(Q), w, t)
        BY <1>1, <3>7, <4>1, ResetToken
      <4> QED
        BY <3>6, <3>8, <4>2 DEF ResetSound
    <3>10. K2 \in [Tokens -> TokenState]
      BY <1>1, <3>6 DEF NoToken, TokenState
    <3>11. \A x \in Activities : Kept(A1[x], A2[x]) /\ A2[x].token = IF x = a THEN t ELSE A1[x].token
      BY <1>4, <3>6, WithTokenFields DEF Unissued
    <3>12. p /\ t # None
      BY <1>9, <2>1, <3>6 DEF Unissued
    <3>13. /\ Jobs(Q) = {} /\ Sound(View(A2), Jobs(Q), Order(Q), K2, V, D, HeadsOf(Q), w)
           /\ a \in NamedOf(View(A2))
      BY <1>7, <3>5, <3>7, <3>9, <3>10, <3>11, <3>12
    <3>14. Hooks1(Jobs(Q), Order(Q), HeadsOf(Q), a, Job(c), P, Jobs(R), Order(R), HeadsOf(R))
      BY <1>1, <3>1, AddsHooks DEF Got, IsNew
    <3>15. Job(c).finish = "create" /\ Job(c).kind = "store"
      BY <3>1, JobFields DEF Got, IsNew
    <3>16. ~View(A2)[a].extCommand /\ View(A2)[a].token # None
      BY <1>2, <1>4, <3>5, <3>11, <3>12 DEF View, Kept
    <3>17. Sound(View(A2), Jobs(R), Order(R), K2, V, D, HeadsOf(R), w)
      BY <1>1, <3>13, <3>14, <3>15, <3>16, UpdateHooked
    <3> QED
      BY <3>9, <3>17
  <2>2. CASE /\ ~A1[a].persistent /\ ~\A x \in Jobs(Q) : x.of # a
             /\ \E c, R, P : Got(Q, K, w, a, A1, K, "noop", "create", c, R, P, s)
    <3>1. PICK c, R, P : Got(Q, K, w, a, A1, K, "noop", "create", c, R, P, s)
      BY <2>2
    <3>2. ~Fit(A, Q, K, w, D)
      <4>1. SUFFICES ASSUME Fit(A, Q, K, w, D)
                     PROVE  FALSE
        OBVIOUS
      <4>2. PICK V \in [Tokens -> TokenState] : SoundIn(A, Q, K, V, w, D)
        BY <4>1, FitSound
      <4> QED
        BY <1>9, <1>10, <2>2, <4>2
    <3> QED
      BY <1>4, <1>9, <3>1, <3>2, GotLeads
  <2>3. CASE ~A1[a].persistent /\ \E c : s = Finish(State(A1, Q, K, w), c) /\ IsNew(c, "noop", a, "create")
    <3>1. PICK c : s = Finish(State(A1, Q, K, w), c) /\ IsNew(c, "noop", a, "create")
      BY <2>3
    <3>2. ASSUME NEW A2, NEW w2, Fit(A, Q, K, w, D), Finished(A1, w, c, A2, w2)
          PROVE  Fit(A2, Q, K, w2, D)
      <4>1. A2 = A1 /\ w2 = Nothing
        BY <3>1, <3>2 DEF Finished, IsNew, ToldStored
      <4>2. PICK V \in [Tokens -> TokenState] : SoundIn(A, Q, K, V, w, D)
        BY <3>2, FitSound
      <4>3. w = Nothing /\ Sound(View(A1), Jobs(Q), Order(Q), K, V, D, HeadsOf(Q), w)
        BY <1>9, <1>10, <2>3, <4>2
      <4> QED
        BY <4>1, <4>3, FitSound DEF SoundIn
    <3>3. Leads(A, Q, K, w, D, Finish(State(A1, Q, K, w), c), TRUE)
      BY <1>4, <3>1, <3>2, FinishLeads
    <3> QED
      BY <3>1, <3>3
  <2> QED
    BY <1>8, <2>1, <2>2, <2>3 DEF Ensured
<1> QED
  BY <1>4, <1>11 DEF r

\* stop, cancel and complete.
LEMMA EndLeads ==
  ASSUME NEW A, NEW Q, NEW K, NEW w, NEW D, Serving(A, Q, K, D), NEW a \in Activities,
         A[a].life = "live", ~A[a].extCommand
  PROVE  Leads(A, Q, K, w, D,
               EnsureCompletion(SetAct(State(A, Q, K, w), a,
                                       [A[a] EXCEPT !.extCommand = TRUE, !.ending = TRUE]),
                                a, "delete", "end"),
               TRUE)
PROOF
<1> DEFINE r == [A[a] EXCEPT !.extCommand = TRUE, !.ending = TRUE]
<1>1. /\ Typed(A, Q, K) /\ Bare(A) /\ Records(D)
      /\ A \in [Activities -> ActivityState] /\ K \in [Tokens -> TokenState]
      /\ Lined(Jobs(Q), Order(Q), HeadsOf(Q)) /\ \A h \in HeadsOf(Q) : Working(h)
      /\ \A x \in Activities : View(A)[x].version \in Nat
  BY ServingIs
<1>2. /\ r \in ActivityState /\ r.hooked = A[a].hooked /\ r.life = "live"
      /\ r.named = A[a].named /\ r.persistent = A[a].persistent /\ r.ending
      /\ r.intCommand = A[a].intCommand /\ r.extCommand
      /\ r.version = A[a].version /\ r.token = A[a].token
  <2>1. PICK q \in ActivityState : q = A[a]
    BY <1>1
  <2>2. r = [q EXCEPT !.extCommand = TRUE, !.ending = TRUE]
    BY <2>1
  <2>3. r \in ActivityState
    BY <2>2 DEF ActivityState
  <2>4. /\ r.hooked = q.hooked /\ r.life = q.life /\ r.named = q.named /\ r.persistent = q.persistent
        /\ r.ending /\ r.intCommand = q.intCommand /\ r.extCommand
        /\ r.version = q.version /\ r.token = q.token
    BY <2>2 DEF ActivityState
  <2> QED
    BY <2>1, <2>3, <2>4
<1> HIDE DEF r
<1>3. PICK A1 : A1 = WithRecord(A, a, r)
  OBVIOUS
<1>4. /\ SetAct(State(A, Q, K, w), a, r) = State(A1, Q, K, w)
      /\ A1 \in [Activities -> ActivityState]
      /\ A1[a] = r
      /\ \A x \in Activities : x # a => A1[x] = A[x]
      /\ Typed(A1, Q, K) /\ Bare(A1)
  <2>1. IsSet(A, Q, K, w, a, r, WithRecord(A, a, r))
    BY <1>2, ReadyRecord
  <2> QED
    BY <1>3, <2>1 DEF IsSet
<1>5. Ends(View(A), View(A1), a)
  <2>1. \A x \in Activities : x # a => Same(View(A), View(A1), x)
    BY <1>4 DEF Same, View
  <2> QED
    BY <1>2, <1>4, <2>1 DEF Ends, View
<1>6. View(A)[a].life = "live" /\ ~View(A)[a].extCommand /\ View(A)[a].persistent = A[a].persistent
      /\ View(A)[a].token = A[a].token /\ View(A)[a].named = A[a].named
  BY DEF View
<1>7. A1[a].life = "live" /\ A1[a].persistent = A[a].persistent /\ A1[a].token = A[a].token
  BY <1>2, <1>4
<1>8. ASSUME NEW V, SoundIn(A, Q, K, V, w, D), NEW kind \in {"delete", "noop"},
             kind = "noop" => ~A[a].persistent,
             NEW A2, NEW K2, NEW c, NEW R, NEW P, NEW s, Got(Q, K, w, a, A2, K2, kind, "end", c, R, P, s)
      PROVE  Sound(View(A1), Jobs(R), Order(R), K, V, D, HeadsOf(R), w)
  <2>1. Hooks1(Jobs(Q), Order(Q), HeadsOf(Q), a, Job(c), P, Jobs(R), Order(R), HeadsOf(R))
    BY <1>1, <1>8, AddsHooks DEF Got, IsNew
  <2>2. Job(c).finish = "end" /\ (Job(c).kind = "delete" \/ (Job(c).kind = "noop" /\ ~View(A)[a].persistent))
    BY <1>6, <1>8, JobFields DEF Got, IsNew
  <2>3. Lined(Jobs(R), Order(R), HeadsOf(R))
    BY <1>8, ChainsLined DEF Got
  <2>4. Sound(View(A), Jobs(Q), Order(Q), K, V, D, HeadsOf(Q), w)
    BY <1>8 DEF SoundIn
  <2> QED
    BY <1>1, <1>5, <1>6, <2>1, <2>2, <2>3, <2>4, StoredEnds
<1> DEFINE s == EnsureCompletion(State(A1, Q, K, w), a, "delete", "end")
<1>9. Ensured(A1, Q, K, w, a, "delete", "end", s)
  BY <1>4, CompletionEnsured
<1>10. Leads(A, Q, K, w, D, s, TRUE)
  <2> HIDE DEF s
  <2>1. CASE /\ A1[a].persistent
             /\ \E A2, K2, c, R, P : TokenFor(A1, K, a, A2, K2) /\ Got(Q, K, w, a, A2, K2, "delete", "end", c, R, P, s)
    <3>1. PICK A2, K2, c, R, P : TokenFor(A1, K, a, A2, K2) /\ Got(Q, K, w, a, A2, K2, "delete", "end", c, R, P, s)
      BY <2>1
    <3>2. A2 \in [Activities -> ActivityState] /\ Bare(A2) /\ A2[a].life = "live"
      BY <1>4, <1>7, <3>1, TokenForFields
    <3>3. SUFFICES ASSUME Fit(A, Q, K, w, D)
                   PROVE  \E V \in [Tokens -> TokenState] : Sound(View(A2), Jobs(R), Order(R), K2, V, D, HeadsOf(R), w)
      BY <3>1, <3>2, GotLeads
    <3>4. PICK V0 \in [Tokens -> TokenState] : SoundIn(A, Q, K, V0, w, D)
      BY <3>3, FitSound
    <3>5. CASE A1[a].token # None
      <4>1. A2 = A1 /\ K2 = K
        BY <3>1, <3>5 DEF TokenFor
      <4>2. Sound(View(A1), Jobs(R), Order(R), K, V0, D, HeadsOf(R), w)
        BY <1>8, <3>1, <3>4
      <4> QED
        BY <3>4, <4>1, <4>2
    <3>6. CASE A1[a].token = None
      <4>1. PICK t : Unissued(A1, t) /\ A2 = WithToken(A1, a, t) /\ K2 = [K EXCEPT ![t] = NoToken]
        BY <3>1, <3>6, TokenForNew
      <4>2. Unissued(View(A), t) /\ Unissued(View(A1), t)
        <5>1. \A x \in Activities : A[x].token = A1[x].token
          BY <1>4, <1>7
        <5> QED
          BY <4>1, <5>1 DEF Unissued, View
      <4>3. PICK V : V = [V0 EXCEPT ![t] = NoToken]
        OBVIOUS
      <4>4. Sound(View(A), Jobs(Q), Order(Q), K2, V, D, HeadsOf(Q), w) /\ V \in [Tokens -> TokenState] /\ V[t] = NoToken
        <5>1. Sound(View(A), Jobs(Q), Order(Q), K, V0, D, HeadsOf(Q), w)
          BY <3>4 DEF SoundIn
        <5>2. ResetSound(View(A), Jobs(Q), Order(Q), [K EXCEPT ![t] = NoToken], [V0 EXCEPT ![t] = NoToken], D, HeadsOf(Q), w, t)
          BY <1>1, <4>2, <5>1, ResetToken
        <5> QED
          BY <4>1, <4>3, <5>2 DEF ResetSound
      <4>5. \A x \in Activities : Kept(A1[x], A2[x]) /\ A2[x].token = IF x = a THEN t ELSE A1[x].token
        BY <1>4, <4>1, WithTokenFields DEF Unissued
      <4>6. Gains(View(A1), View(A2), a, t)
        BY <4>5 DEF Gains, View, Kept
      <4>7. Hooks1(Jobs(Q), Order(Q), HeadsOf(Q), a, Job(c), P, Jobs(R), Order(R), HeadsOf(R))
        BY <1>1, <3>1, AddsHooks DEF Got, IsNew
      <4>8. Job(c).finish = "end" /\ Job(c).kind = "delete"
        BY <3>1, JobFields DEF Got, IsNew
      <4>9. View(A)[a].persistent /\ View(A)[a].token = None
        BY <1>6, <1>7, <2>1, <3>6
      <4>10. Sound(View(A2), Jobs(R), Order(R), K2, V, D, HeadsOf(R), w)
        BY <1>1, <1>5, <1>6, <4>2, <4>4, <4>6, <4>7, <4>8, <4>9, DetachedEnds
      <4> QED
        BY <4>4, <4>10
    <3> QED
      BY <3>5, <3>6
  <2>2. CASE /\ ~A1[a].persistent
             /\ \E c, R, P : Got(Q, K, w, a, A1, K, "noop", "end", c, R, P, s)
    <3>1. PICK c, R, P : Got(Q, K, w, a, A1, K, "noop", "end", c, R, P, s)
      BY <2>2
    <3>2. SUFFICES ASSUME Fit(A, Q, K, w, D)
                   PROVE  \E V \in [Tokens -> TokenState] : Sound(View(A1), Jobs(R), Order(R), K, V, D, HeadsOf(R), w)
      BY <1>4, <1>7, <3>1, GotLeads
    <3>3. PICK V \in [Tokens -> TokenState] : SoundIn(A, Q, K, V, w, D)
      BY <3>2, FitSound
    <3> QED
      BY <1>7, <1>8, <2>2, <3>1, <3>3
  <2>3. CASE /\ ~A1[a].persistent /\ \A x \in Jobs(Q) : x.of # a
             /\ \E c : s = Finish(State(A1, Q, K, w), c) /\ IsNew(c, "noop", a, "end")
    <3>1. PICK c : s = Finish(State(A1, Q, K, w), c) /\ IsNew(c, "noop", a, "end")
      BY <2>3
    <3>2. ASSUME NEW A2, NEW w2, Fit(A, Q, K, w, D), Finished(A1, w, c, A2, w2)
          PROVE  Fit(A2, Q, K, w2, D)
      <4>1. A2 = Unnamed(A1, a) /\ w2 = ToldEnded(w, c) /\ c.of = a
        BY <3>1, <3>2 DEF Finished, IsNew
      <4>2. PICK V \in [Tokens -> TokenState] : SoundIn(A, Q, K, V, w, D)
        BY <3>2, FitSound
      <4>3. /\ \A x \in Activities : x # a => A2[x] = A1[x]
            /\ A2[a].life = A1[a].life /\ A2[a].named = FALSE
            /\ A2[a].persistent = A1[a].persistent
            /\ A2[a].intCommand = A1[a].intCommand
            /\ A2[a].extCommand = A1[a].extCommand
            /\ A2[a].version = A1[a].version
            /\ A2[a].token = A1[a].token
        <5>1. A2 \in [Activities -> ActivityState] /\ ~A2[a].named
          BY <1>4, <4>1, UnnamedFields
        <5>2. A2[a].named = FALSE
          BY <5>1 DEF ActivityState
        <5> QED
          BY <1>4, <4>1, <5>2, UnnamedFields
      <4>4. Expires(View(A), View(A2), a)
        <5>1. \A x \in Activities : x # a => Same(View(A), View(A2), x)
          BY <1>4, <4>3 DEF Same, View
        <5> QED
          BY <1>2, <1>4, <4>3, <5>1 DEF Expires, View
      <4>5. View(A)[a].named \in BOOLEAN /\ ~View(A)[a].persistent
        BY <1>1, <1>6, <1>7, <2>3 DEF ActivityState
      <4>6. Sound(View(A), Jobs(Q), Order(Q), K, V, D, HeadsOf(Q), w)
        BY <4>2 DEF SoundIn
      <4>7. Sound(View(A2), Jobs(Q), Order(Q), K, V, D, HeadsOf(Q), ToldEnded(w, c))
        BY <1>1, <1>6, <2>3, <4>1, <4>4, <4>5, <4>6, Expired
      <4> QED
        BY <4>1, <4>2, <4>7, FitSound DEF SoundIn
    <3>3. Leads(A, Q, K, w, D, Finish(State(A1, Q, K, w), c), TRUE)
      BY <1>4, <3>1, <3>2, FinishLeads
    <3> QED
      BY <3>1, <3>3
  <2> QED
    BY <1>9, <2>1, <2>2, <2>3 DEF Ensured
<1> QED
  BY <1>4, <1>10 DEF r

\* CallbackFailed.
LEMMA CallbackLeads ==
  ASSUME NEW A, NEW Q, NEW K, NEW w, NEW D, Serving(A, Q, K, D), NEW a \in Activities,
         A[a].life = "live"
  PROVE  Leads(A, Q, K, w, D,
               SetAct(State(A, Q, K, w), a, [A[a] EXCEPT !.intCommand = TRUE, !.ending = TRUE]),
               ~A[a].persistent)
PROOF
<1> DEFINE r == [A[a] EXCEPT !.intCommand = TRUE, !.ending = TRUE]
<1>1. /\ Typed(A, Q, K) /\ Bare(A) /\ Records(D)
      /\ A \in [Activities -> ActivityState] /\ K \in [Tokens -> TokenState]
      /\ Lined(Jobs(Q), Order(Q), HeadsOf(Q)) /\ \A h \in HeadsOf(Q) : Working(h)
      /\ \A x \in Activities : View(A)[x].version \in Nat
  BY ServingIs
<1>2. /\ r \in ActivityState /\ r.hooked = A[a].hooked /\ r.life = "live"
      /\ r.named = A[a].named /\ r.persistent = A[a].persistent /\ r.ending
      /\ r.intCommand /\ r.extCommand = A[a].extCommand
      /\ r.version = A[a].version /\ r.token = A[a].token
  <2>1. PICK q \in ActivityState : q = A[a]
    BY <1>1
  <2>2. r = [q EXCEPT !.intCommand = TRUE, !.ending = TRUE]
    BY <2>1
  <2>3. r \in ActivityState
    BY <2>2 DEF ActivityState
  <2>4. /\ r.hooked = q.hooked /\ r.life = q.life /\ r.named = q.named /\ r.persistent = q.persistent
        /\ r.ending /\ r.extCommand = q.extCommand /\ r.intCommand
        /\ r.version = q.version /\ r.token = q.token
    BY <2>2 DEF ActivityState
  <2> QED
    BY <2>1, <2>3, <2>4
<1> HIDE DEF r
<1>3. PICK A1 : A1 = WithRecord(A, a, r)
  OBVIOUS
<1>4. /\ SetAct(State(A, Q, K, w), a, r) = State(A1, Q, K, w)
      /\ A1 \in [Activities -> ActivityState]
      /\ A1[a] = r
      /\ \A x \in Activities : x # a => A1[x] = A[x]
      /\ Typed(A1, Q, K) /\ Bare(A1)
  <2>1. IsSet(A, Q, K, w, a, r, WithRecord(A, a, r))
    BY <1>2, ReadyRecord
  <2> QED
    BY <1>3, <2>1 DEF IsSet
<1>5. ASSUME ~A[a].persistent, Fit(A, Q, K, w, D)
      PROVE  Fit(A1, Q, K, w, D)
  <2>1. PICK V \in [Tokens -> TokenState] : SoundIn(A, Q, K, V, w, D)
    BY <1>5, FitSound
  <2>2. Sound(View(A), Jobs(Q), Order(Q), K, V, D, HeadsOf(Q), w)
    BY <2>1 DEF SoundIn
  <2>3. /\ \A x \in Activities : x # a => Same(View(A), View(A1), x)
        /\ View(A1)[a].life = View(A)[a].life /\ View(A1)[a].named = View(A)[a].named
        /\ View(A1)[a].persistent = View(A)[a].persistent /\ View(A1)[a].intCommand
        /\ View(A1)[a].extCommand = View(A)[a].extCommand
        /\ View(A1)[a].version = View(A)[a].version /\ View(A1)[a].token = View(A)[a].token
        /\ ~View(A1)[a].persistent /\ View(A)[a].life = "live"
    BY <1>2, <1>4, <1>5 DEF Same, View
  <2>4. Wanes(View(A), View(A1), a)
    BY <1>1, <2>3 DEF Wanes, Same
  <2>5. EndingHas(View(A1), Jobs(Q))
    <3>1. EndingHas(View(A), Jobs(Q))
      BY <2>2 DEF Sound, Works
    <3>2. SUFFICES ASSUME NEW n \in NamedOf(View(A1)), View(A1)[n].persistent, View(A1)[n].ending
                   PROVE  \E c \in Jobs(Q) : c.of = n /\ c.finish = "end"
      BY DEF EndingHas
    <3>3. n # a /\ n \in Activities
      BY <2>3, <3>2 DEF NamedOf
    <3>4. Same(View(A), View(A1), n)
      BY <2>3, <3>3
    <3>5. n \in NamedOf(View(A)) /\ View(A)[n].persistent /\ View(A)[n].ending
      BY <3>2, <3>3, <3>4 DEF NamedOf, Same
    <3> QED
      BY <3>1, <3>5 DEF EndingHas
  <2>6. Sound(View(A1), Jobs(Q), Order(Q), K, V, D, HeadsOf(Q), w)
    BY <1>1, <2>2, <2>3, <2>4, <2>5, Waned
  <2> QED
    BY <2>1, <2>6, FitSound DEF SoundIn
<1>6. Leads(A, Q, K, w, D, SetAct(State(A, Q, K, w), a, r), ~A[a].persistent)
  BY <1>4, <1>5 DEF Leads
<1> QED
  BY <1>6 DEF r

\* An Activity that is not there.
BlankIs(r, life) ==
  /\ r \in ActivityState /\ r.hooked = << >> /\ r.life = life
  /\ r.named = FALSE /\ r.persistent = FALSE /\ r.ending = FALSE
  /\ r.intCommand = FALSE /\ r.extCommand = FALSE /\ r.token = None

LEMMA BlankFields ==
  ASSUME PersistAssumption
  PROVE  BlankIs(Blank, "new") /\ BlankIs([Blank EXCEPT !.life = "gone"], "gone")
PROOF
<1>1. << >> \in Seq(Ids) /\ 0 \in 0..MaxVersion
  BY DEF PersistAssumption
<1>2. Blank \in ActivityState
  BY <1>1 DEF Blank, ActivityState
<1>3. [Blank EXCEPT !.life = "gone"] \in ActivityState
  BY <1>2 DEF ActivityState
<1>4. /\ Blank.hooked = << >> /\ Blank.life = "new"
      /\ Blank.named = FALSE /\ Blank.persistent = FALSE /\ Blank.ending = FALSE
      /\ Blank.intCommand = FALSE /\ Blank.extCommand = FALSE /\ Blank.token = None
  BY DEF Blank
<1>5. LET r == [Blank EXCEPT !.life = "gone"]
      IN /\ r.hooked = << >> /\ r.life = "gone"
         /\ r.named = FALSE /\ r.persistent = FALSE /\ r.ending = FALSE
         /\ r.intCommand = FALSE /\ r.extCommand = FALSE /\ r.token = None
  BY DEF Blank
<1> QED
  BY <1>2, <1>3, <1>4, <1>5 DEF BlankIs

\* The end of EndActivity.
LEMMA ReleaseLeads ==
  ASSUME NEW A, NEW Q, NEW K, NEW w, NEW D, Serving(A, Q, K, D), NEW a \in Activities,
         A[a].life = "live", A[a].ending, A[a].hooked = << >>
  PROVE  Leads(A, Q, K, w, D, SetAct(State(A, Q, K, w), a, [Blank EXCEPT !.life = "gone"]), TRUE)
PROOF
<1> DEFINE r == [Blank EXCEPT !.life = "gone"]
<1>1. /\ Typed(A, Q, K) /\ Bare(A) /\ Records(D)
      /\ A \in [Activities -> ActivityState] /\ K \in [Tokens -> TokenState]
      /\ Lined(Jobs(Q), Order(Q), HeadsOf(Q)) /\ \A h \in HeadsOf(Q) : Working(h)
  BY ServingIs
<1>2. /\ r \in ActivityState /\ r.hooked = << >> /\ r.life = "gone"
      /\ ~r.named /\ ~r.persistent /\ ~r.ending /\ ~r.intCommand /\ ~r.extCommand /\ r.token = None
  BY BlankFields DEF Serving, BlankIs, r
<1> HIDE DEF r
<1>3. PICK A1 : A1 = WithRecord(A, a, r)
  OBVIOUS
<1>4. /\ SetAct(State(A, Q, K, w), a, r) = State(A1, Q, K, w)
      /\ A1 \in [Activities -> ActivityState]
      /\ A1[a] = r
      /\ \A x \in Activities : x # a => A1[x] = A[x]
      /\ Typed(A1, Q, K) /\ Bare(A1)
  <2>1. IsSet(A, Q, K, w, a, r, WithRecord(A, a, r))
    BY <1>2, ReadyRecord
  <2> QED
    BY <1>3, <2>1 DEF IsSet
<1>5. ASSUME Fit(A, Q, K, w, D)
      PROVE  Fit(A1, Q, K, w, D)
  <2>1. PICK V \in [Tokens -> TokenState] : SoundIn(A, Q, K, V, w, D)
    BY <1>5, FitSound
  <2>2. Sound(View(A), Jobs(Q), Order(Q), K, V, D, HeadsOf(Q), w)
    BY <2>1 DEF SoundIn
  <2>3. Goes(View(A), View(A1), a)
    <3>1. \A x \in Activities : x # a => Same(View(A), View(A1), x)
      BY <1>4 DEF Same, View
    <3> QED
      BY <1>2, <1>4, <3>1 DEF Goes, View
  <2>4. \A c \in Jobs(Q) : c.of # a
    <3>1. Chained(Q) /\ HookedIn(A, Q) /\ Hooks(A)
      BY <1>1, TypedHooks DEF Typed
    <3> QED
      BY <3>1, HookedJobs
  <2>5. View(A)[a].life = "live" /\ View(A)[a].ending
    BY DEF View
  <2>6. Sound(View(A1), Jobs(Q), Order(Q), K, V, D, HeadsOf(Q), w)
    BY <1>1, <2>2, <2>3, <2>4, <2>5, Released
  <2> QED
    BY <2>1, <2>6, FitSound DEF SoundIn
<1>6. Leads(A, Q, K, w, D, SetAct(State(A, Q, K, w), a, r), TRUE)
  BY <1>4, <1>5 DEF Leads
<1> QED
  BY <1>6 DEF r

\* What two commands that are hooked leave to be shown.
LEMMA BothLeads ==
  ASSUME NEW A, NEW Q, NEW K, NEW w, NEW D, NEW old, NEW a \in Activities, NEW b \in Activities,
         NEW A1 \in [Activities -> ActivityState], Bare(A1), A1[a].life = "live", A1[b].life = "live",
         NEW K1, NEW kind, NEW finish, NEW kind2, NEW finish2,
         NEW c, NEW d, NEW R, NEW S, NEW P, NEW s,
         BothGot(Q, K1, w, old, A1, kind, a, finish, kind2, b, finish2, c, d, R, S, P, s),
         Fit(A, Q, K, w, D) =>
           \E V \in [Tokens -> TokenState] :
             Sound(View(A1), Jobs(S), Order(S), K1, V, D, HeadsOf(S), w)
  PROVE  Leads(A, Q, K, w, D, s, TRUE)
PROOF
<1>1. c \in Command /\ c.of = a /\ d \in Command /\ d.of = b
  BY DEF BothGot, IsNew
<1>2. PICK A2 : A2 = WithHook(A1, c)
  OBVIOUS
<1>3. Bare(A2) /\ A2 \in [Activities -> ActivityState] /\ A2[b].life = "live" /\ View(A2) = View(A1)
  BY <1>1, <1>2, BareHook, WithHookFields, ViewHook
<1>4. Bare(WithHook(A2, d)) /\ View(WithHook(A2, d)) = View(A1)
  BY <1>1, <1>3, BareHook, ViewHook
<1>5. Fit(A, Q, K, w, D) => Fit(WithHook(A2, d), S, K1, w, D)
  BY <1>4 DEF Fit, Good
<1>6. s = State(WithHook(A2, d), S, K1, w) /\ Typed(WithHook(A2, d), S, K1)
  BY <1>2 DEF BothGot
<1> QED
  BY <1>4, <1>5, <1>6 DEF Leads

\* Behind all jobs, two more.
LEMMA BothPair ==
  ASSUME NEW Q, NEW K, NEW w, NEW old, NEW A1, NEW a, NEW b, NEW kind, NEW kind2,
         NEW finish, NEW finish2, NEW c, NEW d, NEW R, NEW S, NEW s,
         BothGot(Q, K, w, old, A1, kind, a, finish, kind2, b, finish2, c, d, R, S, Jobs(Q), s),
         kind # "delete" => kind2 # "delete"
  PROVE  /\ kind # "delete" => Pair(Jobs(Q), Order(Q), Job(c), Job(d), Jobs(S), Order(S))
         /\ kind = "delete" => Pair(Jobs(Q), Order(Q), Job(d), Job(c), Jobs(S), Order(S))
         /\ SameCalls(HeadsOf(Q), HeadsOf(S))
PROOF
<1>1. /\ Adds(Q, R, c, Jobs(Q)) /\ Adds(R, S, d, Jobs(Q) \cup {Job(c)})
      /\ c.status = "waiting" /\ d.status = "waiting" /\ c.kind = kind /\ d.kind = kind2
  BY DEF BothGot, IsNew
<1>2. Job(c).kind = kind /\ Job(d).kind = kind2
  BY <1>1, JobFields
<1>3. /\ Job(c) \notin Jobs(Q) /\ Job(d) \notin Jobs(Q) /\ Job(c) # Job(d)
      /\ \A y : y \in Jobs(S) <=> y \in Jobs(Q) \/ y = Job(c) \/ y = Job(d)
      /\ \A y, z : <<y, z>> \in Order(S) <=>
           \/ <<y, z>> \in Order(Q)
           \/ y \in Jobs(Q) /\ z = Job(c)
           \/ (y \in Jobs(Q) \/ y = Job(c)) /\ z = Job(d)
  BY <1>1 DEF Adds
<1>4. SameCalls(HeadsOf(Q), HeadsOf(S))
  BY <1>1 DEF Adds, SameCalls, Working
<1>5. ASSUME kind # "delete" PROVE Pair(Jobs(Q), Order(Q), Job(c), Job(d), Jobs(S), Order(S))
  BY <1>2, <1>3, <1>5 DEF Pair
<1>6. ASSUME kind = "delete" PROVE Pair(Jobs(Q), Order(Q), Job(d), Job(c), Jobs(S), Order(S))
  BY <1>2, <1>3, <1>6 DEF Pair
<1> QED
  BY <1>4, <1>5, <1>6

\* create with replace, before anything is hooked.
Passing(A, A1, a, old, p) ==
  /\ A1 \in [Activities -> ActivityState] /\ Bare(A1)
  /\ \A x \in Activities : x # a /\ x # old => A1[x] = A[x]
  /\ \A x \in Activities : A1[x].token = A[x].token /\ A1[x].hooked = A[x].hooked
  /\ A1[a].life = "live" /\ A1[a].named /\ A1[a].persistent = p
  /\ A1[a].ending = A[a].ending /\ A1[a].intCommand = A[a].intCommand /\ A1[a].extCommand = A[a].extCommand
  /\ A1[old].life = A[old].life /\ ~A1[old].named /\ A1[old].persistent = A[old].persistent
  /\ A1[old].ending /\ A1[old].intCommand /\ A1[old].extCommand = A[old].extCommand
  /\ A1[old].version = A[old].version

\* When they are hooked, the name has passed.
LEMMA PassingPasses ==
  ASSUME NEW A, NEW A1, NEW a \in Activities, NEW old \in Activities, NEW p, Passing(A, A1, a, old, p),
         A[a].life = "new", Unborn(View(A)), NEW A2, NEW t, p <=> t # None,
         \A x \in Activities : Kept(A1[x], A2[x]) /\ (x # a => A2[x].token = A1[x].token),
         A2[a].token = t
  PROVE  Passes(View(A), View(A2), a, old, t)
PROOF
<1>1. ~A[a].ending /\ ~A[a].intCommand /\ ~A[a].extCommand
  BY DEF Unborn, View
<1>2. Begins(View(A), View(A2), a, t)
  BY <1>1 DEF Begins, View, Kept, Passing
<1>3. \A x \in Activities : x # a /\ x # old => Same(View(A), View(A2), x)
  <2>1. SUFFICES ASSUME NEW x \in Activities, x # a, x # old
                 PROVE  Same(View(A), View(A2), x)
    OBVIOUS
  <2>2. A1[x] = A[x] /\ Kept(A1[x], A2[x]) /\ A2[x].token = A1[x].token
    BY <2>1 DEF Passing
  <2> QED
    BY <2>2 DEF Same, View, Kept
<1>4. a # old
  BY DEF Passing
<1>5. Kept(A1[old], A2[old]) /\ A2[old].token = A1[old].token
  BY <1>4
<1> QED
  BY <1>2, <1>3, <1>5 DEF Passes, View, Kept, Passing

\* The old Activity is cancelled; the new one has the name.
Cancelled(r) == [r EXCEPT !.intCommand = TRUE, !.ending = TRUE, !.named = FALSE]
Installed(r, p) == [r EXCEPT !.life = "live", !.named = TRUE, !.persistent = p]

\* State s is that in which create with replace has set both Activities.
PassedTo(A, Q, K, w, a, old, p, s) == \E A1 :
  Passing(A, A1, a, old, p) /\ Typed(A1, Q, K) /\ s = State(A1, Q, K, w)

\* create with replace sets both Activities.
LEMMA PassingIs ==
  ASSUME NEW A, NEW Q, NEW K, NEW w, NEW D, Serving(A, Q, K, D), NEW a \in Activities, NEW old \in Activities,
         NEW p \in BOOLEAN, A[a].life = "new", A[old].life = "live"
  PROVE  PassedTo(A, Q, K, w, a, old, p,
           SetAct(SetAct(State(A, Q, K, w), old, Cancelled(A[old])), a, Installed(A[a], p)))
PROOF
<1> DEFINE ro == Cancelled(A[old])
<1> DEFINE ra == Installed(A[a], p)
<1>1. Typed(A, Q, K) /\ Bare(A) /\ A \in [Activities -> ActivityState] /\ K \in [Tokens -> TokenState]
  BY ServingIs
<1>2. /\ ro \in ActivityState /\ ro.hooked = A[old].hooked /\ ro.life = "live" /\ ~ro.named
      /\ ro.persistent = A[old].persistent /\ ro.ending /\ ro.intCommand
      /\ ro.extCommand = A[old].extCommand /\ ro.version = A[old].version /\ ro.token = A[old].token
  <2>1. PICK q \in ActivityState : q = A[old]
    BY <1>1
  <2>2. ro = [q EXCEPT !.intCommand = TRUE, !.ending = TRUE, !.named = FALSE]
    BY <2>1 DEF Cancelled
  <2>3. ro \in ActivityState
    BY <2>2 DEF ActivityState
  <2>4. /\ ro.hooked = q.hooked /\ ro.life = q.life /\ ~ro.named
        /\ ro.persistent = q.persistent /\ ro.ending /\ ro.intCommand
        /\ ro.extCommand = q.extCommand /\ ro.version = q.version /\ ro.token = q.token
    BY <2>2 DEF ActivityState
  <2> QED
    BY <2>1, <2>3, <2>4
<1>3. /\ ra \in ActivityState /\ ra.hooked = A[a].hooked /\ ra.life = "live" /\ ra.named
      /\ ra.persistent = p /\ ra.ending = A[a].ending /\ ra.intCommand = A[a].intCommand
      /\ ra.extCommand = A[a].extCommand /\ ra.token = A[a].token
  <2>1. PICK q \in ActivityState : q = A[a]
    BY <1>1
  <2>2. ra = [q EXCEPT !.life = "live", !.named = TRUE, !.persistent = p]
    BY <2>1 DEF Installed
  <2>3. ra \in ActivityState
    BY <2>2 DEF ActivityState
  <2>4. /\ ra.hooked = q.hooked /\ ra.life = "live" /\ ra.named /\ ra.persistent = p
        /\ ra.ending = q.ending /\ ra.intCommand = q.intCommand /\ ra.extCommand = q.extCommand
        /\ ra.token = q.token
    BY <2>2 DEF ActivityState
  <2> QED
    BY <2>1, <2>3, <2>4
<1> HIDE DEF ro, ra
<1>4. PICK A0 : A0 = WithRecord(A, old, ro)
  OBVIOUS
<1>5. PICK A1 : A1 = WithRecord(A0, a, ra)
  OBVIOUS
<1>6. IsSet(A, Q, K, w, old, ro, A0)
  BY <1>2, <1>4, ReadyRecord
<1>7. /\ SetAct(State(A, Q, K, w), old, ro) = State(A0, Q, K, w)
      /\ A0 \in [Activities -> ActivityState] /\ A0[old] = ro
      /\ \A x \in Activities : x # old => A0[x] = A[x]
      /\ Typed(A0, Q, K) /\ Bare(A0)
  BY <1>6 DEF IsSet
<1>8. IsSet(A0, Q, K, w, a, ra, A1)
  <2>1. a # old
    OBVIOUS
  <2>2. ra.hooked = A0[a].hooked
    BY <1>3, <1>7, <2>1
  <2> QED
    BY <1>3, <1>5, <1>7, <2>2, RecordSet
<1>9. /\ SetAct(State(A0, Q, K, w), a, ra) = State(A1, Q, K, w)
      /\ A1 \in [Activities -> ActivityState] /\ A1[a] = ra
      /\ \A x \in Activities : x # a => A1[x] = A0[x]
      /\ Typed(A1, Q, K) /\ Bare(A1)
  BY <1>8 DEF IsSet
<1>10. A1[old] = ro
  BY <1>7, <1>9
<1>11. Passing(A, A1, a, old, p)
  <2>1. \A x \in Activities : x # a /\ x # old => A1[x] = A[x]
    BY <1>7, <1>9
  <2>2. \A x \in Activities : A1[x].token = A[x].token /\ A1[x].hooked = A[x].hooked
    BY <1>2, <1>3, <1>9, <1>10, <2>1
  <2> QED
    BY <1>2, <1>3, <1>9, <1>10, <2>1, <2>2 DEF Passing
<1>12. SetAct(SetAct(State(A, Q, K, w), old, ro), a, ra) = State(A1, Q, K, w)
  BY <1>7, <1>9
<1>13. PassedTo(A, Q, K, w, a, old, p, SetAct(SetAct(State(A, Q, K, w), old, ro), a, ra))
  BY <1>9, <1>11, <1>12 DEF PassedTo
<1> QED
  BY <1>13 DEF ro, ra

\* The token that the new Activity takes over, or a new one.
Sharing(A1, K, a, old, A2, K2, t) ==
  /\ A2 = WithToken(A1, a, t) /\ t \in Tokens
  /\ \/ A1[old].token # None /\ t = A1[old].token /\ K2 = K
     \/ A1[old].token = None /\ Unissued(A1, t) /\ K2 = [K EXCEPT ![t] = NoToken]

\* EnsureReplaceCompletion, as to the token.
LEMMA TokenShared ==
  ASSUME NEW A1, NEW Q, NEW K, NEW w, Typed(A1, Q, K), NEW a \in Activities, NEW old \in Activities
  PROVE  \E A2, K2, t :
           /\ (IF State(A1, Q, K, w).act[old].token # None
               THEN [State(A1, Q, K, w) EXCEPT !.act[a].token = State(A1, Q, K, w).act[old].token]
               ELSE CreateToken(State(A1, Q, K, w), a)) = State(A2, Q, K2, w)
           /\ Sharing(A1, K, a, old, A2, K2, t) /\ Typed(A2, Q, K2)
PROOF
<1>1. State(A1, Q, K, w).act = A1
  BY StateFields
<1>2. A1 \in [Activities -> ActivityState] /\ K \in [Tokens -> TokenState]
  BY DEF Typed
<1>3. CASE A1[old].token # None
  <2>1. A1[old].token \in Tokens
    BY <1>2, <1>3 DEF ActivityState
  <2>2. PICK t : t = A1[old].token
    OBVIOUS
  <2>3. [State(A1, Q, K, w) EXCEPT !.act[a].token = t] = State(WithToken(A1, a, t), Q, K, w)
    BY DEF State, WithToken
  <2>4. Typed(WithToken(A1, a, t), Q, K)
    <3>1. /\ WithToken(A1, a, t) \in [Activities -> ActivityState]
          /\ \A x \in Activities : WithToken(A1, a, t)[x].hooked = A1[x].hooked
      BY <1>2, <2>1, <2>2, WithTokenFields
    <3> QED
      BY <1>2, <3>1, TypedSame
  <2>5. Sharing(A1, K, a, old, WithToken(A1, a, t), K, t)
    BY <1>3, <2>1, <2>2 DEF Sharing
  <2> QED
    BY <1>1, <1>3, <2>2, <2>3, <2>4, <2>5
<1>4. CASE A1[old].token = None
  <2>1. PICK t : /\ Unissued(A1, t)
                 /\ CreateToken(State(A1, Q, K, w), a) =
                      State(WithToken(A1, a, t), Q, [K EXCEPT ![t] = NoToken], w)
                 /\ Typed(WithToken(A1, a, t), Q, [K EXCEPT ![t] = NoToken])
    BY TokenCreated
  <2>2. Sharing(A1, K, a, old, WithToken(A1, a, t), [K EXCEPT ![t] = NoToken], t)
    BY <1>4, <2>1 DEF Sharing, Unissued
  <2> QED
    BY <1>1, <1>4, <2>1, <2>2
<1> QED
  BY <1>3, <1>4

\* What is hooked when one Activity replaces another, behind all that is.
PairHooked(A, Q, K, w, D, a, old, t, kind1, kind2) == \E V \in [Tokens -> TokenState] :
  /\ Sound(View(A), Jobs(Q), Order(Q), K, V, D, HeadsOf(Q), w)
  /\ kind1 = "store" <=> t # None
  /\ kind2 = "delete" <=> t = None /\ A[old].token # None
  /\ t # None => IF A[old].token # None THEN t = A[old].token ELSE Unissued(A, t) /\ V[t] = NoToken

\* The commands of a create with replace, on the state.
LEMMA PairLeads ==
  ASSUME NEW A, NEW Q, NEW K, NEW w, NEW D, Serving(A, Q, K, D),
         NEW a \in Activities, NEW old \in NamedOf(A), A[a].life = "new",
         NEW p, NEW A1, Passing(A, A1, a, old, p), NEW K2, NEW t,
         NEW A2 \in [Activities -> ActivityState], Bare(A2),
         \A x \in Activities : Kept(A1[x], A2[x]) /\ (x # a => A2[x].token = A1[x].token),
         Fit(A, Q, K, w, D) => (p <=> t # None) /\ A2[a].token = t,
         NEW kind1 \in {"store", "noop"}, NEW kind2 \in {"delete", "noop"},
         Fit(A, Q, K, w, D) => PairHooked(A, Q, K2, w, D, a, old, t, kind1, kind2),
         NEW s,
         \/ /\ kind2 # "delete"
            /\ BothGet(Q, K2, w, old, A2, kind1, a, "create", kind2, old, "replace", s)
         \/ /\ kind2 = "delete"
            /\ BothGet(Q, K2, w, old, A2, kind2, old, "replace", kind1, a, "create", s)
  PROVE  Leads(A, Q, K, w, D, s, TRUE)
PROOF
<1>1. /\ Lined(Jobs(Q), Order(Q), HeadsOf(Q)) /\ \A h \in HeadsOf(Q) : Working(h)
      /\ Records(D)
  BY ServingIs
<1>2. old \in Activities /\ A[old].life = "live" /\ old \in NamedOf(View(A)) /\ a # old
  BY DEF NamedOf, View
<1>3. A2[a].life = "live" /\ A2[old].life = "live"
  BY <1>2 DEF Passing, Kept
<1>4. ASSUME NEW c, NEW d, NEW R, NEW S, NEW P, NEW k1, NEW k2, NEW f1, NEW f2, NEW b1, NEW b2,
             BothGot(Q, K2, w, old, A2, k1, b1, f1, k2, b2, f2, c, d, R, S, P, s),
             \/ /\ k1 = kind1 /\ b1 = a /\ f1 = "create" /\ k2 = kind2 /\ b2 = old /\ f2 = "replace"
                /\ kind2 # "delete"
             \/ /\ k1 = kind2 /\ b1 = old /\ f1 = "replace" /\ k2 = kind1 /\ b2 = a /\ f2 = "create"
                /\ kind2 = "delete",
             Fit(A, Q, K, w, D)
      PROVE  \E V \in [Tokens -> TokenState] : Sound(View(A2), Jobs(S), Order(S), K2, V, D, HeadsOf(S), w)
  <2>1. PICK V \in [Tokens -> TokenState] :
          /\ Sound(View(A), Jobs(Q), Order(Q), K2, V, D, HeadsOf(Q), w)
          /\ kind1 = "store" <=> t # None
          /\ kind2 = "delete" <=> t = None /\ A[old].token # None
          /\ t # None => IF A[old].token # None THEN t = A[old].token ELSE Unissued(A, t) /\ V[t] = NoToken
    BY <1>4 DEF PairHooked
  <2>2. P = Jobs(Q)
    <3>1. PlaceOf(Jobs(Q), Order(Q), old, P)
      BY <1>4 DEF BothGot
    <3> QED
      BY <1>1, <1>2, <2>1, <3>1, PlaceIsAll
  <2>3. Unborn(View(A))
    BY <2>1 DEF Sound, Lives
  <2>4. Passes(View(A), View(A2), a, old, t)
    <3>1. (p <=> t # None) /\ A2[a].token = t
      BY <1>4
    <3>2. A[a].life = "new" /\ Passing(A, A1, a, old, p)
      OBVIOUS
    <3>3. \A x \in Activities : Kept(A1[x], A2[x]) /\ (x # a => A2[x].token = A1[x].token)
      OBVIOUS
    <3> QED
      BY <1>2, <2>3, <3>1, <3>2, <3>3, PassingPasses
  <2>5. BothGot(Q, K2, w, old, A2, k1, b1, f1, k2, b2, f2, c, d, R, S, Jobs(Q), s)
    BY <1>4, <2>2
  <2>6. IsNew(c, k1, b1, f1) /\ IsNew(d, k2, b2, f2)
    BY <1>4 DEF BothGot
  <2>7. /\ Job(c).kind = k1 /\ Job(c).of = b1 /\ Job(c).finish = f1
        /\ Job(d).kind = k2 /\ Job(d).of = b2 /\ Job(d).finish = f2
    BY <2>6, JobFields DEF IsNew
  <2>8. /\ k1 # "delete" => Pair(Jobs(Q), Order(Q), Job(c), Job(d), Jobs(S), Order(S))
        /\ k1 = "delete" => Pair(Jobs(Q), Order(Q), Job(d), Job(c), Jobs(S), Order(S))
        /\ SameCalls(HeadsOf(Q), HeadsOf(S))
    <3>1. k1 # "delete" => k2 # "delete"
      BY <1>4
    <3> QED
      BY <2>5, <3>1, BothPair
  <2>9. \E cr, rp : /\ Pair(Jobs(Q), Order(Q), cr, rp, Jobs(S), Order(S))
                    /\ Pairs(View(A), V, a, old, t, cr, rp)
    <3>1. \E cr, rp : /\ Pair(Jobs(Q), Order(Q), cr, rp, Jobs(S), Order(S))
                      /\ cr.kind = kind1 /\ cr.of = a /\ cr.finish = "create"
                      /\ rp.kind = kind2 /\ rp.of = old /\ rp.finish = "replace"
      <4>1. CASE kind2 # "delete"
        BY <1>4, <2>7, <2>8, <4>1
      <4>2. CASE kind2 = "delete"
        BY <1>4, <2>7, <2>8, <4>2
      <4> QED
        BY <4>1, <4>2
    <3>2. PICK cr, rp : /\ Pair(Jobs(Q), Order(Q), cr, rp, Jobs(S), Order(S))
                        /\ cr.kind = kind1 /\ cr.of = a /\ cr.finish = "create"
                        /\ rp.kind = kind2 /\ rp.of = old /\ rp.finish = "replace"
      BY <3>1
    <3>3. View(A)[old].token = A[old].token /\ (Unissued(A, t) => Unissued(View(A), t))
      BY <1>2 DEF View, Unissued
    <3>4. Pairs(View(A), V, a, old, t, cr, rp)
      BY <2>1, <3>2, <3>3 DEF Pairs
    <3> QED
      BY <3>2, <3>4
  <2> QED
    BY <1>1, <1>2, <2>1, <2>4, <2>8, <2>9, PairAdded
<1>5. CASE kind2 # "delete"
  <2>1. PICK c, d, R, S, P : BothGot(Q, K2, w, old, A2, kind1, a, "create", kind2, old, "replace", c, d, R, S, P, s)
    BY <1>5 DEF BothGet
  <2>2. Fit(A, Q, K, w, D) => \E V \in [Tokens -> TokenState] :
          Sound(View(A2), Jobs(S), Order(S), K2, V, D, HeadsOf(S), w)
    BY <1>4, <1>5, <2>1
  <2> QED
    BY <1>2, <1>3, <2>1, <2>2, BothLeads
<1>6. CASE kind2 = "delete"
  <2>1. PICK c, d, R, S, P : BothGot(Q, K2, w, old, A2, kind2, old, "replace", kind1, a, "create", c, d, R, S, P, s)
    BY <1>6 DEF BothGet
  <2>2. Fit(A, Q, K, w, D) => \E V \in [Tokens -> TokenState] :
          Sound(View(A2), Jobs(S), Order(S), K2, V, D, HeadsOf(S), w)
    BY <1>4, <1>6, <2>1
  <2> QED
    BY <1>2, <1>3, <2>1, <2>2, BothLeads
<1> QED
  BY <1>5, <1>6

\* create with replace.
LEMMA ReplaceLeads ==
  ASSUME NEW A, NEW Q, NEW K, NEW w, NEW D, Serving(A, Q, K, D),
         NEW a \in Activities, NEW old \in NamedOf(A), NEW p \in BOOLEAN, A[a].life = "new"
  PROVE  Leads(A, Q, K, w, D,
               EnsureReplaceCompletion(
                 SetAct(SetAct(State(A, Q, K, w), old,
                               [A[old] EXCEPT !.intCommand = TRUE, !.ending = TRUE, !.named = FALSE]),
                        a, [A[a] EXCEPT !.life = "live", !.named = TRUE, !.persistent = p]),
                 old, a),
               TRUE)
PROOF
<1>1. /\ Typed(A, Q, K) /\ Bare(A) /\ Records(D)
      /\ A \in [Activities -> ActivityState] /\ K \in [Tokens -> TokenState]
      /\ Lined(Jobs(Q), Order(Q), HeadsOf(Q)) /\ \A h \in HeadsOf(Q) : Working(h)
  BY ServingIs
<1>2. old \in Activities /\ A[old].life = "live" /\ old \in NamedOf(View(A)) /\ a # old
  BY DEF NamedOf, View
<1>3. PICK s0 : s0 = SetAct(SetAct(State(A, Q, K, w), old, Cancelled(A[old])), a, Installed(A[a], p))
  OBVIOUS
<1>4. PassedTo(A, Q, K, w, a, old, p, s0)
  BY <1>2, <1>3, PassingIs
<1>5. PICK A1 : Passing(A, A1, a, old, p) /\ Typed(A1, Q, K) /\ s0 = State(A1, Q, K, w)
  BY <1>4 DEF PassedTo
<1>6. Passing(A, A1, a, old, p) /\ Typed(A1, Q, K)
  BY <1>5
<1>7. PICK s : s = EnsureReplaceCompletion(State(A1, Q, K, w), old, a)
  OBVIOUS
<1>8. /\ A1 \in [Activities -> ActivityState] /\ Bare(A1)
      /\ A1[a].persistent = p /\ A1[old].persistent = A[old].persistent
      /\ A1[a].life = "live" /\ A1[old].life = "live"
      /\ \A x \in Activities : A1[x].token = A[x].token /\ A1[x].hooked = A[x].hooked
  BY <1>2, <1>6 DEF Passing
<1>9. \A y \in Jobs(Q) : y.of # a
  <2>1. Chained(Q) /\ HookedIn(A, Q) /\ Hooks(A)
    BY <1>1, TypedHooks DEF Typed
  <2>2. A[a].hooked = << >>
    BY <1>1 DEF Bare
  <2> QED
    BY <2>1, <2>2, HookedJobs
<1>10. ASSUME NEW V, SoundIn(A, Q, K, V, w, D)
      PROVE  /\ A[a].token = None /\ (A[old].persistent <=> A[old].token # None)
  <2>1. Lives(View(A))
    BY <1>10 DEF SoundIn, Sound
  <2> QED
    BY <1>2, <2>1 DEF Lives, Unborn, TokensPersist, PersistentHave, View
<1>11. State(A1, Q, K, w).act = A1
  BY StateFields
<1>12. ASSUME p PROVE Leads(A, Q, K, w, D, s, TRUE)
  <2>1. PICK A2, K2, t :
           /\ (IF State(A1, Q, K, w).act[old].token # None
               THEN [State(A1, Q, K, w) EXCEPT !.act[a].token = State(A1, Q, K, w).act[old].token]
               ELSE CreateToken(State(A1, Q, K, w), a)) = State(A2, Q, K2, w)
           /\ Sharing(A1, K, a, old, A2, K2, t) /\ Typed(A2, Q, K2)
    BY <1>2, <1>6, TokenShared
  <2>2. s = EnqueueBoth(State(A2, Q, K2, w), old, "store", a, "create", "noop", old, "replace")
    BY <1>7, <1>8, <1>11, <1>12, <2>1 DEF EnsureReplaceCompletion
  <2>3. BothGet(Q, K2, w, old, A2, "store", a, "create", "noop", old, "replace", s)
    BY <1>2, <1>9, <2>1, <2>2, BothEnqueued
  <2>4. /\ A2 \in [Activities -> ActivityState] /\ t # None
        /\ \A x \in Activities : /\ Kept(A1[x], A2[x]) /\ A2[x].hooked = A1[x].hooked
                                 /\ A2[x].token = IF x = a THEN t ELSE A1[x].token
    <3>1. t \in Tokens /\ t # None /\ A2 = WithToken(A1, a, t)
      BY <2>1 DEF Sharing, Unissued
    <3> QED
      BY <1>8, <3>1, WithTokenFields
  <2>5. Bare(A2)
    BY <1>8, <2>4 DEF Bare, Kept
  <2>6. ASSUME Fit(A, Q, K, w, D)
        PROVE  PairHooked(A, Q, K2, w, D, a, old, t, "store", "noop")
    <3>1. PICK V0 \in [Tokens -> TokenState] : SoundIn(A, Q, K, V0, w, D)
      BY <2>6, FitSound
    <3>2. Sound(View(A), Jobs(Q), Order(Q), K, V0, D, HeadsOf(Q), w)
      BY <3>1 DEF SoundIn
    <3>3. CASE A1[old].token # None
      <4>1. t = A[old].token /\ K2 = K
        BY <1>2, <1>8, <2>1, <3>3 DEF Sharing
      <4>2. A[old].token # None
        BY <1>2, <1>8, <3>3
      <4> QED
        BY <2>4, <3>2, <4>1, <4>2 DEF PairHooked
    <3>4. CASE A1[old].token = None
      <4>1. Unissued(A1, t) /\ K2 = [K EXCEPT ![t] = NoToken]
        BY <2>1, <3>4 DEF Sharing
      <4>2. Unissued(A, t) /\ Unissued(View(A), t)
        BY <1>8, <4>1 DEF Unissued, View
      <4>3. PICK V : V = [V0 EXCEPT ![t] = NoToken]
        OBVIOUS
      <4>4. ResetSound(View(A), Jobs(Q), Order(Q), [K EXCEPT ![t] = NoToken], [V0 EXCEPT ![t] = NoToken], D, HeadsOf(Q), w, t)
        BY <1>1, <3>1, <3>2, <4>2, ResetToken
      <4>5. Sound(View(A), Jobs(Q), Order(Q), K2, V, D, HeadsOf(Q), w) /\ V \in [Tokens -> TokenState] /\ V[t] = NoToken
        BY <4>1, <4>3, <4>4 DEF ResetSound
      <4>6. A[old].token = None
        BY <1>2, <1>8, <3>4
      <4> QED
        BY <2>4, <4>2, <4>5, <4>6 DEF PairHooked
    <3> QED
      BY <3>3, <3>4
  <2>7. Fit(A, Q, K, w, D) => (p <=> t # None) /\ A2[a].token = t
    BY <1>12, <2>4
  <2>8. \A x \in Activities : Kept(A1[x], A2[x]) /\ (x # a => A2[x].token = A1[x].token)
    BY <2>4
  <2> QED
    BY <1>6, <2>3, <2>4, <2>5, <2>6, <2>7, <2>8, PairLeads, ZenonT(60)
<1>13. \A x \in Activities : Kept(A1[x], A1[x]) /\ (x # a => A1[x].token = A1[x].token)
  BY DEF Kept
<1>14. ASSUME ~p /\ A[old].persistent PROVE Leads(A, Q, K, w, D, s, TRUE)
  <2>1. s = EnqueueBoth(State(A1, Q, K, w), old, "delete", old, "replace", "noop", a, "create")
    BY <1>7, <1>8, <1>11, <1>14 DEF EnsureReplaceCompletion
  <2>2. BothGet(Q, K, w, old, A1, "delete", old, "replace", "noop", a, "create", s)
    BY <1>2, <1>6, <1>9, <2>1, BothEnqueued
  <2>3. ASSUME Fit(A, Q, K, w, D)
        PROVE  PairHooked(A, Q, K, w, D, a, old, None, "noop", "delete") /\ A1[a].token = None
    <3>1. PICK V \in [Tokens -> TokenState] : SoundIn(A, Q, K, V, w, D)
      BY <2>3, FitSound
    <3> QED
      BY <1>8, <1>10, <1>14, <3>1 DEF PairHooked, SoundIn
  <2>4. Fit(A, Q, K, w, D) => (p <=> None # None) /\ A1[a].token = None
    BY <1>14, <2>3
  <2> QED
    BY <1>6, <1>8, <1>13, <2>2, <2>3, <2>4, PairLeads
<1>15. ASSUME ~p /\ ~A[old].persistent /\ A[old].hooked # << >> PROVE Leads(A, Q, K, w, D, s, TRUE)
  <2>1. s = EnqueueBoth(State(A1, Q, K, w), old, "noop", a, "create", "noop", old, "replace")
    BY <1>2, <1>7, <1>8, <1>11, <1>15 DEF EnsureReplaceCompletion
  <2>2. BothGet(Q, K, w, old, A1, "noop", a, "create", "noop", old, "replace", s)
    BY <1>2, <1>6, <1>9, <2>1, BothEnqueued
  <2>3. ASSUME Fit(A, Q, K, w, D)
        PROVE  PairHooked(A, Q, K, w, D, a, old, None, "noop", "noop") /\ A1[a].token = None
    <3>1. PICK V \in [Tokens -> TokenState] : SoundIn(A, Q, K, V, w, D)
      BY <2>3, FitSound
    <3> QED
      BY <1>8, <1>10, <1>15, <3>1 DEF PairHooked, SoundIn
  <2>4. Fit(A, Q, K, w, D) => (p <=> None # None) /\ A1[a].token = None
    BY <1>15, <2>3
  <2> QED
    BY <1>6, <1>8, <1>13, <2>2, <2>3, <2>4, PairLeads
<1>16. ASSUME ~p /\ ~A[old].persistent /\ A[old].hooked = << >> PROVE Leads(A, Q, K, w, D, s, TRUE)
  <2>1. PICK c : c = NewCommand(State(A1, Q, K, w), "noop", a, "create")
    OBVIOUS
  <2>2. IsNew(c, "noop", a, "create")
    BY <1>6, <2>1, CommandIsNew DEF IsNew, Typed
  <2>3. Finish(State(A1, Q, K, w), c) = State(A1, Q, K, Nothing)
    <3>1. PICK A2, w2 : Finish(State(A1, Q, K, w), c) = State(A2, Q, K, w2) /\ Finished(A1, w, c, A2, w2)
      BY <2>2, FinishDoes DEF IsNew
    <3>2. A2 = A1 /\ w2 = Nothing
      BY <2>2, <3>1 DEF Finished, IsNew, ToldStored
    <3> QED
      BY <3>1, <3>2
  <2>4. PICK A2 : A2 = WithToken(A1, old, None)
    OBVIOUS
  <2>5. FinishReplaceActivity(State(A1, Q, K, Nothing), [c EXCEPT !.of = old]) = State(A2, Q, K, Nothing)
    <3>1. [c EXCEPT !.of = old].of = old
      BY <2>2 DEF IsNew, Command
    <3> QED
      BY <2>4, <3>1 DEF FinishReplaceActivity, State, WithToken
  <2>6. s = State(A2, Q, K, Nothing)
    BY <1>2, <1>7, <1>8, <1>11, <1>16, <2>1, <2>3, <2>5 DEF EnsureReplaceCompletion
  <2>7. /\ A2 \in [Activities -> ActivityState]
        /\ \A x \in Activities : /\ Kept(A1[x], A2[x]) /\ A2[x].hooked = A1[x].hooked
                                 /\ A2[x].token = IF x = old THEN None ELSE A1[x].token
    BY <1>2, <1>8, <2>4, WithTokenFields
  <2>8. Typed(A2, Q, K) /\ Bare(A2)
    <3>1. \A x \in Activities : A2[x].hooked = A1[x].hooked /\ A2[x].life = A1[x].life
      BY <2>7 DEF Kept
    <3> QED
      BY <1>1, <1>6, <1>8, <2>7, <3>1, TypedSame DEF Bare
  <2>9. ASSUME Fit(A, Q, K, w, D)
        PROVE  Fit(A2, Q, K, Nothing, D)
    <3>1. PICK V \in [Tokens -> TokenState] : SoundIn(A, Q, K, V, w, D)
      BY <2>9, FitSound
    <3>2. Sound(View(A), Jobs(Q), Order(Q), K, V, D, HeadsOf(Q), w)
      BY <3>1 DEF SoundIn
    <3>3. A[a].token = None /\ A[old].token = None
      BY <1>10, <1>16, <3>1
    <3>4. \A x \in Activities : Kept(A1[x], A2[x]) /\ (x # a => A2[x].token = A1[x].token)
      BY <1>2, <1>8, <2>7, <3>3
    <3>5. A2[a].token = None /\ (p <=> None # None)
      BY <1>2, <1>8, <1>16, <2>7, <3>3
    <3>6. Passes(View(A), View(A2), a, old, None)
      <4>1. Unborn(View(A))
        BY <3>2 DEF Sound, Lives
      <4> QED
        BY <1>2, <1>6, <3>4, <3>5, <4>1, PassingPasses
    <3>7. \A c1 \in Jobs(Q) : c1.of # old
      <4>1. Chained(Q) /\ HookedIn(A, Q) /\ Hooks(A)
        BY <1>1, TypedHooks DEF Typed
      <4> QED
        BY <1>2, <1>16, <4>1, HookedJobs
    <3>8. ~View(A)[old].persistent
      BY <1>2, <1>16 DEF View
    <3>9. w = Nothing /\ Sound(View(A2), Jobs(Q), Order(Q), K, V, D, HeadsOf(Q), w)
      BY <1>1, <1>2, <3>2, <3>6, <3>7, <3>8, PassedAtOnce
    <3> QED
      BY <3>9, FitSound DEF SoundIn
  <2> QED
    BY <2>6, <2>8, <2>9 DEF Leads
<1>17. Leads(A, Q, K, w, D, s, TRUE)
  BY <1>12, <1>14, <1>15, <1>16
<1>18. Leads(A, Q, K, w, D, EnsureReplaceCompletion(s0, old, a), TRUE)
  BY <1>7, <1>5, <1>17
<1> QED
  BY <1>3, <1>18 DEF Cancelled, Installed

-----------------------------------------------------------------------------
(* The chains.                                                             *)

\* What Finish does, as the invariant sees it.
LEMMA FinishedView ==
  ASSUME NEW A \in [Activities -> ActivityState], NEW w, NEW c \in Command, NEW A2, NEW w2,
         Finished(A, w, c, A2, w2)
  PROVE  /\ Finishes(View(A), w, c, View(A2), w2)
         /\ \A x \in Activities : A2[x].life = A[x].life /\ A2[x].hooked = A[x].hooked
PROOF
<1>1. c.of \in Activities
  BY DEF Command
<1>2. CASE c.finish \in {"create", "update"} /\ A2 = A /\ w2 = ToldStored(w, c)
  BY <1>2 DEF Finishes
<1>3. CASE c.finish = "end" /\ A2 = Unnamed(A, c.of) /\ w2 = ToldEnded(w, c)
  <2>1. PICK a : a = c.of
    OBVIOUS
  <2>2. /\ \A x \in Activities : x # a => A2[x] = A[x]
        /\ A2[a].life = A[a].life /\ ~A2[a].named
        /\ A2[a].persistent = A[a].persistent /\ A2[a].ending = A[a].ending
        /\ A2[a].intCommand = A[a].intCommand /\ A2[a].extCommand = A[a].extCommand
        /\ A2[a].version = A[a].version /\ A2[a].token = A[a].token
        /\ A2[a].hooked = A[a].hooked /\ A2 \in [Activities -> ActivityState]
    BY <1>1, <1>3, <2>1, UnnamedFields
  <2>3. \A x \in Activities : A[x].named \in BOOLEAN /\ A2[x].named \in BOOLEAN
    BY <2>2 DEF ActivityState
  <2>4. Unnames(View(A), View(A2), a)
    <3>1. SUFFICES ASSUME NEW x \in Activities
                   PROVE  /\ View(A2)[x].life = View(A)[x].life
                          /\ View(A2)[x].named = (View(A)[x].named /\ x # a)
                          /\ View(A2)[x].persistent = View(A)[x].persistent
                          /\ View(A2)[x].ending = View(A)[x].ending
                          /\ View(A2)[x].intCommand = View(A)[x].intCommand
                          /\ View(A2)[x].extCommand = View(A)[x].extCommand
                          /\ View(A2)[x].version = View(A)[x].version
                          /\ View(A2)[x].token = View(A)[x].token
      BY DEF Unnames
    <3>2. CASE x = a
      BY <2>2, <2>3, <3>2 DEF View
    <3>3. CASE x # a
      BY <2>2, <2>3, <3>3 DEF View
    <3> QED
      BY <3>2, <3>3
  <2>5. ~View(A)[a].named => View(A2) = View(A)
    <3>1. SUFFICES ASSUME ~View(A)[a].named
                   PROVE  \A x \in Activities : Same(A, A2, x)
      BY ViewSame
    <3>2. A[a].named = FALSE /\ A2[a].named = FALSE
      BY <1>1, <2>1, <2>2, <2>3, <3>1 DEF View
    <3> QED
      BY <2>2, <3>2 DEF Same
  <2>6. \A x \in Activities : A2[x].life = A[x].life /\ A2[x].hooked = A[x].hooked
    BY <2>2
  <2> QED
    BY <1>3, <2>1, <2>4, <2>5, <2>6 DEF Finishes
<1>4. CASE c.finish = "replace" /\ A2 = WithToken(A, c.of, None) /\ w2 = w
  <2>1. PICK a : a = c.of
    OBVIOUS
  <2>2. \A x \in Activities :
          /\ A2[x].hooked = A[x].hooked /\ Kept(A[x], A2[x])
          /\ A2[x].token = IF x = a THEN None ELSE A[x].token
    BY <1>1, <1>4, <2>1, WithTokenFields
  <2>3. Drops(View(A), View(A2), a)
    BY <2>2 DEF Drops, View, Kept
  <2>4. \A x \in Activities : A2[x].life = A[x].life /\ A2[x].hooked = A[x].hooked
    BY <2>2 DEF Kept
  <2> QED
    BY <1>4, <2>1, <2>3, <2>4 DEF Finishes
<1> QED
  BY <1>2, <1>3, <1>4 DEF Finished

LEMMA UnhookedView ==
  ASSUME NEW A \in [Activities -> ActivityState], NEW a \in Activities, A[a].hooked # << >>
  PROVE  View(Unhooked(A, a)) = View(A)
PROOF
<1>1. \A x \in Activities : Kept(A[x], Unhooked(A, a)[x]) /\ Unhooked(A, a)[x].token = A[x].token
  BY UnhookedFields
<1>2. \A x \in Activities : Same(A, Unhooked(A, a), x)
  BY <1>1 DEF Same, Kept
<1> QED
  BY <1>2, ViewSame

\* The head of a chain needs no call, or has its reply.
Ripe(A, K, c, V, K2) ==
  \/ Idle(A, K, c) /\ K2 = K
  \/ Done(c) /\ K2 = V

\* A head that is finished keeps the invariant.
LEMMA RipeSound ==
  ASSUME NEW A, NEW J, NEW B, NEW K \in [Tokens -> TokenState], NEW V, NEW D, NEW H, NEW w,
         Sound(A, J, B, K, V, D, H, w), Lined(J, B, H), Records(D),
         NEW c \in H, NEW K2, Ripe(A, K, c, V, K2), TokenAt(A, c) \in Tokens \cup {None},
         NEW A2, NEW w2, Finishes(A, w, c, A2, w2),
         NEW J2, NEW B2, Taken(J, B, Job(c), J2, B2), NEW H2, Unlisted(H, c, H2)
  PROVE  Sound(A2, J2, B2, K2, V, D, H2, w2)
PROOF
<1>1. Idle(A, K, c) \/ Done(c)
  BY DEF Ripe
<1>2. Settled(A, V, D, c)
  BY <1>1, HeadSettled
<1>3. /\ Lives(A2) /\ Works(A2, J2) /\ Rows(A2, J2, B2)
      /\ Flow(A2, J2, B2, V) /\ Owned(A2, J2, B2, V, D) /\ Stored(A2, V, D)
  BY <1>2, TakenWorks
<1>4. CASE Idle(A, K, c) /\ K2 = K
  <2>1. /\ Follows(A2, K, V, H2) /\ Calls(A2, J2, K, V, D, H2)
        /\ ToldIs(J2, D, H2, w2) /\ ToldOf(J2, H2, w2)
    BY <1>2, <1>4, IdleCalls
  <2> QED
    BY <1>3, <1>4, <2>1 DEF Sound
<1>5. CASE Done(c) /\ K2 = V
  <2>1. /\ Follows(A2, V, V, H2) /\ Calls(A2, J2, V, V, D, H2)
        /\ ToldIs(J2, D, H2, w2) /\ ToldOf(J2, H2, w2)
    BY <1>5, DoneCalls
  <2> QED
    BY <1>3, <1>5, <2>1 DEF Sound
<1> QED
  BY <1>4, <1>5 DEF Ripe

\* Complete.
LEMMA CompleteLeads ==
  ASSUME NEW A, NEW Q, NEW K, NEW w, NEW D, NEW ok, NEW K2, Typed(A, Q, K2), Bare(A), Records(D),
         K \in [Tokens -> TokenState], NEW q \in Q,
         ok /\ Fit(A, Q, K, w, D) => \E V \in [Tokens -> TokenState] :
           SoundIn(A, Q, K, V, w, D) /\ Ripe(View(A), K, q[1], V, K2)
  PROVE  Leads(A, Q, K, w, D, Complete(State(A, Q, K2, w), q), ok)
PROOF
<1>1. PICK s : s = Complete(State(A, Q, K2, w), q)
  OBVIOUS
<1>2. Completed(A, Q, K2, w, q, s)
  BY <1>1, CompleteDoes
<1>3. PICK A2, w2 : CompletedTo(A, Q, K2, w, q, s, A2, w2)
  BY <1>2 DEF Completed
<1>4. /\ s = State(Unhooked(A2, q[1].of), Removed(Q, q), K2, w2)
      /\ Finished(A, w, q[1], A2, w2)
      /\ Typed(Unhooked(A2, q[1].of), Removed(Q, q), K2)
      /\ Takes(Q, Removed(Q, q), q[1])
      /\ A2 \in [Activities -> ActivityState]
      /\ A2[q[1].of].hooked # << >>
  BY <1>3 DEF CompletedTo
<1>5. PICK c, R, A3 : c = q[1] /\ R = Removed(Q, q) /\ A3 = Unhooked(A2, c.of)
  OBVIOUS
<1>6. /\ c \in HeadsOf(Q) /\ c \in Command /\ Job(c) \in Jobs(Q) /\ \A x : <<x, Job(c)>> \notin Order(Q)
      /\ c.of \in Activities /\ Lined(Jobs(Q), Order(Q), HeadsOf(Q))
  BY <1>5, HeadsFirst, ChainsLined DEF HeadsOf, Command
<1>7. A \in [Activities -> ActivityState]
  BY DEF Typed
<1>8. /\ Finishes(View(A), w, c, View(A2), w2)
      /\ \A x \in Activities : A2[x].life = A[x].life /\ A2[x].hooked = A[x].hooked
  BY <1>4, <1>5, <1>6, <1>7, FinishedView
<1>9. View(A3) = View(A2)
  BY <1>4, <1>5, <1>6, UnhookedView
<1>10. Bare(A3)
  <2>1. \A x \in Activities : /\ A3[x].hooked = IF x = c.of THEN Tail(A2[x].hooked) ELSE A2[x].hooked
                              /\ A3[x].life = A2[x].life
    BY <1>4, <1>5, <1>6, UnhookedFields DEF Kept
  <2>2. A[c.of].life = "live"
    BY <1>4, <1>5, <1>6, <1>8 DEF Bare
  <2> QED
    BY <1>8, <2>1, <2>2 DEF Bare
<1>11. /\ Taken(Jobs(Q), Order(Q), Job(c), Jobs(R), Order(R))
      /\ Unlisted(HeadsOf(Q), c, HeadsOf(R))
  BY <1>4, <1>5, <1>6 DEF Takes, Taken, Unlisted, Working
<1>12. ASSUME ok, Fit(A, Q, K, w, D)
      PROVE  Fit(A3, R, K2, w2, D)
  <2>1. PICK V \in [Tokens -> TokenState] : SoundIn(A, Q, K, V, w, D) /\ Ripe(View(A), K, c, V, K2)
    BY <1>5, <1>12
  <2>2. TokenAt(View(A), c) \in Tokens \cup {None}
    BY <1>6, <1>7 DEF TokenAt, View, ActivityState
  <2>3. Sound(View(A2), Jobs(R), Order(R), K2, V, D, HeadsOf(R), w2)
    BY <1>6, <1>8, <1>11, <2>1, <2>2, RipeSound DEF SoundIn
  <2> QED
    BY <1>9, <2>1, <2>3, FitSound DEF SoundIn
<1>13. Leads(A, Q, K, w, D, s, ok)
  BY <1>4, <1>5, <1>10, <1>12 DEF Leads
<1> QED
  BY <1>1, <1>13

LEMMA TokenOfState ==
  ASSUME NEW A, NEW Q, NEW K, NEW w, NEW c
  PROVE  /\ A[c.of].token = None => TokenOf(State(A, Q, K, w), c) = NoToken
         /\ A[c.of].token # None => TokenOf(State(A, Q, K, w), c) = K[A[c.of].token]
PROOF
<1>1. State(A, Q, K, w).act = A /\ State(A, Q, K, w).token = K
  BY StateFields
<1> QED
  BY <1>1 DEF TokenOf

\* The first command of a chain, and the state with another in its place.
LEMMA HeadLeads ==
  ASSUME NEW A, NEW Q, NEW K, NEW w, NEW D, NEW ok, Typed(A, Q, K), Bare(A), NEW q \in Q,
         NEW n \in Command, Job(n) = Job(q[1]), n.kind # "noop",
         \A R : HeadsOf(R) = (HeadsOf(Q) \ {q[1]}) \cup {n} /\ Jobs(R) = Jobs(Q) /\ Order(R) = Order(Q)
                /\ ok /\ Fit(A, Q, K, w, D) => Fit(A, R, K, w, D)
  PROVE  Leads(A, Q, K, w, D, SetHead(State(A, Q, K, w), q, n), ok)
PROOF
<1>1. PICK s : s = SetHead(State(A, Q, K, w), q, n)
  OBVIOUS
<1>2. HeadIsSet(A, Q, K, w, q, n, s)
  BY <1>1, SetHeadDoes
<1>3. PICK R : HeadSetTo(A, Q, K, w, q, n, s, R)
  BY <1>2 DEF HeadIsSet
<1>4. /\ s = State(A, R, K, w) /\ Typed(A, R, K)
      /\ Jobs(R) = Jobs(Q) /\ Order(R) = Order(Q)
      /\ HeadsOf(R) = (HeadsOf(Q) \ {q[1]}) \cup {n}
  BY <1>3 DEF HeadSetTo
<1>5. ok /\ Fit(A, Q, K, w, D) => Fit(A, R, K, w, D)
  BY <1>4
<1>6. Leads(A, Q, K, w, D, s, ok)
  BY <1>4, <1>5 DEF Leads
<1> QED
  BY <1>1, <1>6

LEMMA TypedHead ==
  ASSUME NEW A, NEW Q, NEW K, Typed(A, Q, K), NEW q \in Q
  PROVE  /\ q[1] = Head(q) /\ q[1] \in Command /\ q[1] \in HeadsOf(Q) /\ q[1].of \in Activities
         /\ A[q[1].of].token \in Tokens \cup {None}
         /\ A \in [Activities -> ActivityState] /\ K \in [Tokens -> TokenState]
         /\ TokenAt(View(A), q[1]) = A[q[1].of].token
         /\ Lined(Jobs(Q), Order(Q), HeadsOf(Q))
PROOF
<1>1. A \in [Activities -> ActivityState] /\ K \in [Tokens -> TokenState] /\ Chained(Q)
  BY DEF Typed
<1>2. q[1] = Head(q) /\ q[1] \in Command
  BY <1>1, ChainedCommand
<1>3. q[1].of \in Activities
  BY <1>2 DEF Command
<1>4. A[q[1].of].token \in Tokens \cup {None} /\ TokenAt(View(A), q[1]) = A[q[1].of].token
  BY <1>1, <1>3 DEF ActivityState, TokenAt, View
<1> QED
  BY <1>1, <1>2, <1>3, <1>4, ChainsLined DEF HeadsOf

\* Persist.
LEMMA PersistLeads ==
  ASSUME NEW A, NEW Q, NEW K, NEW w, NEW D, Typed(A, Q, K), Bare(A), Records(D), PersistAssumption,
         NEW q \in Q, Head(q).status = "waiting"
  PROVE  Leads(A, Q, K, w, D, Persist(State(A, Q, K, w), q), TRUE)
PROOF
<1>1. PICK c : c = q[1]
  OBVIOUS
<1>2. /\ c = Head(q) /\ c \in Command /\ c \in HeadsOf(Q) /\ c.of \in Activities
      /\ A[c.of].token \in Tokens \cup {None}
      /\ A \in [Activities -> ActivityState] /\ K \in [Tokens -> TokenState]
      /\ TokenAt(View(A), c) = A[c.of].token
      /\ Lined(Jobs(Q), Order(Q), HeadsOf(Q))
  BY <1>1, TypedHead
<1>3. State(A, Q, K, w).act = A
  BY StateFields
<1>4. /\ A[c.of].token = None => TokenOf(State(A, Q, K, w), c) = NoToken
      /\ A[c.of].token # None => TokenOf(State(A, Q, K, w), c) = K[A[c.of].token]
  BY TokenOfState
<1>5. ASSUME c.kind = "noop" \/ ~Valid(State(A, Q, K, w), c)
      PROVE  Leads(A, Q, K, w, D, Persist(State(A, Q, K, w), q), TRUE)
  <2>1. Persist(State(A, Q, K, w), q) = Complete(State(A, Q, K, w), q)
    BY <1>2, <1>5 DEF Persist
  <2>2. c.kind = "noop" \/ A[c.of].token = None \/ (c.kind = "delete" /\ ~K[A[c.of].token].valid)
    BY <1>3, <1>4, <1>5 DEF Valid
  <2>3. Idle(View(A), K, c)
    BY <1>2, <2>2 DEF Idle
  <2>4. TRUE /\ Fit(A, Q, K, w, D) => \E V \in [Tokens -> TokenState] :
          SoundIn(A, Q, K, V, w, D) /\ Ripe(View(A), K, q[1], V, K)
    BY <1>1, <2>3, FitSound DEF Ripe
  <2>5. Leads(A, Q, K, w, D, Complete(State(A, Q, K, w), q), TRUE)
    BY <1>2, <2>4, CompleteLeads
  <2> QED
    BY <2>1, <2>5
<1>6. ASSUME c.kind # "noop", Valid(State(A, Q, K, w), c)
      PROVE  Leads(A, Q, K, w, D, Persist(State(A, Q, K, w), q), TRUE)
  <2>1. A[c.of].token # None /\ (c.kind = "delete" => K[A[c.of].token].valid)
    BY <1>3, <1>4, <1>6 DEF Valid
  <2>2. PICK n : n = [c EXCEPT !.status = "sent", !.version = A[c.of].version,
                               !.record = K[A[c.of].token].record]
    OBVIOUS
  <2>3. Persist(State(A, Q, K, w), q) = SetHead(State(A, Q, K, w), q, n)
    BY <1>2, <1>3, <1>4, <1>6, <2>1, <2>2 DEF Persist
  <2>4. A[c.of].version \in 0..MaxVersion /\ K[A[c.of].token].record \in Ids \cup {None}
    BY <1>2, <2>1 DEF ActivityState, TokenState
  <2>5. /\ n \in Command /\ n.status = "sent" /\ n.version = A[c.of].version
        /\ n.record = K[A[c.of].token].record
        /\ n.id = c.id /\ n.kind = c.kind /\ n.of = c.of /\ n.finish = c.finish
    BY <1>2, <2>2, <2>4 DEF Command
  <2>6. Job(n) = Job(c)
    BY <2>5 DEF Job
  <2>7. ASSUME NEW R, HeadsOf(R) = (HeadsOf(Q) \ {q[1]}) \cup {n}, Jobs(R) = Jobs(Q), Order(R) = Order(Q),
               Fit(A, Q, K, w, D)
        PROVE  Fit(A, R, K, w, D)
    <3>1. PICK V \in [Tokens -> TokenState] : SoundIn(A, Q, K, V, w, D)
      BY <2>7, FitSound
    <3>2. Sound(View(A), Jobs(Q), Order(Q), K, V, D, HeadsOf(Q), w)
      BY <3>1 DEF SoundIn
    <3>3. Reheads(HeadsOf(Q), c, n, HeadsOf(R))
      BY <1>1, <1>2, <2>5, <2>7 DEF Reheads
    <3>4. /\ \A a \in Activities : View(A)[a].version \in Nat
          /\ View(A)[c.of].version = A[c.of].version
      BY <1>2, VersionsNat
    <3>5. Sound(View(A), Jobs(Q), Order(Q), K, V, D, HeadsOf(R), w)
      BY <1>2, <1>6, <2>1, <2>5, <3>2, <3>3, <3>4, CallMade
    <3> QED
      BY <2>7, <3>1, <3>5, FitSound DEF SoundIn
  <2>8. Leads(A, Q, K, w, D, SetHead(State(A, Q, K, w), q, n), TRUE)
    BY <1>1, <1>6, <2>5, <2>6, <2>7, HeadLeads
  <2> QED
    BY <2>3, <2>8
<1> QED
  BY <1>5, <1>6

\* A call that fails for now, or that is made again.
LEMMA RepeatLeads ==
  ASSUME NEW A, NEW Q, NEW K, NEW w, NEW D, Typed(A, Q, K), Bare(A), NEW q \in Q,
         NEW status \in {"sent", "transient", "permanent"},
         q[1].status \in {"sent", "transient"}
  PROVE  Leads(A, Q, K, w, D, SetHead(State(A, Q, K, w), q, [q[1] EXCEPT !.status = status]),
               status # "permanent")
PROOF
<1>1. PICK c : c = q[1]
  OBVIOUS
<1>2. c \in Command /\ c \in HeadsOf(Q)
  BY <1>1, TypedHead
<1>3. PICK n : n = [c EXCEPT !.status = status]
  OBVIOUS
<1>4. /\ n \in Command /\ n.status = status /\ n.version = c.version /\ n.record = c.record
      /\ n.id = c.id /\ n.kind = c.kind /\ n.of = c.of /\ n.finish = c.finish
  BY <1>2, <1>3 DEF Command
<1>5. Job(n) = Job(c)
  BY <1>4 DEF Job
<1>6. ASSUME NEW R, HeadsOf(R) = (HeadsOf(Q) \ {q[1]}) \cup {n}, Jobs(R) = Jobs(Q), Order(R) = Order(Q),
             status # "permanent", Fit(A, Q, K, w, D)
      PROVE  Fit(A, R, K, w, D)
  <2>1. PICK V \in [Tokens -> TokenState] : SoundIn(A, Q, K, V, w, D)
    BY <1>6, FitSound
  <2>2. Sound(View(A), Jobs(Q), Order(Q), K, V, D, HeadsOf(Q), w)
    BY <2>1 DEF SoundIn
  <2>3. Reheads(HeadsOf(Q), c, n, HeadsOf(R))
    BY <1>1, <1>2, <1>4, <1>6 DEF Reheads
  <2>4. c.status \in {"sent", "transient"} /\ n.status \in {"sent", "transient"}
    BY <1>1, <1>4, <1>6
  <2>5. Sound(View(A), Jobs(Q), Order(Q), K, V, D, HeadsOf(R), w)
    BY <1>4, <2>2, <2>3, <2>4, CallRepeated
  <2> QED
    BY <1>6, <2>1, <2>5, FitSound DEF SoundIn
<1>7. c.kind # "noop"
  <2>1. 1 \in DOMAIN q /\ c.status # "waiting"
    BY <1>1, ChainedCommand DEF Typed
  <2> QED
    BY <1>1, <2>1 DEF Typed, InTurn
<1> QED
  BY <1>1, <1>3, <1>4, <1>5, <1>6, <1>7, HeadLeads

\* PersistResponse.
Responds(A, Q, K, w, q) ==
  LET c == q[1]
      now == State(A, Q, K, w)
      s == IF c.status # "ok" THEN now
           ELSE IF c.kind = "delete" THEN ClearToken(now, c)
           ELSE IF Accepts(now, c) THEN SetToken(now, c) ELSE now
  IN IF c.status = "transient" THEN SetHead(s, q, [c EXCEPT !.status = "sent"]) ELSE Complete(s, q)

\* A reply to a call that db8 has done.
LEMMA ReplyLeads ==
  ASSUME NEW A, NEW Q, NEW K, NEW w, NEW D, Typed(A, Q, K), Bare(A), Records(D), NEW q \in Q,
         q[1].status = "ok", NEW K2 \in [Tokens -> TokenState],
         Fit(A, Q, K, w, D) => K2 = [K EXCEPT ![A[q[1].of].token] = Result(q[1])]
  PROVE  Leads(A, Q, K, w, D, Complete(State(A, Q, K2, w), q), TRUE)
PROOF
<1>1. PICK c : c = q[1]
  OBVIOUS
<1>2. /\ c \in HeadsOf(Q) /\ TokenAt(View(A), c) = A[c.of].token
      /\ A \in [Activities -> ActivityState] /\ K \in [Tokens -> TokenState]
  BY <1>1, TypedHead
<1>3. Typed(A, Q, K2)
  BY <1>2, TypedSame
<1>4. ASSUME Fit(A, Q, K, w, D)
      PROVE  \E V \in [Tokens -> TokenState] : SoundIn(A, Q, K, V, w, D) /\ Ripe(View(A), K, q[1], V, K2)
  <2>1. PICK V \in [Tokens -> TokenState] : SoundIn(A, Q, K, V, w, D)
    BY <1>4, FitSound
  <2>2. c \in Ahead(HeadsOf(Q))
    BY <1>1, <1>2 DEF Ahead
  <2>3. V = [K EXCEPT ![TokenAt(View(A), c)] = Result(c)]
    BY <2>1, <2>2 DEF SoundIn, Sound, Follows
  <2>4. V = K2
    BY <1>1, <1>2, <1>4, <2>3
  <2> QED
    BY <1>1, <2>1, <2>4 DEF Ripe, Done
<1> QED
  BY <1>2, <1>3, <1>4, CompleteLeads

\* A reply, on the state.
LEMMA RespondLeads ==
  ASSUME NEW A, NEW Q, NEW K, NEW w, NEW D, Typed(A, Q, K), Bare(A), Records(D), NEW q \in Q,
         q[1].status \in {"ok", "transient", "permanent"}
  PROVE  Leads(A, Q, K, w, D, Responds(A, Q, K, w, q), TRUE)
PROOF
<1>1. PICK c : c = q[1]
  OBVIOUS
<1>2. /\ c \in Command /\ c \in HeadsOf(Q) /\ c.of \in Activities /\ TokenAt(View(A), c) = A[c.of].token
      /\ A[c.of].token \in Tokens \cup {None}
      /\ A \in [Activities -> ActivityState] /\ K \in [Tokens -> TokenState]
  BY <1>1, TypedHead
<1>3. c.kind \in {"store", "delete"}
  <2>1. 1 \in DOMAIN q
    BY ChainedCommand DEF Typed
  <2>2. c.kind # "noop"
    BY <1>1, <2>1 DEF Typed, InTurn
  <2> QED
    BY <1>2, <2>2 DEF Command
<1>4. State(A, Q, K, w).act = A /\ State(A, Q, K, w).token = K
  BY StateFields
<1>5. CASE c.status = "transient"
  <2>1. Responds(A, Q, K, w, q) = SetHead(State(A, Q, K, w), q, [c EXCEPT !.status = "sent"])
    BY <1>1, <1>5 DEF Responds
  <2>2. Leads(A, Q, K, w, D, SetHead(State(A, Q, K, w), q, [q[1] EXCEPT !.status = "sent"]), "sent" # "permanent")
    BY <1>1, <1>5, RepeatLeads
  <2>3. ("sent" # "permanent") = TRUE
    OBVIOUS
  <2> QED
    BY <1>1, <2>1, <2>2, <2>3
<1>6. CASE c.status = "permanent"
  <2>1. Responds(A, Q, K, w, q) = Complete(State(A, Q, K, w), q)
    BY <1>1, <1>6 DEF Responds
  <2>2. ~Fit(A, Q, K, w, D)
    <3>1. SUFFICES ASSUME NEW V, SoundIn(A, Q, K, V, w, D)
                   PROVE  FALSE
      BY FitSound
    <3>2. Calls(View(A), Jobs(Q), K, V, D, HeadsOf(Q))
      BY <3>1 DEF SoundIn, Sound
    <3>3. Calling(View(A), Jobs(Q), K, V, D, c)
      BY <1>2, <1>6, <3>2 DEF Calls, Working
    <3> QED
      BY <1>6, <3>3 DEF Calling
  <2>3. Leads(A, Q, K, w, D, Complete(State(A, Q, K, w), q), TRUE)
    BY <1>2, <2>2, CompleteLeads
  <2> QED
    BY <2>1, <2>3
<1>7. CASE c.status = "ok" /\ c.kind = "store"
  <2>1. /\ A[c.of].token = None => TokenOf(State(A, Q, K, w), c) = NoToken
        /\ A[c.of].token # None => TokenOf(State(A, Q, K, w), c) = K[A[c.of].token]
    BY TokenOfState
  <2>2. PICK K3 : K3 = [K EXCEPT ![A[c.of].token] = Result(c)]
    OBVIOUS
  <2>3. Result(c) = [valid |-> TRUE, record |-> c.record, rev |-> c.rev] /\ Result(c) \in TokenState
    BY <1>2, <1>7 DEF Result, TokenState, Command
  <2>4. K3 \in [Tokens -> TokenState]
    BY <1>2, <2>2, <2>3
  <2>5. SetToken(State(A, Q, K, w), c) = State(A, Q, K3, w)
    <3>1. PICK t : t = A[c.of].token
      OBVIOUS
    <3>2. SetToken(State(A, Q, K, w), c) = [State(A, Q, K, w) EXCEPT !.token[t] = Result(c)]
      BY <1>4, <2>3, <3>1 DEF SetToken
    <3> QED
      BY <2>2, <3>1, <3>2 DEF State
  <2>6. CASE Accepts(State(A, Q, K, w), c)
    <3>1. Responds(A, Q, K, w, q) = Complete(State(A, Q, K3, w), q)
      BY <1>1, <1>7, <2>5, <2>6 DEF Responds
    <3>2. Leads(A, Q, K, w, D, Complete(State(A, Q, K3, w), q), TRUE)
      BY <1>1, <1>7, <2>2, <2>4, ReplyLeads
    <3> QED
      BY <3>1, <3>2
  <2>7. CASE ~Accepts(State(A, Q, K, w), c)
    <3>1. Responds(A, Q, K, w, q) = Complete(State(A, Q, K, w), q)
      BY <1>1, <1>7, <2>7 DEF Responds
    <3>2. ~Fit(A, Q, K, w, D)
      <4>1. SUFFICES ASSUME NEW V, SoundIn(A, Q, K, V, w, D)
                     PROVE  FALSE
        BY FitSound
      <4>2. Calls(View(A), Jobs(Q), K, V, D, HeadsOf(Q))
        BY <4>1 DEF SoundIn, Sound
      <4>3. Calling(View(A), Jobs(Q), K, V, D, c)
        BY <1>2, <1>7, <4>2 DEF Calls, Working
      <4>4. /\ A[c.of].token # None
            /\ K[A[c.of].token].valid =>
                 K[A[c.of].token].record = c.record /\ K[A[c.of].token].rev <= c.rev
        BY <1>2, <1>7, <4>3 DEF Calling
      <4> QED
        BY <1>4, <2>1, <2>7, <4>4 DEF Accepts
    <3>3. Leads(A, Q, K, w, D, Complete(State(A, Q, K, w), q), TRUE)
      BY <1>2, <3>2, CompleteLeads
    <3> QED
      BY <3>1, <3>3
  <2> QED
    BY <2>6, <2>7
<1>8. CASE c.status = "ok" /\ c.kind = "delete"
  <2>1. PICK K3 : K3 = [K EXCEPT ![A[c.of].token] = Result(c)]
    OBVIOUS
  <2>2. Result(c) = NoToken /\ NoToken \in TokenState
    BY <1>8 DEF Result, TokenState, NoToken
  <2>3. K3 \in [Tokens -> TokenState]
    BY <1>2, <2>1, <2>2
  <2>4. ClearToken(State(A, Q, K, w), c) = State(A, Q, K3, w)
    <3>1. PICK t : t = A[c.of].token
      OBVIOUS
    <3>2. ClearToken(State(A, Q, K, w), c) = [State(A, Q, K, w) EXCEPT !.token[t] = Result(c)]
      BY <1>4, <2>2, <3>1 DEF ClearToken
    <3> QED
      BY <2>1, <3>1, <3>2 DEF State
  <2>5. Responds(A, Q, K, w, q) = Complete(State(A, Q, K3, w), q)
    BY <1>1, <1>8, <2>4 DEF Responds
  <2>6. Leads(A, Q, K, w, D, Complete(State(A, Q, K3, w), q), TRUE)
    BY <1>1, <1>8, <2>1, <2>3, ReplyLeads
  <2> QED
    BY <2>5, <2>6
<1> QED
  BY <1>1, <1>3, <1>5, <1>6, <1>7, <1>8

\* What leads to state s, and to the records D2.
LeadsTo(A, Q, K, w, D, s, D2) == \E R :
  /\ s = State(A, R, K, w) /\ Typed(A, R, K)
  /\ Fit(A, Q, K, w, D) => Fit(A, R, K, w, D2)

\* db8 does what the first command of a chain asks for.
LEMMA DbLeads ==
  ASSUME NEW A, NEW Q, NEW K, NEW w, NEW D, Typed(A, Q, K), Records(D), NEW q \in Q, NEW c, c = q[1],
         NEW n \in Command, Job(n) = Job(c), c.status = "sent", n.status = "ok", n.version = c.version,
         NEW D2,
         \/ Puts(D, c, n, D2)
         \/ c.kind = "delete" /\ n.record = c.record /\ DOMAIN D2 = DOMAIN D \ {c.record}
  PROVE  LeadsTo(A, Q, K, w, D, SetHead(State(A, Q, K, w), q, n), D2)
PROOF
<1>1. /\ c \in Command /\ c \in HeadsOf(Q) /\ TokenAt(View(A), c) = A[c.of].token
      /\ A[c.of].token \in Tokens \cup {None}
      /\ Lined(Jobs(Q), Order(Q), HeadsOf(Q))
  BY TypedHead
<1>2. n.kind = c.kind /\ n.of = c.of /\ n.finish = c.finish
  BY JobFields
<1>3. n.kind # "noop"
  BY <1>2 DEF Puts
<1>4. PICK s : s = SetHead(State(A, Q, K, w), q, n)
  OBVIOUS
<1>5. HeadIsSet(A, Q, K, w, q, n, s)
  BY <1>3, <1>4, SetHeadDoes
<1>6. PICK R : HeadSetTo(A, Q, K, w, q, n, s, R)
  BY <1>5 DEF HeadIsSet
<1>7. /\ s = State(A, R, K, w) /\ Typed(A, R, K)
      /\ Jobs(R) = Jobs(Q) /\ Order(R) = Order(Q)
      /\ HeadsOf(R) = (HeadsOf(Q) \ {c}) \cup {n}
  BY <1>6 DEF HeadSetTo
<1>8. ASSUME Fit(A, Q, K, w, D)
      PROVE  Fit(A, R, K, w, D2)
  <2>1. PICK V \in [Tokens -> TokenState] : SoundIn(A, Q, K, V, w, D)
    BY <1>8, FitSound
  <2>2. Sound(View(A), Jobs(Q), Order(Q), K, V, D, HeadsOf(Q), w)
    BY <2>1 DEF SoundIn
  <2>3. PICK V2 : V2 = [V EXCEPT ![TokenAt(View(A), c)] = Result(n)]
    OBVIOUS
  <2>4. V2 \in [Tokens -> TokenState]
    <3>1. Result(n) \in TokenState
      BY DEF Result, NoToken, TokenState, Command
    <3> QED
      BY <2>3, <3>1
  <2>5. Serves(View(A), V, HeadsOf(Q), c, n, HeadsOf(R), V2)
    BY <1>1, <1>2, <1>7, <2>3 DEF Serves, Reheads
  <2>6. Sound(View(A), Jobs(Q), Order(Q), K, V2, D2, HeadsOf(R), w)
    <3>1. CASE Puts(D, c, n, D2)
      BY <1>1, <2>2, <2>5, <3>1, StoreDone
    <3>2. CASE c.kind = "delete" /\ n.record = c.record /\ DOMAIN D2 = DOMAIN D \ {c.record}
      BY <1>1, <2>2, <2>5, <3>2, DeleteDone
    <3> QED
      BY <3>1, <3>2
  <2> QED
    BY <1>7, <2>4, <2>6, FitSound DEF SoundIn
<1> QED
  BY <1>4, <1>7, <1>8 DEF LeadsTo

-----------------------------------------------------------------------------
(* The steps.                                                              *)

\* Each record has a revision of its own.
DbTyped(D) ==
  /\ D \in [DOMAIN D -> Record] /\ IsFiniteSet(DOMAIN D) /\ DOMAIN D \subseteq Ids
  /\ \A r, s \in DOMAIN D : D[r].rev = D[s].rev => r = s

\* What db8 holds are records.
LEMMA DbRecords ==
  ASSUME NEW D, DbTyped(D)
  PROVE  Records(D) /\ \A r \in DOMAIN D : D[r].rev \in Nat
BY DEF DbTyped, Records, Record

\* A put: no revision is greater than the new one.
Revises(D, rev) == rev \in Nat /\ \A r \in DOMAIN D : D[r].rev < rev

LEMMA NextRevision ==
  ASSUME NEW D, DbTyped(D)
  PROVE  Revises(D, 1 + Max({0} \cup {D[i].rev : i \in DOMAIN D}))
PROOF
<1> DEFINE revs == {D[i].rev : i \in DOMAIN D}
           S == {0} \cup revs
<1>1. \A r \in DOMAIN D : D[r].rev \in Nat
  BY DbRecords
<1>2. IsFiniteSet(revs)
  <2> DEFINE f == [i \in DOMAIN D |-> D[i].rev]
  <2>1. f \in Surjection(DOMAIN D, revs)
    BY DEF Surjection
  <2>2. IsFiniteSet(DOMAIN D)
    BY DEF DbTyped
  <2> HIDE DEF revs, f
  <2> QED
    BY <2>1, <2>2, FS_Surjection DEF ExistsSurjection
<1>3. IsFiniteSet(S) /\ S \in SUBSET Nat /\ S # {}
  <2>1. \A x \in revs : x \in Nat
    BY <1>1
  <2>2. IsFiniteSet(revs \cup {0})
    <3> HIDE DEF revs
    <3> QED
      BY <1>2, FS_AddElement
  <2>3. revs \cup {0} = S
    OBVIOUS
  <2>4. IsFiniteSet(S)
    <3> HIDE DEF S, revs
    <3> QED
      BY <2>2, <2>3
  <2>5. S \in SUBSET Nat
    <3>1. \A x \in S : x = 0 \/ x \in revs
      OBVIOUS
    <3>2. \A x \in S : x \in Nat
      <4> HIDE DEF S, revs
      <4> QED
        BY <2>1, <3>1
    <3> HIDE DEF S, revs
    <3> QED
      BY <3>2
  <2>6. 0 \in S
    OBVIOUS
  <2> HIDE DEF S
  <2> QED
    BY <2>4, <2>5, <2>6
<1>4. PICK m : m = Max(S)
  OBVIOUS
<1>5. m \in S /\ \A x \in S : m >= x
  <2> HIDE DEF S
  <2>1. \E k \in S : \A x \in S : k >= x
    BY <1>3, MaxInSet
  <2> QED
    BY <1>4, <2>1 DEF Max
<1>6. Revises(D, 1 + m)
  <2>1. m \in Nat /\ \A r \in DOMAIN D : D[r].rev \in S /\ D[r].rev <= m
    <3>1. \A r \in DOMAIN D : D[r].rev \in S
      OBVIOUS
    <3> HIDE DEF S
    <3> QED
      BY <1>1, <1>3, <1>5, <3>1
  <2> QED
    BY <1>1, <2>1 DEF Revises
<1> QED
  BY <1>4, <1>6

\* db8 has done what command c asks for; n is the command with the reply.
Did(D, c, n, D2) ==
  /\ n \in Command /\ Job(n) = Job(c) /\ n.status = "ok" /\ n.version = c.version
  /\ DbTyped(D2)
  /\ \/ Puts(D, c, n, D2)
     \/ c.kind = "delete" /\ n.record = c.record /\ DOMAIN D2 = DOMAIN D \ {c.record}

\* A put, as Persist has it.
LEMMA PutDoes ==
  ASSUME DbTyped(db), NEW c \in Command, c.kind = "store"
  PROVE  Did(db, c, Put(c).head, Put(c).db)
PROOF
<1>1. PICK r : r = IF c.record = None THEN Unused(DOMAIN db) ELSE c.record
  OBVIOUS
<1>2. PICK rev : rev = 1 + Max({0} \cup {db[i].rev : i \in DOMAIN db})
  OBVIOUS
<1>3. Revises(db, rev)
  BY <1>2, NextRevision
<1>4. r \in Ids
  <2>1. c.record \in Ids \cup {None}
    BY DEF Command
  <2>2. Unused(DOMAIN db) \in Ids
    <3>1. /\ Cardinality(DOMAIN db) \in Nat
          /\ Unused(DOMAIN db) \in 1..(Cardinality(DOMAIN db) + 1)
      BY UnusedIsFresh DEF DbTyped
    <3> QED
      BY <3>1 DEF Ids, None
  <2> QED
    BY <1>1, <2>1, <2>2
<1>5. PICK x : x = [of |-> c.of, version |-> c.version, rev |-> rev]
  OBVIOUS
<1>6. PICK n : n = [c EXCEPT !.status = "ok", !.record = r, !.rev = rev]
  OBVIOUS
<1>7. PICK D2 : D2 = [i \in DOMAIN db \cup {r} |-> IF i = r THEN x ELSE db[i]]
  OBVIOUS
<1>8. Put(c).head = n /\ Put(c).db = D2
  BY <1>1, <1>2, <1>5, <1>6, <1>7 DEF Put
<1>9. x \in Record /\ x.of = c.of /\ x.version = c.version /\ x.rev = rev
  BY <1>3, <1>5 DEF Record, Command, Revises
<1>10. /\ n \in Command /\ n.status = "ok" /\ n.version = c.version /\ n.record = r /\ n.rev = rev
       /\ n.id = c.id /\ n.kind = c.kind /\ n.of = c.of /\ n.finish = c.finish
  BY <1>3, <1>4, <1>6 DEF Command, Revises
<1>11. /\ DOMAIN D2 = DOMAIN db \cup {r} /\ D2[r] = x
       /\ \A i \in DOMAIN db : i # r => D2[i] = db[i]
  BY <1>7
<1>12. DbTyped(D2)
  <2>1. D2 \in [DOMAIN D2 -> Record]
    BY <1>7, <1>9, <1>11 DEF DbTyped
  <2>2. IsFiniteSet(DOMAIN D2)
    BY <1>11, FS_AddElement DEF DbTyped
  <2>3. DOMAIN D2 \subseteq Ids
    BY <1>4, <1>11 DEF DbTyped
  <2>4. \A i, j \in DOMAIN D2 : D2[i].rev = D2[j].rev => i = j
    <3>1. \A i \in DOMAIN db : db[i].rev < rev /\ db[i].rev \in Nat
      BY <1>3, DbRecords DEF Revises
    <3>2. \A i \in DOMAIN D2 : i # r => i \in DOMAIN db /\ D2[i].rev = db[i].rev
      BY <1>11
    <3>3. D2[r].rev = rev /\ rev \in Nat
      BY <1>3, <1>9, <1>11 DEF Revises
    <3>4. \A i \in DOMAIN D2 : i # r => D2[i].rev # rev
      BY <3>1, <3>2, <3>3
    <3> QED
      BY <3>2, <3>3, <3>4 DEF DbTyped
  <2> QED
    BY <2>1, <2>2, <2>3, <2>4 DEF DbTyped
<1>13. Puts(db, c, n, D2)
  <2>1. c.record # None => r = c.record
    BY <1>1
  <2>2. r # None
    BY <1>4 DEF Ids
  <2>3. \A i \in DOMAIN db : db[i].rev <= rev
    BY <1>3, DbRecords DEF Revises
  <2> QED
    BY <1>5, <1>10, <1>11, <2>1, <2>2, <2>3 DEF Puts
<1> QED
  BY <1>8, <1>10, <1>12, <1>13 DEF Did, Job

\* A delete, as Persist has it.
LEMMA DelDoes ==
  ASSUME DbTyped(db), NEW c \in Command, c.kind = "delete"
  PROVE  Did(db, c, Del(c).head, Del(c).db)
PROOF
<1>1. PICK n : n = [c EXCEPT !.status = "ok"]
  OBVIOUS
<1>2. PICK D2 : D2 = [i \in DOMAIN db \ {c.record} |-> db[i]]
  OBVIOUS
<1>3. Del(c).head = n /\ Del(c).db = D2
  BY <1>1, <1>2 DEF Del
<1>4. /\ n \in Command /\ n.status = "ok" /\ n.version = c.version /\ n.record = c.record
      /\ n.id = c.id /\ n.kind = c.kind /\ n.of = c.of /\ n.finish = c.finish
  BY <1>1 DEF Command
<1>5. DOMAIN D2 = DOMAIN db \ {c.record} /\ \A i \in DOMAIN D2 : D2[i] = db[i]
  BY <1>2
<1>6. DbTyped(D2)
  <2>1. D2 \in [DOMAIN D2 -> Record]
    BY <1>2, <1>5 DEF DbTyped
  <2>2. IsFiniteSet(DOMAIN D2)
    BY <1>5, FS_Subset DEF DbTyped
  <2> QED
    BY <1>5, <2>1, <2>2 DEF DbTyped
<1> QED
  BY <1>3, <1>4, <1>5, <1>6 DEF Did, Job

-----------------------------------------------------------------------------
(* The invariant of the specification.                                     *)

\* What boot is.
BootTyped(b) ==
  /\ b = [phase |-> b.phase, loaded |-> b.loaded, old |-> b.old, enabled |-> b.enabled]
  /\ b.phase \in {"loading", "purging", "done", "stuck"}

\* What holds whatever fails.
Structure ==
  /\ Typed(act, chains, token) /\ Bare(act) /\ DbTyped(db) /\ BootTyped(boot)
  /\ boot.phase = "loading" => chains = {}

\* What a step does to the Activities, the chains and the tokens.
Steps(ok) ==
  /\ Typed(act', chains', token') /\ Bare(act')
  /\ ok /\ Fit(act, chains, token, told, db) => Fit(act', chains', token', told', db')

LEMMA NowIs == Now = State(act, chains, token, told)
BY DEF Now, State

\* From a state that an operation leads to, to the next state.
LEMMA Led ==
  ASSUME NEW s, NEW ok, Leads(act, chains, token, told, db, s, ok), Become(s), db' = db
  PROVE  Steps(ok)
PROOF
<1>1. PICK A2, Q2, K2, w2 :
        /\ s = State(A2, Q2, K2, w2)
        /\ Typed(A2, Q2, K2) /\ Bare(A2)
        /\ ok /\ Fit(act, chains, token, told, db) => Fit(A2, Q2, K2, w2, db)
  BY DEF Leads
<1>2. act' = A2 /\ chains' = Q2 /\ token' = K2 /\ told' = w2
  BY <1>1, StateFields DEF Become
<1> QED
  BY <1>1, <1>2 DEF Steps

\* A call is served when all is loaded and no head is to be looked at.
LEMMA Serves1 ==
  ASSUME Structure, CanCall, PersistAssumption
  PROVE  Serving(act, chains, token, db)
PROOF
<1>1. \A h \in HeadsOf(chains) : Working(h)
  <2> SUFFICES ASSUME NEW q \in chains PROVE q[1].status # "waiting"
    BY DEF HeadsOf, Working
  <2>1. Head(q) = q[1]
    BY ChainedCommand DEF Structure, Typed
  <2> QED
    BY <2>1 DEF CanCall, Busy
<1> QED
  BY <1>1, DbRecords DEF Serving, Structure

LEMMA NamedIs == Named = NamedOf(act)
BY DEF Named, NamedOf

\* The steps, one by one.
LEMMA CreateSteps ==
  ASSUME Structure, PersistAssumption, NEW a \in Activities, NEW p \in BOOLEAN, Create(a, p)
  PROVE  Steps(TRUE)
PROOF
<1>1. Serving(act, chains, token, db) /\ act[a].life = "new" /\ NamedOf(act) = {}
  BY Serves1, NamedIs DEF Create
<1>2. PICK s : s = EnsureCompletion(
          SetAct(State(act, chains, token, told), a,
                 [act[a] EXCEPT !.life = "live", !.named = TRUE, !.persistent = p]), a, "store", "create")
  OBVIOUS
<1>3. Leads(act, chains, token, told, db, s, TRUE)
  BY <1>1, <1>2, CreateLeads
<1>4. Become(s) /\ db' = db
  BY <1>2, NowIs DEF Create
<1> QED
  BY <1>3, <1>4, Led

LEMMA ReplaceSteps ==
  ASSUME Structure, PersistAssumption, NEW a \in Activities, NEW old \in Activities,
         NEW p \in BOOLEAN, Replace(a, old, p)
  PROVE  Steps(TRUE)
PROOF
<1>1. Serving(act, chains, token, db) /\ act[a].life = "new" /\ old \in NamedOf(act)
  BY Serves1, NamedIs DEF Replace
<1>2. PICK s : s = EnsureReplaceCompletion(
                 SetAct(SetAct(State(act, chains, token, told), old,
                               [act[old] EXCEPT !.intCommand = TRUE, !.ending = TRUE, !.named = FALSE]),
                        a, [act[a] EXCEPT !.life = "live", !.named = TRUE, !.persistent = p]),
                 old, a)
  OBVIOUS
<1>3. Leads(act, chains, token, told, db, s, TRUE)
  BY <1>1, <1>2, ReplaceLeads
<1>4. Become(s) /\ db' = db
  BY <1>2, NowIs DEF Replace
<1> QED
  BY <1>3, <1>4, Led

LEMMA UpdateSteps ==
  ASSUME Structure, PersistAssumption, NEW a \in Activities, Update(a)
  PROVE  Steps(~act[a].intCommand)
PROOF
<1>1. /\ Serving(act, chains, token, db)
      /\ act[a].life = "live" /\ ~act[a].extCommand /\ act[a].version < MaxVersion
  BY Serves1 DEF Update
<1>2. PICK s : s = EnsureCompletion(SetAct(State(act, chains, token, told), a,
                                           [act[a] EXCEPT !.version = @ + 1]), a, "store", "update")
  OBVIOUS
<1>3. Leads(act, chains, token, told, db, s, ~act[a].intCommand)
  BY <1>1, <1>2, UpdateLeads
<1>4. Become(s) /\ db' = db
  BY <1>2, NowIs DEF Update
<1> QED
  BY <1>3, <1>4, Led

LEMMA EndSteps ==
  ASSUME Structure, PersistAssumption, NEW a \in Activities, End(a)
  PROVE  Steps(TRUE)
PROOF
<1>1. Serving(act, chains, token, db) /\ act[a].life = "live" /\ ~act[a].extCommand
  BY Serves1 DEF End
<1>2. PICK s : s = EnsureCompletion(SetAct(State(act, chains, token, told), a,
                                           [act[a] EXCEPT !.extCommand = TRUE, !.ending = TRUE]),
                                    a, "delete", "end")
  OBVIOUS
<1>3. Leads(act, chains, token, told, db, s, TRUE)
  BY <1>1, <1>2, EndLeads
<1>4. Become(s) /\ db' = db
  BY <1>2, NowIs DEF End
<1> QED
  BY <1>3, <1>4, Led

LEMMA CallbackSteps ==
  ASSUME Structure, PersistAssumption, NEW a \in Activities, CallbackFails(a)
  PROVE  Steps(~act[a].persistent)
PROOF
<1>1. Serving(act, chains, token, db) /\ act[a].life = "live"
  BY Serves1 DEF CallbackFails
<1>2. PICK s : s = SetAct(State(act, chains, token, told), a,
                          [act[a] EXCEPT !.intCommand = TRUE, !.ending = TRUE])
  OBVIOUS
<1>3. Leads(act, chains, token, told, db, s, ~act[a].persistent)
  BY <1>1, <1>2, CallbackLeads
<1>4. Become(s) /\ db' = db
  BY <1>2, NowIs DEF CallbackFails
<1> QED
  BY <1>3, <1>4, Led

LEMMA ReleaseSteps ==
  ASSUME Structure, PersistAssumption, NEW a \in Activities, Release(a)
  PROVE  Steps(TRUE)
PROOF
<1>1. /\ Serving(act, chains, token, db)
      /\ act[a].life = "live" /\ act[a].ending /\ act[a].hooked = << >>
  BY Serves1 DEF Release
<1>2. PICK s : s = SetAct(State(act, chains, token, told), a, [Blank EXCEPT !.life = "gone"])
  OBVIOUS
<1>3. Leads(act, chains, token, told, db, s, TRUE)
  BY <1>1, <1>2, ReleaseLeads
<1>4. Become(s) /\ db' = db
  BY <1>2, NowIs DEF Release
<1> QED
  BY <1>3, <1>4, Led

LEMMA PersistSteps ==
  ASSUME Structure, PersistAssumption, PersistNext
  PROVE  Steps(TRUE)
PROOF
<1>1. PICK q \in chains : Head(q).status = "waiting" /\ Become(Persist(Now, q))
  BY DEF PersistNext
<1>2. PICK s : s = Persist(State(act, chains, token, told), q)
  OBVIOUS
<1>3. Leads(act, chains, token, told, db, s, TRUE)
  BY <1>1, <1>2, PersistLeads, DbRecords DEF Structure
<1>4. Become(s) /\ db' = db
  BY <1>1, <1>2, NowIs DEF PersistNext
<1> QED
  BY <1>3, <1>4, Led

LEMMA FailSteps ==
  ASSUME Structure, PersistAssumption, NEW q \in chains, NEW error \in FaultName, DbFails(q, error)
  PROVE  Steps(error # "permanent")
PROOF
<1>1. Head(q) = q[1]
  BY ChainedCommand DEF Structure, Typed
<1>2. error \in {"transient", "permanent"} /\ q[1].status = "sent"
  BY <1>1 DEF DbFails
<1>3. PICK s : s = SetHead(State(act, chains, token, told), q, [q[1] EXCEPT !.status = error])
  OBVIOUS
<1>4. Leads(act, chains, token, told, db, s, error # "permanent")
  BY <1>2, <1>3, RepeatLeads DEF Structure
<1>5. Become(s) /\ db' = db
  BY <1>1, <1>3, NowIs DEF DbFails
<1> QED
  BY <1>4, <1>5, Led

LEMMA RespondSteps ==
  ASSUME Structure, PersistAssumption, NEW q \in chains, Respond(q)
  PROVE  Steps(TRUE)
PROOF
<1>1. Head(q) = q[1]
  BY ChainedCommand DEF Structure, Typed
<1>2. q[1].status \in {"ok", "transient", "permanent"}
  BY <1>1 DEF Respond
<1>3. PICK s : s = Responds(act, chains, token, told, q)
  OBVIOUS
<1>4. Leads(act, chains, token, told, db, s, TRUE)
  BY <1>2, <1>3, RespondLeads, DbRecords DEF Structure
<1>5. Become(s) /\ db' = db
  BY <1>1, <1>3, NowIs DEF Respond, Responds
<1> QED
  BY <1>4, <1>5, Led

LEMMA DbSteps ==
  ASSUME Structure, PersistAssumption, NEW q \in chains, DbDoes(q)
  PROVE  Steps(TRUE) /\ DbTyped(db')
PROOF
<1>1. Head(q) = q[1] /\ q[1] \in Command
  BY ChainedCommand DEF Structure, Typed
<1>2. PICK c : c = q[1]
  OBVIOUS
<1>3. c \in Command /\ c.status = "sent"
  BY <1>1, <1>2 DEF DbDoes
<1>4. c.kind # "noop"
  BY <1>1, <1>2, <1>3, ChainedCommand DEF Structure, Typed, InTurn
<1>5. c.kind \in {"store", "delete"}
  BY <1>3, <1>4 DEF Command
<1>6. PICK n, D2 : /\ Did(db, c, n, D2) /\ db' = D2
                   /\ Become(SetHead(Now, q, n))
  <2>1. CASE c.kind = "store"
    <3>1. db' = Put(c).db /\ Become(SetHead(Now, q, Put(c).head))
      BY <1>1, <1>2, <2>1 DEF DbDoes
    <3> QED
      BY <1>3, <2>1, <3>1, PutDoes DEF Structure
  <2>2. CASE c.kind = "delete"
    <3>1. db' = Del(c).db /\ Become(SetHead(Now, q, Del(c).head))
      BY <1>1, <1>2, <2>2 DEF DbDoes
    <3> QED
      BY <1>3, <2>2, <3>1, DelDoes DEF Structure
  <2> QED
    BY <1>5, <2>1, <2>2
<1>7. PICK s : s = SetHead(State(act, chains, token, told), q, n)
  OBVIOUS
<1>8. LeadsTo(act, chains, token, told, db, s, D2)
  BY <1>2, <1>3, <1>6, <1>7, DbLeads, DbRecords DEF Structure, Did
<1>9. PICK R : /\ s = State(act, R, token, told) /\ Typed(act, R, token)
               /\ Fit(act, chains, token, told, db) => Fit(act, R, token, told, D2)
  BY <1>8 DEF LeadsTo
<1>10. act' = act /\ chains' = R /\ token' = token /\ told' = told
  <2>1. Become(s)
    BY <1>6, <1>7, NowIs
  <2>2. s = State(act, R, token, told)
    BY <1>9
  <2> QED
    BY <2>1, <2>2, StateFields DEF Become
<1>11. DbTyped(D2)
  BY <1>6 DEF Did
<1> QED
  BY <1>6, <1>9, <1>10, <1>11 DEF Steps, Structure

-----------------------------------------------------------------------------
(* Loading.                                                                *)

\* Activity a is what record r says.
LoadedAs(A, K, D, a, r) ==
  /\ A[a].life = "live" /\ A[a].named /\ A[a].persistent
  /\ ~A[a].ending /\ ~A[a].intCommand /\ ~A[a].extCommand
  /\ A[a].token \in Tokens /\ A[a].token # None
  /\ K[A[a].token].valid /\ K[A[a].token].record = r /\ K[A[a].token].rev = D[r].rev
  /\ r \in DOMAIN D /\ D[r].of = a /\ D[r].version = A[a].version

\* Of the records L that are loaded, the newest is that of the only Activity;
\* the others, O, are old.
OneLoaded(A, K, D, L, O, a, r) ==
  /\ LoadedAs(A, K, D, a, r)
  /\ \A b \in Activities : b # a => A[b].life # "live"
  /\ r \in L /\ (\A x \in L : D[x].rev <= D[r].rev) /\ O = L \ {r}

\* No record is loaded.
NoneLoaded(A, L, O) == L = {} /\ O = {} /\ \A a \in Activities : A[a].life # "live"

\* While loading.
Loading(A, K, D, L, O) ==
  /\ L \subseteq DOMAIN D
  /\ Unborn(A)
  /\ NoneLoaded(A, L, O) \/ \E a \in Activities, r \in L : OneLoaded(A, K, D, L, O, a, r)

\* Without chains, nothing is hooked.
LEMMA NothingHooked ==
  ASSUME NEW A, NEW K, Typed(A, {}, K)
  PROVE  \A a \in Activities : A[a].hooked = << >>
PROOF
<1> SUFFICES ASSUME NEW a \in Activities PROVE A[a].hooked = << >>
  OBVIOUS
<1>1. DOMAIN A[a].hooked = {}
  BY DEF Typed, HookedIn
<1>2. A[a].hooked \in Seq(Ids)
  BY TypedHooks DEF Hooks
<1>3. PICK h : h = A[a].hooked
  OBVIOUS
<1>4. h \in Seq(Ids) /\ DOMAIN h = {}
  BY <1>1, <1>2, <1>3
<1>5. h # << >> => Len(h) \in Nat \ {0}
  BY <1>4, EmptySeq
<1>6. DOMAIN h = 1..Len(h)
  BY <1>4, LenProperties
<1>7. h = << >>
  BY <1>4, <1>5, <1>6
<1> QED
  BY <1>3, <1>7

LEMMA TypedEmpty ==
  ASSUME NEW A \in [Activities -> ActivityState], NEW K \in [Tokens -> TokenState],
         \A a \in Activities : A[a].hooked = << >>
  PROVE  Typed(A, {}, K) /\ Bare(A)
PROOF
<1>1. Chained({})
  <2>1. IdsIn({}) = {}
    BY IdMember
  <2> QED
    BY <2>1, FS_EmptySet DEF Chained
<1>2. HookedIn(A, {})
  BY DEF HookedIn
<1>3. InTurn({})
  BY DEF InTurn
<1> QED
  BY <1>1, <1>2, <1>3 DEF Typed, Bare

\* What LoadRecord makes of a record.
LoadIs(n, version, t) ==
  /\ n \in ActivityState /\ n.life = "live" /\ n.named = TRUE /\ n.persistent = TRUE
  /\ n.ending = FALSE /\ n.intCommand = FALSE /\ n.extCommand = FALSE
  /\ n.version = version /\ n.token = t /\ n.hooked = << >>

LEMMA LoadFields ==
  ASSUME PersistAssumption, NEW version \in 0..MaxVersion, NEW t \in Tokens
  PROVE  LoadIs([Blank EXCEPT !.life = "live", !.named = TRUE, !.persistent = TRUE,
                              !.version = version, !.token = t], version, t)
PROOF
<1>1. Blank \in ActivityState /\ Blank.hooked = << >> /\ Blank.ending = FALSE
      /\ Blank.intCommand = FALSE /\ Blank.extCommand = FALSE
  BY BlankFields DEF BlankIs
<1>2. PICK z : z = Blank
  OBVIOUS
<1>3. PICK n : n = [z EXCEPT !.life = "live", !.named = TRUE, !.persistent = TRUE,
                              !.version = version, !.token = t]
  OBVIOUS
<1>4. z \in ActivityState
  BY <1>1, <1>2
<1>5. n \in ActivityState
  BY <1>3, <1>4 DEF ActivityState
<1>6. n.life = "live" /\ n.named = TRUE /\ n.persistent = TRUE /\ n.version = version /\ n.token = t
      /\ n.ending = z.ending /\ n.intCommand = z.intCommand /\ n.extCommand = z.extCommand
      /\ n.hooked = z.hooked
  BY <1>3, <1>4 DEF ActivityState
<1>7. LoadIs(n, version, t)
  BY <1>1, <1>2, <1>5, <1>6 DEF LoadIs
<1> QED
  BY <1>2, <1>3, <1>7

\* Records and Activities after LoadRecord has loaded a record that is kept.
LoadsNew(A, K, r, x, t, A2, K2) ==
  \E n : /\ LoadIs(n, x.version, t)
         /\ A2 \in [Activities -> ActivityState]
         /\ A2[x.of] = n
         /\ \A b \in Activities : b # x.of =>
              IF b \in NamedOf(A) THEN BlankIs(A2[b], "gone") ELSE A2[b] = A[b]
         /\ K2 \in [Tokens -> TokenState]
         /\ K2[t] = [valid |-> TRUE, record |-> r, rev |-> x.rev]

LEMMA LoadsNewIs ==
  ASSUME PersistAssumption, NEW A \in [Activities -> ActivityState], NEW K \in [Tokens -> TokenState],
         NEW r \in Ids, NEW x \in Record, NEW t \in Tokens, NEW n, LoadIs(n, x.version, t),
         NEW A2, A2 = [b \in Activities |->
                         IF b = x.of THEN n
                         ELSE IF b \in NamedOf(A) THEN [Blank EXCEPT !.life = "gone"]
                         ELSE A[b]],
         NEW K2, K2 = [K EXCEPT ![t] = [valid |-> TRUE, record |-> r, rev |-> x.rev]]
  PROVE  LoadsNew(A, K, r, x, t, A2, K2)
PROOF
<1>1. BlankIs([Blank EXCEPT !.life = "gone"], "gone")
  BY BlankFields
<1>2. x.of \in Activities /\ x.rev \in Nat
  BY DEF Record
<1>3. PICK g : g = [Blank EXCEPT !.life = "gone"]
  OBVIOUS
<1>4. g \in ActivityState /\ BlankIs(g, "gone")
  BY <1>1, <1>3 DEF BlankIs
<1>5. n \in ActivityState
  BY DEF LoadIs
<1>6. A2 = [b \in Activities |-> IF b = x.of THEN n ELSE IF b \in NamedOf(A) THEN g ELSE A[b]]
  BY <1>3
<1>7. A2 \in [Activities -> ActivityState]
  BY <1>4, <1>5, <1>6
<1>8. A2[x.of] = n /\ \A b \in Activities : b # x.of =>
              IF b \in NamedOf(A) THEN BlankIs(A2[b], "gone") ELSE A2[b] = A[b]
  BY <1>2, <1>4, <1>6
<1>9. [valid |-> TRUE, record |-> r, rev |-> x.rev] \in TokenState
  BY <1>2 DEF TokenState
<1>10. K2 \in [Tokens -> TokenState] /\ K2[t] = [valid |-> TRUE, record |-> r, rev |-> x.rev]
  BY <1>9
<1> QED
  BY <1>7, <1>8, <1>10 DEF LoadsNew

LEMMA LoadsNewTyped ==
  ASSUME NEW A, NEW K, Typed(A, {}, K), NEW r, NEW x \in Record, NEW t, NEW A2, NEW K2,
         LoadsNew(A, K, r, x, t, A2, K2)
  PROVE  Typed(A2, {}, K2) /\ Bare(A2)
PROOF
<1>1. \A a \in Activities : A2[a].hooked = << >>
  BY NothingHooked DEF LoadsNew, LoadIs, BlankIs
<1> QED
  BY <1>1, TypedEmpty DEF LoadsNew

\* The loaded record is the newest so far.
LEMMA LoadsNewest ==
  ASSUME NEW A, NEW K, NEW D, DbTyped(D), NEW L, NEW O, Loading(A, K, D, L, O),
         NEW r \in DOMAIN D \ L, NEW t \in Tokens, t # None, NEW A2, NEW K2,
         LoadsNew(A, K, r, D[r], t, A2, K2),
         \A x \in L : D[x].rev <= D[r].rev,
         NEW O2, O2 = L
  PROVE  Loading(A2, K2, D, L \cup {r}, O2)
PROOF
<1>1. D[r] \in Record /\ D[r].of \in Activities /\ D[r].rev \in Nat
  BY DEF DbTyped, Record
<1>2. \A b \in Activities : A[b].life = "live" => b \in NamedOf(A)
  BY DEF Loading, NoneLoaded, OneLoaded, LoadedAs, NamedOf
<1>3. PICK n : /\ LoadIs(n, D[r].version, t)
               /\ A2[D[r].of] = n
               /\ \A b \in Activities : b # D[r].of =>
                    IF b \in NamedOf(A) THEN BlankIs(A2[b], "gone") ELSE A2[b] = A[b]
               /\ K2[t] = [valid |-> TRUE, record |-> r, rev |-> D[r].rev]
  BY DEF LoadsNew
<1>4. \A b \in Activities : b # D[r].of => A2[b].life # "live"
  BY <1>2, <1>3 DEF BlankIs, NamedOf
<1>5. LoadedAs(A2, K2, D, D[r].of, r)
  BY <1>3 DEF LoadedAs, LoadIs
<1>6. Unborn(A2)
  <2> SUFFICES ASSUME NEW b \in Activities, A2[b].life # "live"
               PROVE  ~A2[b].ending /\ ~A2[b].intCommand /\ ~A2[b].extCommand /\ A2[b].token = None
    BY DEF Unborn
  <2>1. b # D[r].of
    BY <1>5 DEF LoadedAs
  <2>2. CASE b \in NamedOf(A)
    BY <1>3, <2>1, <2>2 DEF BlankIs
  <2>3. CASE b \notin NamedOf(A)
    BY <1>3, <2>1, <2>3 DEF Loading, Unborn
  <2> QED
    BY <2>2, <2>3
<1>7. OneLoaded(A2, K2, D, L \cup {r}, O2, D[r].of, r)
  BY <1>1, <1>4, <1>5 DEF OneLoaded
<1> QED
  BY <1>1, <1>6, <1>7 DEF Loading

\* It is older than the one that is kept.
LEMMA LoadsOlder ==
  ASSUME NEW A, NEW K, NEW D, NEW L, NEW O, Loading(A, K, D, L, O),
         NEW r \in DOMAIN D \ L, NEW k \in NamedOf(A), D[r].rev <= K[A[k].token].rev
  PROVE  Loading(A, K, D, L \cup {r}, O \cup {r})
PROOF
<1>1. PICK a \in Activities, x \in L : OneLoaded(A, K, D, L, O, a, x)
  BY DEF Loading, NoneLoaded, NamedOf
<1>2. k = a /\ K[A[k].token].rev = D[x].rev
  BY <1>1 DEF OneLoaded, LoadedAs, NamedOf
<1>3. OneLoaded(A, K, D, L \cup {r}, O \cup {r}, a, x)
  BY <1>1, <1>2 DEF OneLoaded
<1> QED
  BY <1>3 DEF Loading

\* LoadRecord, of a newer or an older record than the one that is kept.
LEMMA LoadRecordLoads ==
  ASSUME Structure, PersistAssumption, NEW r \in DOMAIN db, LoadRecord(r),
         Loading(act, token, db, boot.loaded, boot.old)
  PROVE  /\ Typed(act', chains', token') /\ Bare(act') /\ BootTyped(boot')
         /\ boot'.phase = "loading" /\ chains' = {}
         /\ Loading(act', token', db, boot'.loaded, boot'.old)
PROOF
<1>1. boot.phase = "loading" /\ r \in DOMAIN db \ boot.loaded /\ chains = {} /\ chains' = {}
  BY DEF LoadRecord, Structure
<1>2. /\ Typed(act, {}, token) /\ Bare(act) /\ DbTyped(db)
      /\ act \in [Activities -> ActivityState] /\ token \in [Tokens -> TokenState]
  BY <1>1 DEF Structure, Typed
<1>3. db[r] \in Record /\ db[r].of \in Activities /\ db[r].version \in 0..MaxVersion
      /\ db[r].rev \in Nat /\ r \in Ids
  BY <1>2 DEF DbTyped, Record
<1>4. PICK t : t = Unused({act[b].token : b \in Activities})
  OBVIOUS
<1>5. t \in Tokens /\ t # None
  BY <1>4, FreshToken DEF Unissued
<1>6. PICK n : n = [Blank EXCEPT !.life = "live", !.named = TRUE, !.persistent = TRUE,
                              !.version = db[r].version, !.token = t]
  OBVIOUS
<1>7. LoadIs(n, db[r].version, t)
  BY <1>3, <1>5, <1>6, LoadFields
<1>8. PICK k : k = CHOOSE b \in Named : TRUE
  OBVIOUS
<1>9. Named # {} => k \in NamedOf(act)
  BY <1>8, NamedIs
<1>10. CASE Named # {} /\ db[r].rev <= token[act[k].token].rev
  <2>1. /\ boot' = [boot EXCEPT !.loaded = @ \cup {r}, !.old = @ \cup {r}]
        /\ act' = act /\ token' = token
    BY <1>4, <1>6, <1>8, <1>10 DEF LoadRecord
  <2>2. BootTyped(boot') /\ boot'.phase = "loading"
        /\ boot'.loaded = boot.loaded \cup {r} /\ boot'.old = boot.old \cup {r}
    BY <1>1, <2>1 DEF Structure, BootTyped
  <2> QED
    BY <1>1, <1>2, <1>9, <1>10, <2>1, <2>2, LoadsOlder
<1>11. CASE ~(Named # {} /\ db[r].rev <= token[act[k].token].rev)
  <2>1. /\ boot' = [boot EXCEPT !.loaded = @ \cup {r},
                                !.old = IF Named = {} THEN @ ELSE @ \cup {token[act[k].token].record}]
        /\ act' = [b \in Activities |->
                     IF b = db[r].of THEN n
                     ELSE IF b \in Named THEN [Blank EXCEPT !.life = "gone"]
                     ELSE act[b]]
        /\ token' = [token EXCEPT ![t] = [valid |-> TRUE, record |-> r, rev |-> db[r].rev]]
    BY <1>4, <1>6, <1>8, <1>11 DEF LoadRecord
  <2>2. LoadsNew(act, token, r, db[r], t, act', token')
    BY <1>2, <1>3, <1>5, <1>7, <2>1, NamedIs, LoadsNewIs
  <2>3. PICK O2 : O2 = IF Named = {} THEN boot.old ELSE boot.old \cup {token[act[k].token].record}
    OBVIOUS
  <2>4. BootTyped(boot') /\ boot'.phase = "loading"
        /\ boot'.loaded = boot.loaded \cup {r} /\ boot'.old = O2
    BY <1>1, <2>1, <2>3 DEF Structure, BootTyped
  <2>5. O2 = boot.loaded /\ \A x \in boot.loaded : db[x].rev <= db[r].rev
    <3>1. CASE Named = {}
      BY <2>3, <3>1, NamedIs DEF Loading, NoneLoaded, OneLoaded, LoadedAs, NamedOf
    <3>2. CASE Named # {}
      <4>1. PICK a \in Activities, y \in boot.loaded :
              OneLoaded(act, token, db, boot.loaded, boot.old, a, y)
        BY <1>9, <3>2 DEF Loading, NoneLoaded, NamedOf
      <4>2. k = a
        BY <1>9, <3>2, <4>1 DEF OneLoaded, NamedOf
      <4>3. token[act[k].token].record = y /\ token[act[k].token].rev = db[y].rev
        BY <4>1, <4>2 DEF OneLoaded, LoadedAs
      <4>4. boot.old = boot.loaded \ {y} /\ \A x \in boot.loaded : db[x].rev <= db[y].rev
        BY <4>1 DEF OneLoaded
      <4>5. \A x \in boot.loaded : db[x].rev \in Nat
        BY DbRecords DEF Structure, Loading
      <4>6. ~(db[r].rev <= db[y].rev)
        BY <1>11, <3>2, <4>3
      <4>7. O2 = boot.loaded
        BY <2>3, <3>2, <4>1, <4>3, <4>4
      <4>8. \A x \in boot.loaded : db[x].rev <= db[r].rev
        BY <1>3, <4>1, <4>4, <4>5, <4>6
      <4> QED
        BY <4>7, <4>8
    <3> QED
      BY <3>1, <3>2
  <2>6. Typed(act', {}, token') /\ Bare(act')
    BY <1>2, <1>3, <2>2, LoadsNewTyped
  <2>7. Loading(act', token', db, boot.loaded \cup {r}, O2)
    BY <1>1, <1>2, <1>5, <2>2, <2>5, LoadsNewest
  <2> QED
    BY <1>1, <2>4, <2>6, <2>7
<1> QED
  BY <1>10, <1>11

LEMMA NoJobs == Jobs({}) = {} /\ HeadsOf({}) = {} /\ Order({}) = {}
PROOF
<1>1. Jobs({}) = {}
  BY JobMember
<1> QED
  BY <1>1 DEF HeadsOf, Order

\* When all is loaded and nothing is old, the state is fit.
LEMMA NoneFits ==
  ASSUME NEW A, NEW K, Typed(A, {}, K), NEW D, DOMAIN D = {}, Unborn(A), NoneLoaded(A, {}, {})
  PROVE  Fit(A, {}, K, LatestOf(D), D)
PROOF
<1>1. K \in [Tokens -> TokenState] /\ A \in [Activities -> ActivityState]
  BY DEF Typed
<1>2. PICK Z : Z = View(A)
  OBVIOUS
<1>3. \A b \in Activities : Same(A, Z, b)
  BY <1>2, ViewFields
<1>4. \A a \in Activities : Z[a].life # "live" /\ ~Z[a].ending /\ ~Z[a].intCommand
                            /\ ~Z[a].extCommand /\ Z[a].token = None
  BY <1>3 DEF Same, NoneLoaded, Unborn
<1>5. LatestOf(D) = Nothing
  BY DEF LatestOf
<1>6. Vacant(Z, {}, K, K, D, {}, Nothing)
  BY <1>4 DEF Vacant
<1>7. Lives(Z)
  BY <1>4 DEF Lives, OneNamed, Unborn, NamedUnlessEnding, TokensPersist, PersistentHave, NamedOf
<1>8. EndingHas(Z, {}) /\ DetachedHas(Z, {}) /\ SharersHave(Z, {})
  BY <1>4 DEF EndingHas, DetachedHas, SharersHave, NamedOf
<1>9. Sound(Z, {}, {}, K, K, D, {}, Nothing)
  BY <1>6, <1>7, <1>8, VacantSound
<1>10. SoundIn(A, {}, K, K, Nothing, D)
  BY <1>2, <1>9, NoJobs DEF SoundIn
<1> QED
  BY <1>1, <1>5, <1>10, FitSound

\* One record, and the Activity it is of.
LEMMA OneFits ==
  ASSUME NEW A, NEW K, Typed(A, {}, K), NEW D, DbTyped(D), Unborn(A),
         NEW a \in Activities, NEW r \in DOMAIN D, OneLoaded(A, K, D, DOMAIN D, {}, a, r)
  PROVE  Fit(A, {}, K, LatestOf(D), D)
PROOF
<1>1. K \in [Tokens -> TokenState] /\ A \in [Activities -> ActivityState]
  BY DEF Typed
<1>2. PICK Z : Z = View(A)
  OBVIOUS
<1>3. \A b \in Activities : Same(A, Z, b)
  BY <1>2, ViewFields
<1>4. /\ Z[a].life = "live" /\ Z[a].named /\ Z[a].persistent
      /\ ~Z[a].ending /\ ~Z[a].intCommand /\ ~Z[a].extCommand
      /\ Z[a].token # None
      /\ K[Z[a].token].valid /\ K[Z[a].token].record = r /\ K[Z[a].token].rev = D[r].rev
      /\ D[r].of = a
  BY <1>3 DEF Same, OneLoaded, LoadedAs
<1>5. \A b \in Activities : b # a => Z[b].life # "live" /\ ~Z[b].ending /\ ~Z[b].intCommand
                            /\ ~Z[b].extCommand /\ Z[b].token = None
  BY <1>3 DEF Same, OneLoaded, Unborn
<1>6. DOMAIN D = {r} /\ r # None
  BY DEF OneLoaded, DbTyped, Ids
<1>7. NamedOf(Z) = {a}
  BY <1>4, <1>5 DEF NamedOf
<1>8. Lives(Z)
  BY <1>4, <1>5, <1>7 DEF Lives, OneNamed, Unborn, NamedUnlessEnding, TokensPersist, PersistentHave
<1>9. Works(Z, {})
  <2>1. JobsLive(Z, {}) /\ ReplaceLeaves(Z, {}) /\ EndIsExternal(Z, {}) /\ StoresHave(Z, {})
        /\ DeletesEnd(Z, {}) /\ NoopsAreNot(Z, {})
    BY DEF JobsLive, ReplaceLeaves, EndIsExternal, StoresHave, DeletesEnd, NoopsAreNot
  <2>2. EndingHas(Z, {}) /\ DetachedHas(Z, {}) /\ SharersHave(Z, {})
    BY <1>4, <1>5, <1>7 DEF EndingHas, DetachedHas, SharersHave
  <2> QED
    BY <2>1, <2>2 DEF Works
<1>10. Rows(Z, {}, {})
  BY DEF Rows, EndIsLast, ReplaceIsLast, ReplaceThenCreate, ReplaceThenEnd, WritersBefore
<1>11. Flow(Z, {}, {}, K)
  BY <1>4, <1>5, <1>7 DEF Flow, OthersClosed, LostClosed, ValidHas
<1>12. Owned(Z, {}, {}, K, D)
  <2>1. NamedOwns(Z, {}, {}, K, D)
    BY <1>4, <1>6, <1>7 DEF NamedOwns
  <2>2. EndOwns(Z, {}, {}, K, D) /\ NewOwns(Z, {}, {}, K, D)
    BY DEF EndOwns, NewOwns
  <2>3. OwnerHas(Z, K, D)
    BY <1>4, <1>5, <1>6 DEF OwnerHas
  <2> QED
    BY <2>1, <2>2, <2>3 DEF Owned
<1>13. Stored(Z, K, D)
  <2>1. \A b \in Activities : Standing(Z, K, b) <=> b = a
    BY <1>4, <1>5 DEF Standing
  <2>2. RecordsStand(Z, K, D) /\ OneStands(Z, K) /\ RevsStand(Z, K, D)
    BY <1>4, <1>6, <2>1 DEF RecordsStand, OneStands, RevsStand
  <2>3. ValidStand(Z, K)
    BY <1>4, <1>5, <1>6 DEF ValidStand
  <2> QED
    BY <2>2, <2>3 DEF Stored
<1>14. Follows(Z, K, K, {}) /\ Calls(Z, {}, K, K, D, {})
       /\ ToldIs({}, D, {}, LatestOf(D)) /\ ToldOf({}, {}, LatestOf(D))
  BY DEF Follows, Calls, ToldIs, ToldOf, Ahead
<1>15. Sound(Z, {}, {}, K, K, D, {}, LatestOf(D))
  BY <1>8, <1>9, <1>10, <1>11, <1>12, <1>13, <1>14 DEF Sound
<1>16. SoundIn(A, {}, K, K, LatestOf(D), D)
  BY <1>2, <1>15, NoJobs DEF SoundIn
<1> QED
  BY <1>1, <1>16, FitSound

\* What loading leaves is fit.
LEMMA LoadedFits ==
  ASSUME NEW A, NEW K, Typed(A, {}, K), NEW D, DbTyped(D), Loading(A, K, D, DOMAIN D, {})
  PROVE  Fit(A, {}, K, LatestOf(D), D)
PROOF
<1>1. Unborn(A)
  BY DEF Loading
<1>2. CASE NoneLoaded(A, DOMAIN D, {})
  BY <1>1, <1>2, NoneFits DEF NoneLoaded
<1>3. CASE \E a \in Activities, r \in DOMAIN D : OneLoaded(A, K, D, DOMAIN D, {}, a, r)
  BY <1>1, <1>3, OneFits
<1> QED
  BY <1>2, <1>3 DEF Loading

\* There is one record at most.
AtMostOne(D) == \A r, s \in DOMAIN D : r = s

\* A state that is fit has one record at most.
LEMMA FitOne ==
  ASSUME NEW A, NEW Q, NEW K, NEW w, NEW D, Fit(A, Q, K, w, D)
  PROVE  AtMostOne(D)
PROOF
<1>1. PICK V \in [Tokens -> TokenState] : SoundIn(A, Q, K, V, w, D)
  BY FitSound
<1>2. RecordsStand(View(A), V, D) /\ OneStands(View(A), V)
  BY <1>1 DEF SoundIn, Sound, Stored
<1> QED
  BY <1>2 DEF RecordsStand, OneStands, AtMostOne

\* While loading, the Activity is that of the newest record so far.
Loads == boot.phase = "loading" => Loading(act, token, db, boot.loaded, boot.old)

\* What holds whatever fails.
Sane == Structure /\ Loads

\* The first invariant.
LEMMA InitSane ==
  ASSUME Init, PersistAssumption
  PROVE  Sane
PROOF
<1>1. act \in [Activities -> ActivityState] /\ \A a \in Activities : BlankIs(act[a], "new")
  BY BlankFields DEF Init, BlankIs
<1>2. token \in [Tokens -> TokenState]
  BY DEF Init, NoToken, TokenState
<1>3. Typed(act, chains, token) /\ Bare(act)
  BY <1>1, <1>2, TypedEmpty DEF Init, BlankIs
<1>4. DbTyped(db)
  BY FS_EmptySet DEF Init, DbTyped
<1>5. BootTyped(boot)
  BY DEF Init, BootTyped
<1>6. NoneLoaded(act, boot.loaded, boot.old) /\ boot.loaded = {}
  BY <1>1 DEF Init, NoneLoaded, BlankIs
<1>7. Unborn(act)
  BY <1>1 DEF Unborn, BlankIs
<1> QED
  BY <1>3, <1>4, <1>5, <1>6, <1>7 DEF Sane, Structure, Loads, Loading, Init

\* A step of the Activities and the chains, once all is loaded.
LEMMA ReadySane ==
  ASSUME Sane, NEW ok, Steps(ok), boot' = boot, DbTyped(db'), boot.phase # "loading"
  PROVE  Sane'
BY DEF Sane, Structure, Loads, Steps

LEMMA CrashSane ==
  ASSUME Sane, PersistAssumption, Crash
  PROVE  Sane'
PROOF
<1>1. BlankIs(Blank, "new") /\ BlankIs([Blank EXCEPT !.life = "gone"], "gone")
  BY BlankFields
<1>2. PICK b, g : b = Blank /\ g = [Blank EXCEPT !.life = "gone"]
  OBVIOUS
<1>3. act' = [a \in Activities |-> IF act[a].life = "new" THEN b ELSE g]
  BY <1>2 DEF Crash
<1>4. BlankIs(b, "new") /\ BlankIs(g, "gone")
  BY <1>1, <1>2
<1>5. /\ act' \in [Activities -> ActivityState]
      /\ \A a \in Activities : act'[a].life # "live" /\ act'[a].hooked = << >>
           /\ ~act'[a].ending /\ ~act'[a].intCommand /\ ~act'[a].extCommand /\ act'[a].token = None
  BY <1>3, <1>4 DEF BlankIs
<1>6. token' \in [Tokens -> TokenState]
  BY DEF Crash, NoToken, TokenState
<1>7. Typed(act', chains', token') /\ Bare(act')
  BY <1>5, <1>6, TypedEmpty DEF Crash
<1>8. boot' = [phase |-> "loading", loaded |-> {}, old |-> {}, enabled |-> FALSE]
      /\ db' = db /\ chains' = {}
  BY DEF Crash
<1>9. Loading(act', token', db', boot'.loaded, boot'.old)
  BY <1>5, <1>8 DEF Loading, NoneLoaded, Unborn
<1> QED
  BY <1>7, <1>8, <1>9 DEF Sane, Structure, Loads, BootTyped

LEMMA LoadSane ==
  ASSUME Sane, PersistAssumption, NEW r \in DOMAIN db, LoadRecord(r)
  PROVE  Sane'
PROOF
<1>1. db' = db /\ boot.phase = "loading"
  BY DEF LoadRecord
<1> QED
  BY <1>1, LoadRecordLoads DEF Sane, Structure, Loads

LEMMA BootSane ==
  ASSUME Sane, LoadEnds \/ LoadFails \/ Purge
  PROVE  Sane'
PROOF
<1>1. act' = act /\ chains' = chains /\ token' = token
  BY DEF LoadEnds, LoadFails, Purge
<1>2. BootTyped(boot') /\ boot'.phase # "loading"
  BY DEF LoadEnds, LoadFails, Purge, Sane, Structure, BootTyped
<1>3. DbTyped(db')
  <2>1. CASE db' = db
    BY <2>1 DEF Sane, Structure
  <2>2. CASE db' = [i \in DOMAIN db \ boot.old |-> db[i]]
    <3>1. PICK D2 : D2 = [i \in DOMAIN db \ boot.old |-> db[i]]
      OBVIOUS
    <3>2. DOMAIN D2 \subseteq DOMAIN db /\ \A i \in DOMAIN D2 : D2[i] = db[i]
      BY <3>1
    <3>3. D2 \in [DOMAIN D2 -> Record]
      BY <3>1, <3>2 DEF Sane, Structure, DbTyped
    <3>4. IsFiniteSet(DOMAIN D2)
      BY <3>2, FS_Subset DEF Sane, Structure, DbTyped
    <3> QED
      BY <2>2, <3>1, <3>2, <3>3, <3>4 DEF Sane, Structure, DbTyped
  <2> QED
    BY <2>1, <2>2 DEF LoadEnds, LoadFails, Purge
<1> QED
  BY <1>1, <1>2, <1>3 DEF Sane, Structure, Loads

\* A call is served when all is loaded, and chains go on only then.
LEMMA NotLoading ==
  ASSUME Structure, NEW q \in chains
  PROVE  boot.phase # "loading"
BY DEF Structure

\* Every step keeps it.
LEMMA NextSane ==
  ASSUME Sane, PersistAssumption, [Next]_vars
  PROVE  Sane'
PROOF
<1>1. Structure /\ DbTyped(db)
  BY DEF Sane, Structure
<1>2. ASSUME NEW a \in Activities, NEW p \in BOOLEAN, Create(a, p) PROVE Sane'
  BY <1>1, <1>2, CreateSteps, ReadySane DEF Create, CanCall, Ready
<1>3. ASSUME NEW a \in Activities, NEW old \in Activities, NEW p \in BOOLEAN, Replace(a, old, p)
      PROVE  Sane'
  BY <1>1, <1>3, ReplaceSteps, ReadySane DEF Replace, CanCall, Ready
<1>4. ASSUME NEW a \in Activities, Update(a) PROVE Sane'
  <2>1. Steps(~act[a].intCommand)
    BY <1>1, <1>4, UpdateSteps
  <2> QED
    BY <1>1, <1>4, <2>1, ReadySane DEF Update, CanCall, Ready
<1>5. ASSUME NEW a \in Activities, End(a) PROVE Sane'
  BY <1>1, <1>5, EndSteps, ReadySane DEF End, CanCall, Ready
<1>6. ASSUME NEW a \in Activities, CallbackFails(a) PROVE Sane'
  <2>1. Steps(~act[a].persistent)
    BY <1>1, <1>6, CallbackSteps
  <2> QED
    BY <1>1, <1>6, <2>1, ReadySane DEF CallbackFails, CanCall, Ready
<1>7. ASSUME NEW a \in Activities, Release(a) PROVE Sane'
  BY <1>1, <1>7, ReleaseSteps, ReadySane DEF Release, CanCall, Ready
<1>8. ASSUME PersistNext PROVE Sane'
  <2>1. boot.phase # "loading"
    BY <1>1, <1>8, NotLoading DEF PersistNext
  <2>2. boot' = boot /\ db' = db
    BY <1>8 DEF PersistNext
  <2> QED
    BY <1>1, <1>8, <2>1, <2>2, PersistSteps, ReadySane
<1>9. ASSUME NEW q \in chains, DbDoes(q) PROVE Sane'
  <2>1. boot' = boot
    BY <1>9 DEF DbDoes
  <2>2. Steps(TRUE) /\ DbTyped(db')
    BY <1>1, <1>9, DbSteps
  <2> QED
    BY <1>1, <2>1, <2>2, NotLoading, ReadySane
<1>10. ASSUME NEW q \in chains, NEW error \in FaultName, DbFails(q, error) PROVE Sane'
  <2>1. Steps(error # "permanent")
    BY <1>1, <1>10, FailSteps
  <2>2. boot' = boot /\ db' = db
    BY <1>10 DEF DbFails
  <2> QED
    BY <1>1, <2>1, <2>2, NotLoading, ReadySane
<1>11. ASSUME NEW q \in chains, Respond(q) PROVE Sane'
  <2>1. boot' = boot /\ db' = db
    BY <1>11 DEF Respond
  <2> QED
    BY <1>1, <1>11, <2>1, NotLoading, RespondSteps, ReadySane
<1>12. ASSUME UNCHANGED vars PROVE Sane'
  BY <1>12 DEF vars, Sane, Structure, Loads
<1> QED
  BY <1>2, <1>3, <1>4, <1>5, <1>6, <1>7, <1>8, <1>9, <1>10, <1>11, <1>12,
     CrashSane, LoadSane, BootSane DEF Next

\* Whatever fails, and whatever calls are made of Activities that were replaced: the
\* chains hold what is hooked, each command once and in order, only the head of a
\* chain is under way, and what is loaded is the newest record so far.
THEOREM SanityHolds == Safety => []Sane
PROOF
<1>1. Init => Sane
  BY InitSane, PersistAssumption
<1>2. Sane /\ [Next]_vars => Sane'
  BY NextSane, PersistAssumption
<1> QED
  BY <1>1, <1>2, PTL DEF Safety

\* As long as nothing has failed for good: while loading, there is one record
\* at most, and it is what was told; then, nothing is old, and the state is fit.
Whole ==
  /\ failed \in BOOLEAN
  /\ ~failed /\ boot.phase = "loading" => told = LatestOf(db) /\ AtMostOne(db)
  /\ ~failed /\ boot.phase # "loading" => boot.phase = "done" /\ Fit(act, chains, token, told, db)

\* The second invariant.
LEMMA InitWhole ==
  ASSUME Init
  PROVE  Whole
PROOF
<1>1. DOMAIN db = {} /\ boot.phase = "loading" /\ told = Nothing /\ failed = FALSE
  BY DEF Init
<1>2. LatestOf(db) = Nothing /\ AtMostOne(db)
  BY <1>1 DEF LatestOf, AtMostOne
<1> QED
  BY <1>1, <1>2 DEF Whole

\* A step that keeps the state fit, unless it fails for good.
LEMMA ReadyWhole ==
  ASSUME Whole, NEW ok, Steps(ok), boot' = boot, boot.phase # "loading",
         failed' \in BOOLEAN, ~failed' => ~failed /\ ok
  PROVE  Whole'
BY DEF Whole, Steps

\* A crash leaves what is stored, and that is one record at most.
LEMMA CrashWhole ==
  ASSUME Sane, Whole, Crash
  PROVE  Whole'
PROOF
<1>1. boot'.phase = "loading" /\ db' = db /\ failed' = failed
  BY DEF Crash
<1>2. ~failed => told' = LatestOf(db)
  BY DEF Crash
<1>3. ~failed => AtMostOne(db)
  BY FitOne DEF Whole
<1> QED
  BY <1>1, <1>2, <1>3 DEF Whole

LEMMA LoadWhole ==
  ASSUME Sane, Whole, PersistAssumption, NEW r \in DOMAIN db, LoadRecord(r)
  PROVE  Whole'
PROOF
<1>1. boot'.phase = "loading" /\ boot.phase = "loading"
  BY LoadRecordLoads DEF Sane, Loads, LoadRecord
<1>2. db' = db /\ failed' = failed /\ told' = told
  BY DEF LoadRecord
<1> QED
  BY <1>1, <1>2 DEF Whole

\* When the last page is loaded, nothing is old, or something had failed.
LEMMA LoadEndsWhole ==
  ASSUME Sane, Whole, LoadEnds
  PROVE  Whole'
PROOF
<1>1. /\ boot.phase = "loading" /\ boot.loaded = DOMAIN db
      /\ act' = act /\ chains' = chains /\ token' = token /\ db' = db
  BY DEF LoadEnds
<1>2. chains = {} /\ Typed(act, {}, token) /\ DbTyped(db)
      /\ Loading(act, token, db, DOMAIN db, boot.old)
  BY <1>1 DEF Sane, Structure, Loads
<1>3. boot'.phase = IF boot.old = {} THEN "done" ELSE "purging"
  BY DEF LoadEnds, Sane, Structure, BootTyped
<1>4. CASE boot.old = {}
  <2>1. failed' = FALSE /\ told' = LatestOf(db)
    BY <1>4 DEF LoadEnds
  <2>2. Fit(act, {}, token, LatestOf(db), db)
    BY <1>2, <1>4, LoadedFits
  <2> QED
    BY <1>1, <1>2, <1>3, <1>4, <2>1, <2>2 DEF Whole
<1>5. CASE boot.old # {}
  <2>1. failed' = failed
    BY <1>5 DEF LoadEnds
  <2>2. ~AtMostOne(db)
    BY <1>2, <1>5 DEF Loading, NoneLoaded, OneLoaded, AtMostOne
  <2> QED
    BY <1>1, <1>3, <1>5, <2>1, <2>2 DEF Whole
<1> QED
  BY <1>4, <1>5

\* Every step keeps it, or fails for good.
LEMMA NextWhole ==
  ASSUME Sane, Whole, PersistAssumption, "late" \notin Faults, [Next]_vars
  PROVE  Whole'
PROOF
<1>1. Structure /\ failed \in BOOLEAN
  BY DEF Sane, Whole
<1>2. ASSUME NEW a \in Activities, NEW p \in BOOLEAN, Create(a, p) PROVE Whole'
  BY <1>1, <1>2, CreateSteps, ReadyWhole DEF Create, CanCall, Ready
<1>3. ASSUME NEW a \in Activities, NEW old \in Activities, NEW p \in BOOLEAN, Replace(a, old, p)
      PROVE  Whole'
  BY <1>1, <1>3, ReplaceSteps, ReadyWhole DEF Replace, CanCall, Ready
<1>4. ASSUME NEW a \in Activities, Update(a) PROVE Whole'
  <2>1. Steps(~act[a].intCommand)
    BY <1>1, <1>4, UpdateSteps
  <2>2. boot' = boot /\ boot.phase # "loading" /\ failed' = failed /\ ~act[a].intCommand
    BY <1>4 DEF Update, CanCall, Ready
  <2> QED
    BY <1>1, <2>1, <2>2, ReadyWhole
<1>5. ASSUME NEW a \in Activities, End(a) PROVE Whole'
  BY <1>1, <1>5, EndSteps, ReadyWhole DEF End, CanCall, Ready
<1>6. ASSUME NEW a \in Activities, CallbackFails(a) PROVE Whole'
  <2>1. Steps(~act[a].persistent)
    BY <1>1, <1>6, CallbackSteps
  <2>2. boot' = boot /\ boot.phase # "loading" /\ failed' = (failed \/ act[a].persistent)
    BY <1>6 DEF CallbackFails, CanCall, Ready
  <2>3. act[a].persistent \in BOOLEAN
    BY <1>1 DEF Structure, Typed, ActivityState
  <2>4. failed' \in BOOLEAN /\ (~failed' => ~failed /\ ~act[a].persistent)
    BY <2>2
  <2> QED
    BY <2>1, <2>2, <2>4, ReadyWhole
<1>7. ASSUME NEW a \in Activities, Release(a) PROVE Whole'
  BY <1>1, <1>7, ReleaseSteps, ReadyWhole DEF Release, CanCall, Ready
<1>8. ASSUME PersistNext PROVE Whole'
  <2>1. boot.phase # "loading"
    BY <1>1, <1>8, NotLoading DEF PersistNext
  <2>2. boot' = boot /\ failed' = failed
    BY <1>8 DEF PersistNext
  <2> QED
    BY <1>1, <1>8, <2>1, <2>2, PersistSteps, ReadyWhole
<1>9. ASSUME NEW q \in chains, DbDoes(q) PROVE Whole'
  <2>1. boot' = boot /\ failed' = failed
    BY <1>9 DEF DbDoes
  <2>2. Steps(TRUE)
    BY <1>1, <1>9, DbSteps
  <2> QED
    BY <1>1, <2>1, <2>2, NotLoading, ReadyWhole
<1>10. ASSUME NEW q \in chains, NEW error \in FaultName, DbFails(q, error) PROVE Whole'
  <2>1. Steps(error # "permanent")
    BY <1>1, <1>10, FailSteps
  <2>2. boot' = boot /\ failed' = (failed \/ error = "permanent")
    BY <1>10 DEF DbFails
  <2> QED
    BY <1>1, <2>1, <2>2, NotLoading, ReadyWhole
<1>11. ASSUME NEW q \in chains, Respond(q) PROVE Whole'
  <2>1. boot' = boot /\ failed' = failed
    BY <1>11 DEF Respond
  <2> QED
    BY <1>1, <1>11, <2>1, NotLoading, RespondSteps, ReadyWhole
<1>12. ASSUME LoadFails PROVE Whole'
  <2>1. failed' = TRUE
    BY <1>12 DEF LoadFails
  <2> QED
    BY <2>1 DEF Whole
<1>13. ASSUME Purge PROVE Whole'
  <2>1. failed' = failed /\ failed
    BY <1>13 DEF Purge, Whole
  <2> QED
    BY <1>1, <2>1 DEF Whole
<1>14. ASSUME UNCHANGED vars PROVE Whole'
  BY <1>14 DEF vars, Whole
<1> QED
  BY <1>2, <1>3, <1>4, <1>5, <1>6, <1>7, <1>8, <1>9, <1>10, <1>11, <1>12, <1>13, <1>14,
     CrashWhole, LoadWhole, LoadEndsWhole DEF Next

\* The state is fit as long as nothing has failed for good, if no Activity that has
\* been replaced is restarted (ActivityCategory.cpp hooks a store to it then).
THEOREM WholenessHolds ==
  ASSUME "late" \notin Faults
  PROVE  Safety => [](Sane /\ Whole)
PROOF
<1>1. Init => Sane /\ Whole
  BY InitSane, InitWhole, PersistAssumption
<1>2. Sane /\ Whole /\ [Next]_vars => (Sane /\ Whole)'
  BY NextSane, NextWhole, PersistAssumption
<1> QED
  BY <1>1, <1>2, PTL DEF Safety

-----------------------------------------------------------------------------
(* What follows from the invariant.                                        *)

LEMMA CommandsIn ==
  ASSUME NEW c
  PROVE  c \in Commands(Now) <=> \E q \in chains : \E i \in DOMAIN q : c = q[i]
PROOF
<1>1. Now.chains = chains
  BY DEF Now
<1> QED
  BY <1>1 DEF Commands, ToSet

LEMMA SaneTypeOK ==
  ASSUME Sane
  PROVE  TypeOK
PROOF
<1>1. \A c \in Commands(Now) : c \in Command
  BY CommandsIn, ChainedCommand DEF Sane, Structure, Typed
<1>2. DOMAIN db \subseteq Ids /\ \A r \in DOMAIN db : db[r] \in Record
  BY DEF Sane, Structure, DbTyped
<1> QED
  BY <1>1, <1>2 DEF TypeOK, Sane, Structure, Typed

\* A chain gets to the commands of an Activity in the order they were hooked.
LEMMA SaneInOrder ==
  ASSUME Sane
  PROVE  ChainsInOrder
PROOF
<1>1. HookedIn(act, chains) /\ Hooks(act) /\ Chained(chains)
  BY TypedHooks DEF Sane, Structure, Typed
<1>2. ASSUME NEW a \in Activities, NEW i \in 1..Len(act[a].hooked)
      PROVE  \E chain \in chains : \E j \in 1..Len(chain) :
               /\ chain[j].id = act[a].hooked[i] /\ chain[j].of = a
               /\ \A k \in 1..(j - 1) : chain[k].of = a =>
                    \E l \in 1..(i - 1) : act[a].hooked[l] = chain[k].id
  <2>1. PICK h : h = act[a].hooked
    OBVIOUS
  <2>2. h \in Seq(Ids) /\ Len(h) \in Nat /\ DOMAIN h = 1..Len(h)
    BY <1>1, <2>1, LenProperties DEF Hooks
  <2>3. i \in DOMAIN h /\ i \in 1..Len(h)
    BY <1>2, <2>1, <2>2
  <2>4. PICK q \in chains : \E j \in DOMAIN q : q[j].id = h[i] /\ q[j].of = a
    BY <1>1, <2>1, <2>3 DEF HookedIn
  <2>5. PICK j \in DOMAIN q : q[j].id = h[i] /\ q[j].of = a
    BY <2>4
  <2>6. Len(q) \in Nat /\ DOMAIN q = 1..Len(q)
    BY <1>1, ChainedCommand
  <2>7. ASSUME NEW k \in 1..(j - 1), q[k].of = a
        PROVE  \E l \in 1..(i - 1) : h[l] = q[k].id
    <3>1. k \in DOMAIN q /\ k < j
      BY <2>6
    <3>2. PICK l \in DOMAIN h : h[l] = q[k].id
      BY <1>1, <2>1, <2>7, <3>1 DEF HookedIn
    <3>3. l # i
      BY <1>1, <2>5, <2>6, <3>1, <3>2 DEF Chained
    <3>4. ~(i < l)
      <4> SUFFICES ASSUME i < l PROVE FALSE
        OBVIOUS
      <4>1. q[j].id = h[i] /\ q[k].id = h[l]
        BY <2>5, <3>2
      <4>2. j < k
        BY <1>1, <2>1, <2>3, <3>1, <3>2, <4>1 DEF HookedIn
      <4> QED
        BY <2>6, <3>1, <4>2
    <3> QED
      BY <2>2, <2>3, <3>2, <3>3, <3>4
  <2> QED
    BY <2>1, <2>5, <2>6, <2>7
<1>3. \A q \in chains : Head(act[Head(q).of].hooked) = Head(q).id
  <2> SUFFICES ASSUME NEW q \in chains PROVE Head(act[Head(q).of].hooked) = Head(q).id
    OBVIOUS
  <2>1. Head(q) = q[1]
    BY <1>1, ChainedCommand
  <2> QED
    BY <1>1, <2>1, HeadIsFirst
<1> QED
  BY <1>2, <1>3 DEF ChainsInOrder

\* What db8 has just done, and what it has not yet been asked about.
LEMMA AheadIs ==
  ASSUME NEW A, NEW J, NEW B, NEW K, NEW V, NEW D, NEW H, NEW w,
         Sound(A, J, B, K, V, D, H, w)
  PROVE  \/ Ahead(H) = {} /\ V = K
         \/ \E h \in H : /\ h.status = "ok" /\ Calling(A, J, K, V, D, h)
                         /\ V = [K EXCEPT ![TokenAt(A, h)] = Result(h)]
PROOF
<1>1. CASE Ahead(H) = {}
  BY <1>1 DEF Sound, Follows
<1>2. CASE Ahead(H) # {}
  <2>1. PICK h \in Ahead(H) : TRUE
    BY <1>2
  <2>2. h \in H /\ h.status = "ok"
    BY DEF Ahead
  <2>3. Calling(A, J, K, V, D, h)
    BY <2>2 DEF Sound, Calls, Working
  <2> QED
    BY <2>1, <2>2, <2>3 DEF Sound, Follows
<1> QED
  BY <1>1, <1>2

\* A valid token stands for its record, or db8 is ahead of it.
LEMMA FitCurrent ==
  ASSUME NEW A, NEW Q, NEW K, NEW w, NEW D, Typed(A, Q, K), Fit(A, Q, K, w, D),
         NEW a \in Activities, A[a].token # None, K[A[a].token].valid
  PROVE  LET t == K[A[a].token]
         IN \/ t.record \in DOMAIN D /\ D[t.record].rev = t.rev
            \/ \E chain \in Q : Head(chain).status = "ok" /\ Head(chain).record = t.record
PROOF
<1>1. PICK V \in [Tokens -> TokenState] : SoundIn(A, Q, K, V, w, D)
  BY FitSound
<1>2. PICK Z, u : Z = View(A) /\ u = A[a].token
  OBVIOUS
<1>3. Same(A, Z, a) /\ Z[a].token = u /\ u \in Tokens /\ u # None
  <2>1. Same(A, Z, a)
    BY <1>2, ViewFields
  <2> QED
    BY <1>2, <2>1 DEF Same, Typed, ActivityState
<1>4. Sound(Z, Jobs(Q), Order(Q), K, V, D, HeadsOf(Q), w)
  BY <1>1, <1>2 DEF SoundIn
<1>5. CASE V[u] = K[u]
  <2>1. Standing(Z, V, a)
    BY <1>2, <1>3, <1>5 DEF Standing
  <2>2. RecordsStand(Z, V, D) /\ RevsStand(Z, V, D)
    BY <1>4 DEF Sound, Stored
  <2>3. V[Z[a].token].record \in DOMAIN D /\ D[V[Z[a].token].record].rev = V[Z[a].token].rev
    BY <2>1, <2>2 DEF RecordsStand, RevsStand
  <2> QED
    BY <1>2, <1>3, <1>5, <2>3
<1>6. CASE V[u] # K[u]
  <2>1. PICK h \in HeadsOf(Q) :
          /\ h.status = "ok" /\ Calling(Z, Jobs(Q), K, V, D, h)
          /\ V = [K EXCEPT ![TokenAt(Z, h)] = Result(h)]
    BY <1>4, <1>6, AheadIs
  <2>2. TokenAt(Z, h) = u
    BY <1>3, <1>6, <2>1 DEF Typed
  <2>3. K[u].valid
    BY <1>2
  <2>4. h.record = K[u].record
    BY <2>1, <2>2, <2>3 DEF Calling
  <2>5. PICK q \in Q : h = q[1]
    BY DEF HeadsOf
  <2>6. Head(q) = q[1]
    BY ChainedCommand DEF Typed
  <2> QED
    BY <1>2, <2>1, <2>4, <2>5, <2>6
<1> QED
  BY <1>5, <1>6

LEMMA WholeCurrent ==
  ASSUME Sane, Whole
  PROVE  TokenIsCurrent
PROOF
<1> SUFFICES ASSUME ~failed, NEW a \in Activities, act[a].token # None, token[act[a].token].valid
             PROVE  LET t == token[act[a].token]
                    IN \/ t.record \in DOMAIN db /\ db[t.record].rev = t.rev
                       \/ \E chain \in chains : Head(chain).status = "ok" /\ Head(chain).record = t.record
  BY DEF TokenIsCurrent
<1>1. CASE boot.phase = "loading"
  <2>1. Loading(act, token, db, boot.loaded, boot.old)
    BY <1>1 DEF Sane, Loads
  <2>2. PICK b \in Activities, r \in boot.loaded :
          OneLoaded(act, token, db, boot.loaded, boot.old, b, r)
    BY <2>1 DEF Loading, NoneLoaded, Unborn
  <2>3. a = b
    BY <2>1, <2>2 DEF Loading, Unborn, OneLoaded
  <2> QED
    BY <2>2, <2>3 DEF OneLoaded, LoadedAs
<1>2. CASE boot.phase # "loading"
  BY <1>2, FitCurrent DEF Whole, Sane, Structure
<1> QED
  BY <1>1, <1>2

\* What a crash now would leave, by what db8 has been asked.
Explains(A, c, x) ==
  \/ c.kind = "noop" /\ c.finish = "create" /\ x = Nothing
  \/ c.kind = "delete" /\ x = Nothing
  \/ c.kind = "store" /\ x = [of |-> c.of, version |-> c.version] /\ c.version <= A[c.of].version

\* What is stored is what was told, or what an open command makes of it.
LEMMA FitDurable ==
  ASSUME NEW A, NEW Q, NEW K, NEW w, NEW D, Typed(A, Q, K), Records(D), Fit(A, Q, K, w, D)
  PROVE  LatestOf(D) = w \/ \E q \in Q : \E i \in DOMAIN q : Explains(A, q[i], LatestOf(D))
PROOF
<1>1. PICK V \in [Tokens -> TokenState] : SoundIn(A, Q, K, V, w, D)
  BY FitSound
<1>2. PICK Z : Z = View(A)
  OBVIOUS
<1>3. Sound(Z, Jobs(Q), Order(Q), K, V, D, HeadsOf(Q), w)
  BY <1>1, <1>2 DEF SoundIn
<1>4. CASE Ahead(HeadsOf(Q)) = {}
  <2>1. w = LatestOf(D) \/ (LatestOf(D) = Nothing /\ Pending(Jobs(Q)))
    BY <1>3, <1>4 DEF Sound, ToldIs
  <2>2. ASSUME Pending(Jobs(Q)), LatestOf(D) = Nothing
        PROVE  \E q \in Q : \E i \in DOMAIN q : Explains(A, q[i], LatestOf(D))
    <3>1. PICK x \in Jobs(Q) : x.kind = "noop" /\ x.finish = "create"
      BY <2>2 DEF Pending
    <3>2. PICK q \in Q : \E i \in DOMAIN q : x = Job(q[i])
      BY JobMember
    <3>3. PICK i \in DOMAIN q : x = Job(q[i])
      BY <3>2
    <3>4. q[i].kind = "noop" /\ q[i].finish = "create"
      BY <3>1, <3>3, JobFields
    <3> QED
      BY <2>2, <3>4 DEF Explains
  <2> QED
    BY <2>1, <2>2
<1>5. CASE Ahead(HeadsOf(Q)) # {}
  <2>1. PICK h \in HeadsOf(Q) :
          /\ h.status = "ok" /\ Calling(Z, Jobs(Q), K, V, D, h)
          /\ V = [K EXCEPT ![TokenAt(Z, h)] = Result(h)]
    BY <1>3, <1>5, AheadIs
  <2>2. PICK q \in Q : h = q[1]
    BY DEF HeadsOf
  <2>3. 1 \in DOMAIN q /\ h \in Command /\ h.of \in Activities
    BY <2>2, ChainedCommand DEF Typed, Command
  <2>4. Same(A, Z, h.of)
    BY <1>2, <2>3, ViewFields
  <2>5. CASE h.kind = "delete"
    <3>1. DOMAIN D = {}
      BY <2>1, <2>5 DEF Calling
    <3>2. LatestOf(D) = Nothing
      BY <3>1 DEF LatestOf
    <3>3. Explains(A, q[1], LatestOf(D))
      BY <2>2, <2>5, <3>2 DEF Explains
    <3> QED
      BY <2>3, <3>3
  <2>6. CASE h.kind = "store"
    <3>1. /\ h.record \in DOMAIN D /\ D[h.record].of = h.of /\ D[h.record].version = h.version
          /\ h.version <= Z[h.of].version
      BY <2>1, <2>6 DEF Calling
    <3>2. OwnerHas(Z, V, D) /\ Stored(Z, V, D)
      BY <1>3 DEF Sound, Owned
    <3>3. TheRecord(Z, V, D, h.record)
      BY <3>1, <3>2, RecordOf
    <3>4. LatestOf(D) = [of |-> h.of, version |-> h.version]
      BY <3>1, <3>3 DEF TheRecord, Content
    <3>5. h.version <= A[h.of].version
      BY <2>4, <3>1 DEF Same
    <3>6. Explains(A, q[1], LatestOf(D))
      BY <2>2, <2>6, <3>4, <3>5 DEF Explains
    <3> QED
      BY <2>3, <3>6
  <2> QED
    BY <2>1, <2>5, <2>6 DEF Calling
<1> QED
  BY <1>4, <1>5

LEMMA Explained ==
  ASSUME Sane, PersistAssumption, NEW c \in Commands(Now), NEW x, Explains(act, c, x)
  PROVE  x \in Outcome(c)
PROOF
<1>1. c \in Command
  BY SaneTypeOK DEF TypeOK
<1>2. c.of \in Activities /\ c.version \in Nat
  BY <1>1 DEF Command, PersistAssumption
<1>3. act[c.of].version \in Nat
  BY <1>2 DEF Sane, Structure, Typed, ActivityState, PersistAssumption
<1>4. CASE c.kind = "store"
  <2>1. x = [of |-> c.of, version |-> c.version] /\ c.version \in c.version..act[c.of].version
    BY <1>2, <1>3, <1>4 DEF Explains
  <2>2. Outcome(c) = {[of |-> c.of, version |-> v] : v \in c.version..act[c.of].version}
    BY <1>4 DEF Outcome
  <2> QED
    BY <2>1, <2>2
<1>5. CASE c.kind = "delete"
  BY <1>5 DEF Explains, Outcome
<1>6. CASE c.kind = "noop"
  BY <1>6 DEF Explains, Outcome
<1> QED
  BY <1>1, <1>4, <1>5, <1>6 DEF Command

LEMMA WholeDurable ==
  ASSUME Sane, Whole, PersistAssumption
  PROVE  ToldIsDurable
PROOF
<1> SUFFICES ASSUME ~failed
             PROVE  LatestOf(db) \in {told} \cup UNION {Outcome(c) : c \in Commands(Now)}
  BY DEF ToldIsDurable
<1>1. CASE boot.phase = "loading"
  BY <1>1 DEF Whole
<1>2. CASE boot.phase # "loading"
  <2>1. Fit(act, chains, token, told, db)
    BY <1>2 DEF Whole
  <2>2. Typed(act, chains, token) /\ Records(db)
    BY DbRecords DEF Sane, Structure
  <2>3. LatestOf(db) = told \/ \E q \in chains : \E i \in DOMAIN q : Explains(act, q[i], LatestOf(db))
    BY <2>1, <2>2, FitDurable
  <2>4. ASSUME NEW q \in chains, NEW i \in DOMAIN q, Explains(act, q[i], LatestOf(db))
        PROVE  LatestOf(db) \in UNION {Outcome(c) : c \in Commands(Now)}
    <3>1. q[i] \in Commands(Now)
      BY CommandsIn
    <3>2. LatestOf(db) \in Outcome(q[i])
      BY <2>4, <3>1, Explained
    <3> QED
      BY <3>1, <3>2
  <2> QED
    BY <2>3, <2>4
<1> QED
  BY <1>1, <1>2

\* With no command left, what is stored is the Activity's that has the name.
LEMMA WholeStaysAway ==
  ASSUME Sane, Whole
  PROVE  ReplacedStaysAway
PROOF
<1> SUFFICES ASSUME chains = {}, ~failed, boot.phase = "done", NEW r \in DOMAIN db
             PROVE  db[r].of \in Named
  BY DEF ReplacedStaysAway
<1>1. Fit(act, {}, token, told, db)
  BY DEF Whole
<1>2. PICK V \in [Tokens -> TokenState] : SoundIn(act, {}, token, V, told, db)
  BY <1>1, FitSound
<1>3. PICK Z : Z = View(act)
  OBVIOUS
<1>4. Sound(Z, {}, {}, token, V, db, {}, told)
  BY <1>2, <1>3, NoJobs DEF SoundIn
<1>5. OwnerHas(Z, V, db) /\ Stored(Z, V, db) /\ ValidHas(Z, {}, V) /\ Unborn(Z)
  BY <1>4 DEF Sound, Owned, Flow, Lives
<1>6. Records(db)
  BY DbRecords DEF Sane, Structure
<1>7. TheRecord(Z, V, db, r)
  BY <1>5, <1>6, RecordOf
<1>8. PICK b \in Activities : b = db[r].of
  BY <1>7 DEF TheRecord
<1>9. Z[b].token # None /\ V[Z[b].token].valid
  BY <1>7, <1>8 DEF TheRecord, Standing
<1>10. Z[b].named /\ Z[b].life = "live"
  BY <1>5, <1>9 DEF ValidHas, HasReplace, Unborn
<1>11. Same(act, Z, b)
  BY <1>3, ViewFields
<1> QED
  BY <1>8, <1>10, <1>11 DEF Same, Named

\* What is there when the last page is loaded.
LEMMA EndsLoaded ==
  ASSUME Sane, PersistAssumption, None \notin Activities, LoadEnds
  PROVE  /\ {a \in Activities : act'[a].life = "live"} = {LatestOf(db).of} \ {None}
         /\ \A a \in Named : act'[a].version = LatestOf(db).version
         /\ Cardinality(DOMAIN db \ boot'.old) = IF db = << >> THEN 0 ELSE 1
PROOF
<1>1. /\ boot.phase = "loading" /\ boot.loaded = DOMAIN db
      /\ act' = act /\ boot'.old = boot.old
  BY DEF LoadEnds, Sane, Structure, BootTyped
<1>2. Loading(act, token, db, DOMAIN db, boot.old) /\ DbTyped(db)
  BY <1>1 DEF Sane, Structure, Loads
<1>3. CASE NoneLoaded(act, DOMAIN db, boot.old)
  <2>1. DOMAIN db = {} /\ \A a \in Activities : act[a].life # "live"
    BY <1>3 DEF NoneLoaded
  <2>2. LatestOf(db) = Nothing
    BY <2>1 DEF LatestOf
  <2>3. db = << >>
    BY <1>2, <2>1 DEF DbTyped
  <2>4. Cardinality(DOMAIN db \ boot'.old) = 0
    BY <2>1, FS_EmptySet
  <2> QED
    BY <1>1, <2>1, <2>2, <2>3, <2>4 DEF Nothing, Named
<1>4. ASSUME NEW a \in Activities, NEW r \in DOMAIN db,
             OneLoaded(act, token, db, DOMAIN db, boot.old, a, r)
      PROVE  /\ {b \in Activities : act'[b].life = "live"} = {LatestOf(db).of} \ {None}
             /\ \A b \in Named : act'[b].version = LatestOf(db).version
             /\ Cardinality(DOMAIN db \ boot'.old) = IF db = << >> THEN 0 ELSE 1
  <2>1. /\ act[a].life = "live" /\ \A b \in Activities : b # a => act[b].life # "live"
        /\ db[r].of = a /\ db[r].version = act[a].version
        /\ \A x \in DOMAIN db : db[x].rev <= db[r].rev
        /\ boot.old = DOMAIN db \ {r}
    BY <1>4 DEF OneLoaded, LoadedAs
  <2>2. PICK m : m = CHOOSE i \in DOMAIN db : \A j \in DOMAIN db : db[j].rev <= db[i].rev
    OBVIOUS
  <2>3. m \in DOMAIN db /\ \A j \in DOMAIN db : db[j].rev <= db[m].rev
    BY <2>1, <2>2
  <2>4. m = r
    <3>1. db[m].rev \in Nat /\ db[r].rev \in Nat
      BY <1>2, <2>3, DbRecords
    <3>2. db[m].rev = db[r].rev
      BY <2>1, <2>3, <3>1
    <3> QED
      BY <1>2, <2>3, <3>2 DEF DbTyped
  <2>5. LatestOf(db) = [of |-> a, version |-> act[a].version]
    BY <2>1, <2>2, <2>4 DEF LatestOf, Content
  <2>6. DOMAIN db \ boot'.old = {r}
    BY <1>1, <2>1
  <2>7. Cardinality(DOMAIN db \ boot'.old) = 1
    BY <2>6, FS_Singleton
  <2>8. db # << >>
    OBVIOUS
  <2>9. {b \in Activities : act'[b].life = "live"} = {a}
    BY <1>1, <2>1
  <2>10. \A b \in Named : b = a
    BY <2>1 DEF Named
  <2> QED
    BY <1>1, <2>5, <2>7, <2>8, <2>9, <2>10
<1> QED
  BY <1>2, <1>3, <1>4 DEF Loading

\* Only the last page ends loading well.
LEMMA LoadingEnds ==
  ASSUME Sane, PersistAssumption, [Next]_vars, boot.phase = "loading", boot'.phase \in {"purging", "done"}
  PROVE  LoadEnds
PROOF
<1>1. chains = {}
  BY DEF Sane, Structure
<1>2. boot'.phase # boot.phase
  OBVIOUS
<1>3. CASE Crash
  BY <1>3 DEF Crash
<1>4. CASE LoadFails
  BY <1>4 DEF LoadFails, Sane, Structure, BootTyped
<1>5. CASE Purge
  BY <1>5 DEF Purge
<1>6. ASSUME NEW r \in DOMAIN db, LoadRecord(r) PROVE LoadEnds
  BY <1>6, LoadRecordLoads DEF Sane, Loads
<1>7. CASE UNCHANGED vars
  BY <1>2, <1>7 DEF vars
<1>8. ~CanCall
  BY DEF CanCall, Ready
<1>9. ~PersistNext
  BY <1>1 DEF PersistNext
<1> QED
  BY <1>1, <1>3, <1>4, <1>5, <1>6, <1>7, <1>8, <1>9 DEF Next, Create, Replace, Update, End, CallbackFails, Release

-----------------------------------------------------------------------------
(* The theorems.                                                           *)

\* The state is what its declarations say, whatever fails: no command is unhooked
\* twice and no token is taken that is not there.
THEOREM PersistTypes == Safety => []TypeOK
PROOF
<1>1. Sane => TypeOK
  BY SaneTypeOK
<1> QED
  BY <1>1, SanityHolds, PTL

\* What an Activity has hooked is in one chain, in the order it was hooked, and the
\* head of every chain is what its Activity has hooked first, so that
\* PersistCommand::Complete always unhooks the front: for any number of Activities
\* replacing each other, any faults and crashes.
THEOREM ChainsStayInOrder == Safety => []ChainsInOrder
PROOF
<1>1. Sane => ChainsInOrder
  BY SaneInOrder
<1> QED
  BY <1>1, SanityHolds, PTL

\* Commands, chains and tokens fit each other and db8: as long as nothing has failed
\* for good, a valid token (MojoDBPersistToken.cpp) stands for a record that is
\* there, with its revision, though Activities share tokens and pass them on; only
\* a call that db8 has done and not answered is ahead of it.
THEOREM PersistConsistent ==
  ASSUME "late" \notin Faults
  PROVE  Safety => []Consistent
PROOF
<1>1. Sane /\ Whole => Consistent
  BY SaneTypeOK, SaneInOrder, WholeCurrent DEF Consistent
<1> QED
  BY <1>1, WholenessHolds, PTL

\* A crash at any moment leaves in db8 what clients were last told, or what an open
\* command was to make of it: stores and deletes of Activities that replace each
\* other never reach db8 in another order than clients are answered in.
THEOREM ToldStaysDurable ==
  ASSUME "late" \notin Faults
  PROVE  Safety => []ToldIsDurable
PROOF
<1>1. Sane /\ Whole => ToldIsDurable
  BY WholeDurable, PersistAssumption
<1> QED
  BY <1>1, WholenessHolds, PTL

\* When no command is open, the record in db8 is of the Activity that has the name:
\* the comment on FinishReplaceActivity (ActivityCategory.cpp), that what is done to
\* the old Activity can no longer affect its persistence, is right but for the
\* restarting complete that "late" stands for.
THEOREM ReplacedStays ==
  ASSUME "late" \notin Faults
  PROVE  Safety => []ReplacedStaysAway
PROOF
<1>1. Sane /\ Whole => ReplacedStaysAway
  BY WholeStaysAway
<1> QED
  BY <1>1, WholenessHolds, PTL

\* Whatever has failed before and however many records were left: when the last
\* page is loaded, the only Activity is that of the record written last, in that
\* version, and MojoDBProxy.cpp purges all other records and not this one.
THEOREM LoadBringsTheLatest == Safety => LoadBringsLatest
PROOF
<1>1. Sane /\ [Next]_vars =>
        [ boot.phase = "loading" /\ boot'.phase \in {"purging", "done"} =>
            LET latest == LatestOf(db)
            IN /\ {a \in Activities : act'[a].life = "live"} = {latest.of} \ {None}
               /\ \A a \in Named : act'[a].version = latest.version
               /\ Cardinality(DOMAIN db \ boot'.old) = IF db = << >> THEN 0 ELSE 1 ]_vars
  <2> SUFFICES ASSUME Sane, [Next]_vars, boot.phase = "loading", boot'.phase \in {"purging", "done"}
               PROVE  LET latest == LatestOf(db)
                      IN /\ {a \in Activities : act'[a].life = "live"} = {latest.of} \ {None}
                         /\ \A a \in Named : act'[a].version = latest.version
                         /\ Cardinality(DOMAIN db \ boot'.old) = IF db = << >> THEN 0 ELSE 1
    OBVIOUS
  <2>1. LoadEnds
    BY LoadingEnds, PersistAssumption
  <2>2. None \notin Activities
    BY PersistAssumption DEF PersistAssumption
  <2> QED
    BY <2>1, <2>2, EndsLoaded, PersistAssumption
<1> QED
  BY <1>1, SanityHolds, PTL DEF Safety, LoadBringsLatest
=============================================================================
