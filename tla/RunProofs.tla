------------------------------- MODULE RunProofs -------------------------------
(***************************************************************************)
(* The run queues, for every value of the constants: the flags of an       *)
(* Activity and the queue it is on agree, and no slot is idle; the limits  *)
(* hold, an Activity that may run has asked to, one in line is still       *)
(* wanted there, power is used as a lock and given back, and an Activity   *)
(* that was released waits for nothing.                                    *)
(*                                                                         *)
(* First, flags and queues: each operation is shown to keep the invariant, *)
(* or to put the Activity it handles where its flags say, if all the       *)
(* others are in their places.                                             *)
(***************************************************************************)
EXTENDS ActivityManagerProofs

-----------------------------------------------------------------------------
(* Flags and queues: the invariant.                                        *)

\* The flags go up and down together: Activity.cpp never has an Activity run, wait
\* or requeue that is not scheduled, nor an immediate one wait.
SlotFlags(r, x) ==
  /\ r.scheduled => r.initialized
  /\ r.ready \/ r.running \/ r.requeue => r.scheduled
  /\ x \in Immediate /\ r.ready => r.running
  /\ r.life = "new" => ~r.initialized

\* The object is in use: it is live, or it was released and only waits for its
\* persist commands and subscribers, having been told to end for good.
Present(r, x) ==
  \/ r.life = "live"
  \/ /\ r.life = "released" /\ r.extCommand \in FinalCommand /\ x \in Persistent
     /\ r.terminate \/ r.callback = "none"

\* An Activity that was released is not released to start over, and one that
\* was never created waits for no database.
Fate(r, x) ==
  /\ r.life = "released" =>
       /\ Exists(r) => Present(r, x)
       /\ x \in Persistent => r.terminate \/ r.callback = "none"
  /\ r.life = "new" => r.persistCommands = << >>

\* The queues where an Activity may be.
HomeOf(r, x) ==
  IF ~r.initialized THEN {}
  ELSE IF r.running
    THEN IF x \in Immediate THEN {"immediate"}
         ELSE IF x \in UserInitiated THEN {"backgroundInteractive"}
         ELSE {"background", "longBackground"}
  ELSE IF r.ready THEN IF x \in UserInitiated THEN {"readyInteractive"} ELSE {"ready"}
  ELSE IF r.scheduled THEN {"scheduled"}
  ELSE {"initialized"}

Berths(r, x) ==
  IF r.life = "live" THEN HomeOf(r, x)
  ELSE IF Present(r, x) THEN HomeOf(r, x) \cap {"initialized", "scheduled"}
  ELSE {}

AtHome(s, x) ==
  /\ \A q \in QueueName : On(s, x, q) => q \in Berths(s.act[x], x)
  /\ s.act[x].life = "live" /\ HomeOf(s.act[x], x) # {} => \E q \in QueueName : On(s, x, q)

InPlace(s, x) == SlotFlags(s.act[x], x) /\ Fate(s.act[x], x) /\ AtHome(s, x)

\* The states between two handlers, and those where a is underway.
Lined == {s \in ManagerState : Hooked(s) /\ Full(s) /\ \A x \in Activities : InPlace(s, x)}

Adrift(a) == {s \in ManagerState : Hooked(s) /\ \A x \in Activities \ {a} : InPlace(s, x)}

OffSlots(s, a) == ~On(s, a, "background") /\ ~On(s, a, "backgroundInteractive")

\* What running an Activity leaves as it was.
Steady(p, r) ==
  /\ r.life = p.life /\ r.extCommand = p.extCommand /\ r.terminate = p.terminate
  /\ r.subscriptions = p.subscriptions /\ r.persistCommands = p.persistCommands
  /\ (r.callback = "none") = (p.callback = "none")

-----------------------------------------------------------------------------
(* Parts of the state.                                                     *)

LEMMA SteadyPresent ==
  ASSUME NEW x, NEW p, NEW r, Steady(p, r)
  PROVE  /\ Present(p, x) <=> Present(r, x)
         /\ Fate(p, x) <=> Fate(r, x)
BY DEF Steady, Present, Fate, Exists

\* An Activity in use has the fate of one.
LEMMA PresentFate ==
  ASSUME NEW x, NEW r, Present(r, x)
  PROVE  Fate(r, x)
BY DEF Present, Fate

LEMMA RunActivitySteady ==
  ASSUME NEW r \in ActivityState
  PROVE  LET q == RunActivity(r)
         IN /\ Steady(r, q)
            /\ q.running /\ q.initialized = r.initialized /\ q.scheduled = r.scheduled
            /\ q.ready = r.ready /\ q.requeue = r.requeue
BY DEF RunActivity, DoRunActivity, BroadcastCommand, Steady, ActivityState, FinalCommand

\* The queues an Activity runs on are not those it waits on, and so on.
LEMMA BerthsOf ==
  ASSUME NEW x, NEW r
  PROVE  /\ Berths(r, x) \subseteq QueueName
         /\ \A q \in {"background", "backgroundInteractive"} :
              q \in Berths(r, x) => r.running /\ r.life = "live"
         /\ "ready" \in Berths(r, x) =>
              /\ r.life = "live" /\ r.initialized /\ ~r.running /\ r.ready
              /\ x \notin UserInitiated
         /\ "readyInteractive" \in Berths(r, x) =>
              /\ r.life = "live" /\ r.initialized /\ ~r.running /\ r.ready
              /\ x \in UserInitiated
BY DEF Berths, HomeOf, QueueName

LEMMA LinedParts ==
  ASSUME NEW s \in Lined, NEW a \in Activities
  PROVE  /\ s \in ManagerState /\ Hooked(s) /\ Full(s) /\ s \in Adrift(a)
         /\ s.act[a] \in ActivityState
         /\ InPlace(s, a) /\ SlotFlags(s.act[a], a) /\ Fate(s.act[a], a)
         /\ ~s.act[a].running \/ s.act[a].life # "live" => OffSlots(s, a)
<1>1. /\ s \in ManagerState /\ Hooked(s) /\ Full(s) /\ s \in Adrift(a) /\ InPlace(s, a)
      /\ s.act[a] \in ActivityState
  BY ActType DEF Lined, Adrift
<1>2. ~s.act[a].running \/ s.act[a].life # "live" => OffSlots(s, a)
  BY <1>1, BerthsOf, QueueNames DEF InPlace, AtHome, OffSlots
<1> QED
  BY <1>1, <1>2 DEF InPlace

LEMMA StayedSound ==
  ASSUME NEW s, NEW t, NEW x, Stayed(s, t, x), InPlace(s, x)
  PROVE  InPlace(t, x)
BY DEF Stayed, InPlace, AtHome

LEMMA AdmittedSound ==
  ASSUME NEW s \in ManagerState, NEW t, NEW x \in Activities, InPlace(s, x),
         \/ Admitted(s, t, x, "ready", "background")
         \/ Admitted(s, t, x, "readyInteractive", "backgroundInteractive")
  PROVE  InPlace(t, x) /\ s.act[x].life = "live"
<1> DEFINE r == s.act[x]
           q == t.act[x]
<1>1. r \in ActivityState /\ q = RunActivity(r)
  BY ActType DEF Admitted
<1>2. SlotFlags(r, x) /\ Fate(r, x)
  BY DEF InPlace
<1> HIDE DEF r, q
<1>3. /\ Steady(r, q) /\ q.running /\ q.initialized = r.initialized
      /\ q.scheduled = r.scheduled /\ q.ready = r.ready /\ q.requeue = r.requeue
  BY <1>1, RunActivitySteady
<1>4. CASE Admitted(s, t, x, "ready", "background")
  <2>1. "ready" \in Berths(r, x)
    BY <1>4, QueueNames DEF InPlace, AtHome, Admitted, r
  <2>2. r.life = "live" /\ r.initialized /\ ~r.running /\ r.ready /\ x \notin UserInitiated
    BY <2>1, BerthsOf
  <2>3. x \notin Immediate
    BY <1>2, <2>2 DEF SlotFlags
  <2>4. SlotFlags(q, x) /\ Fate(q, x)
    BY <1>2, <1>3, <2>2, <2>3 DEF SlotFlags, Steady, Fate
  <2>5. Berths(q, x) = {"background", "longBackground"}
    BY <1>3, <2>2, <2>3 DEF Berths, HomeOf, Steady
  <2>6. \A o \in QueueName : On(t, x, o) <=> o = "background"
    BY <1>4 DEF Admitted
  <2>7. AtHome(t, x)
    BY <2>5, <2>6, QueueNames DEF AtHome, q
  <2> QED
    BY <2>2, <2>4, <2>7 DEF InPlace, r, q
<1>5. CASE Admitted(s, t, x, "readyInteractive", "backgroundInteractive")
  <2>1. "readyInteractive" \in Berths(r, x)
    BY <1>5, QueueNames DEF InPlace, AtHome, Admitted, r
  <2>2. r.life = "live" /\ r.initialized /\ ~r.running /\ r.ready /\ x \in UserInitiated
    BY <2>1, BerthsOf
  <2>3. x \notin Immediate
    BY <1>2, <2>2 DEF SlotFlags
  <2>4. SlotFlags(q, x) /\ Fate(q, x)
    BY <1>2, <1>3, <2>2, <2>3 DEF SlotFlags, Steady, Fate
  <2>5. Berths(q, x) = {"backgroundInteractive"}
    BY <1>3, <2>2, <2>3 DEF Berths, HomeOf, Steady
  <2>6. \A o \in QueueName : On(t, x, o) <=> o = "backgroundInteractive"
    BY <1>5 DEF Admitted
  <2>7. AtHome(t, x)
    BY <2>5, <2>6, QueueNames DEF AtHome, q
  <2> QED
    BY <2>2, <2>4, <2>7 DEF InPlace, r, q
<1> QED
  BY <1>4, <1>5

-----------------------------------------------------------------------------
(* Admission, and a change of place.                                       *)

\* Admission, with everyone in place.
LEMMA CheckReadyQueueLined ==
  ASSUME NEW s \in ManagerState, Hooked(s), \A x \in Activities : InPlace(s, x)
  PROVE  LET t == CheckReadyQueue(s)
         IN t \in Lined /\ \A a \in Activities : Steady(s.act[a], t.act[a])
<1> DEFINE t == CheckReadyQueue(s)
<1>1. /\ t \in ManagerState /\ Hooked(t) /\ Full(t)
      /\ \A x \in Activities :
           \/ Stayed(s, t, x)
           \/ Admitted(s, t, x, "readyInteractive", "backgroundInteractive")
           \/ Admitted(s, t, x, "ready", "background")
  BY CheckReadyQueuePlaces
<1> HIDE DEF t
<1>2. \A x \in Activities : InPlace(t, x)
  BY <1>1, StayedSound, AdmittedSound
<1>3. ASSUME NEW a \in Activities
      PROVE  Steady(s.act[a], t.act[a])
  <2>1. CASE Stayed(s, t, a)
    BY <2>1 DEF Stayed, Steady
  <2>2. CASE t.act[a] = RunActivity(s.act[a])
    BY <2>2, ActType, RunActivitySteady
  <2> QED
    BY <1>1, <2>1, <2>2 DEF Admitted
<1> QED
  BY <1>1, <1>2, <1>3 DEF Lined, t

\* Admission, with a off the ready queues: a is left alone.
LEMMA CheckReadyQueueAdrift ==
  ASSUME NEW a \in Activities, NEW s \in Adrift(a),
         ~On(s, a, "ready"), ~On(s, a, "readyInteractive")
  PROVE  LET t == CheckReadyQueue(s)
         IN t \in Adrift(a) /\ Full(t) /\ Stayed(s, t, a)
<1> DEFINE t == CheckReadyQueue(s)
<1>1. s \in ManagerState /\ Hooked(s) /\ \A x \in Activities \ {a} : InPlace(s, x)
  BY DEF Adrift
<1>2. /\ t \in ManagerState /\ Hooked(t) /\ Full(t)
      /\ \A x \in Activities :
           \/ Stayed(s, t, x)
           \/ Admitted(s, t, x, "readyInteractive", "backgroundInteractive")
           \/ Admitted(s, t, x, "ready", "background")
  BY <1>1, CheckReadyQueuePlaces
<1> HIDE DEF t
<1>3. \A x \in Activities \ {a} : InPlace(t, x)
  BY <1>1, <1>2, StayedSound, AdmittedSound
<1>4. Stayed(s, t, a)
  BY <1>2 DEF Admitted
<1> QED
  BY <1>2, <1>3, <1>4 DEF Adrift, t

\* No slot becomes idle as long as nobody leaves one and the limit stands.
LEMMA FullKept ==
  ASSUME NEW s \in ManagerState, NEW t \in ManagerState, Full(s), t.level = s.level,
         t.queue["background"] = s.queue["background"],
         t.queue["backgroundInteractive"] = s.queue["backgroundInteractive"],
         Len(t.queue["ready"]) <= Len(s.queue["ready"]),
         Len(t.queue["readyInteractive"]) <= Len(s.queue["readyInteractive"])
  PROVE  Full(t)
<1>1. GetRunningBackgroundActivitiesCount(t) = GetRunningBackgroundActivitiesCount(s)
  BY DEF GetRunningBackgroundActivitiesCount
<1>2. /\ Len(t.queue["ready"]) \in Nat /\ Len(s.queue["ready"]) \in Nat
      /\ Len(t.queue["readyInteractive"]) \in Nat /\ Len(s.queue["readyInteractive"]) \in Nat
  BY BusySum, QueueNames
<1> QED
  BY <1>1, <1>2 DEF Full

\* a is moved to where its flags, as they now are, say it should be.
LEMMA SettleSound ==
  ASSUME NEW a \in Activities, NEW s \in Adrift(a), NEW q \in QueueName,
         NEW t \in ManagerState, t.queue = MoveTo(s, a, q).queue,
         \A x \in Activities \ {a} : t.act[x] = s.act[x],
         SlotFlags(t.act[a], a), Fate(t.act[a], a), q \in Berths(t.act[a], a)
  PROVE  Hooked(t) /\ \A x \in Activities : InPlace(t, x)
<1> DEFINE m == MoveTo(s, a, q)
<1>1. s \in ManagerState /\ Hooked(s) /\ \A x \in Activities \ {a} : InPlace(s, x)
  BY DEF Adrift
<1>2. /\ Hooked(m)
      /\ \A x \in Activities, o \in QueueName :
           On(m, x, o) <=> IF x = a THEN o = q ELSE On(s, x, o)
  BY <1>1, MoveToPlaces
<1> HIDE DEF m
<1>3. \A x, o : On(t, x, o) <=> On(m, x, o)
  BY DEF On, m
<1>4. Hooked(t)
  BY <1>2, <1>3 DEF Hooked, m
<1>5. ASSUME NEW x \in Activities \ {a}
      PROVE  InPlace(t, x)
  <2>1. Stayed(s, t, x)
    BY <1>2, <1>3 DEF Stayed
  <2> QED
    BY <1>1, <2>1, StayedSound
<1>6. InPlace(t, a)
  BY <1>2, <1>3 DEF InPlace, AtHome
<1> QED
  BY <1>4, <1>5, <1>6

\* a leaves its place for q, with what that does to the slots.
LEMMA MoveToAdrift ==
  ASSUME NEW a \in Activities, NEW s \in Adrift(a),
         NEW q \in {"initialized", "scheduled", "immediate", "ended"}
  PROVE  LET t == MoveTo(s, a, q)
         IN /\ t \in Adrift(a) /\ t.act = s.act /\ t.level = s.level /\ t.enabled = s.enabled
            /\ \A o \in QueueName : On(t, a, o) <=> o = q
            /\ Full(s) /\ OffSlots(s, a) => Full(t)
<1> DEFINE t == MoveTo(s, a, q)
<1>1. s \in ManagerState /\ Hooked(s) /\ \A x \in Activities \ {a} : InPlace(s, x)
  BY DEF Adrift
<1>2. q \in QueueName
  BY QueueNames
<1>3. /\ t \in ManagerState /\ Hooked(t)
      /\ \A x \in Activities, o \in QueueName :
           On(t, x, o) <=> IF x = a THEN o = q ELSE On(s, x, o)
      /\ \A o \in QueueName \ {q} :
           /\ Len(t.queue[o]) <= Len(s.queue[o])
           /\ ~On(s, a, o) => t.queue[o] = s.queue[o]
      /\ t.act = s.act /\ t.level = s.level /\ t.enabled = s.enabled
  BY <1>1, <1>2, MoveToPlaces
<1> HIDE DEF t
<1>4. ASSUME NEW x \in Activities \ {a}
      PROVE  InPlace(t, x)
  <2>1. Stayed(s, t, x)
    BY <1>3 DEF Stayed
  <2> QED
    BY <1>1, <2>1, StayedSound
<1>5. ASSUME Full(s), OffSlots(s, a)
      PROVE  Full(t)
  BY <1>1, <1>3, <1>5, FullKept, QueueNames DEF OffSlots
<1> QED
  BY <1>3, <1>4, <1>5 DEF Adrift, t

\* The record of a is changed.
LEMMA SetActAdrift ==
  ASSUME NEW a \in Activities, NEW s \in Adrift(a), NEW r \in ActivityState
  PROVE  LET t == SetAct(s, a, r)
         IN /\ t \in Adrift(a) /\ t.act[a] = r /\ t.queue = s.queue
            /\ t.level = s.level /\ t.enabled = s.enabled
            /\ \A x \in Activities \ {a} : t.act[x] = s.act[x]
            /\ \A x, q : On(t, x, q) <=> On(s, x, q)
            /\ Full(t) <=> Full(s)
            /\ OffSlots(t, a) <=> OffSlots(s, a)
<1> DEFINE t == SetAct(s, a, r)
<1>1. s \in ManagerState /\ Hooked(s) /\ \A x \in Activities \ {a} : InPlace(s, x)
  BY DEF Adrift
<1>2. t \in ManagerState
  BY <1>1, SetActType
<1>3. /\ t.act[a] = r /\ t.queue = s.queue /\ t.level = s.level /\ t.enabled = s.enabled
      /\ \A x \in Activities \ {a} : t.act[x] = s.act[x]
  BY <1>1 DEF SetAct, ManagerState
<1> HIDE DEF t
<1>4. \A x, q : On(t, x, q) <=> On(s, x, q)
  BY <1>3 DEF On
<1>5. Hooked(t)
  BY <1>1, <1>3, <1>4 DEF Hooked
<1>6. ASSUME NEW x \in Activities \ {a}
      PROVE  InPlace(t, x)
  <2>1. Stayed(s, t, x)
    BY <1>3, <1>4 DEF Stayed
  <2> QED
    BY <1>1, <2>1, StayedSound
<1>7. Full(t) <=> Full(s)
  BY <1>3 DEF Full, GetRunningBackgroundActivitiesCount
<1>8. OffSlots(t, a) <=> OffSlots(s, a)
  BY <1>4 DEF OffSlots
<1> QED
  BY <1>2, <1>3, <1>4, <1>5, <1>6, <1>7, <1>8 DEF Adrift, t

\* a is in its place too.
LEMMA AdriftLined ==
  ASSUME NEW a \in Activities, NEW s \in Adrift(a), Full(s), InPlace(s, a)
  PROVE  s \in Lined
BY DEF Adrift, Lined

\* A change of the record that leaves a where it is.
LEMMA SetActLined ==
  ASSUME NEW a \in Activities, NEW s \in Lined, NEW r \in ActivityState,
         r.life = s.act[a].life, r.initialized = s.act[a].initialized,
         r.scheduled = s.act[a].scheduled, r.ready = s.act[a].ready,
         r.running = s.act[a].running, r.requeue => r.scheduled,
         Present(s.act[a], a) => Present(r, a), Fate(r, a)
  PROVE  SetAct(s, a, r) \in Lined /\ SetAct(s, a, r).act[a] = r
<1> DEFINE t == SetAct(s, a, r)
           p == s.act[a]
<1>1. s \in Adrift(a) /\ Full(s) /\ SlotFlags(p, a) /\ AtHome(s, a)
  BY LinedParts DEF InPlace
<1>2. /\ t \in Adrift(a) /\ t.act[a] = r
      /\ \A x, q : On(t, x, q) <=> On(s, x, q)
      /\ Full(t)
  BY <1>1, SetActAdrift
<1> HIDE DEF t, p
<1>3. SlotFlags(r, a)
  BY <1>1 DEF SlotFlags, p
<1>4. HomeOf(r, a) = HomeOf(p, a)
  BY DEF HomeOf, p
<1>5. Berths(p, a) \subseteq Berths(r, a)
  BY <1>4 DEF Berths, p
<1>6. AtHome(t, a)
  BY <1>1, <1>2, <1>4, <1>5 DEF AtHome, p
<1>7. InPlace(t, a)
  BY <1>2, <1>3, <1>6 DEF InPlace
<1> QED
  BY <1>2, <1>7, AdriftLined DEF t

LEMMA SteadyLined ==
  ASSUME NEW a \in Activities, NEW s \in Lined, NEW r \in ActivityState,
         r.initialized = s.act[a].initialized,
         r.scheduled = s.act[a].scheduled, r.ready = s.act[a].ready,
         r.running = s.act[a].running, r.requeue => r.scheduled,
         Steady(s.act[a], r)
  PROVE  SetAct(s, a, r) \in Lined /\ SetAct(s, a, r).act[a] = r
<1>1. r.life = s.act[a].life
  BY DEF Steady
<1>2. (Present(s.act[a], a) => Present(r, a)) /\ Fate(r, a)
  BY LinedParts, SteadyPresent
<1> QED
  BY <1>1, <1>2, SetActLined

-----------------------------------------------------------------------------
(* What a tells the Manager.                                               *)

\* It asks to run, from a waiting queue or from none.
LEMMA RequestRunActivityLined ==
  ASSUME NEW a \in Activities, NEW s \in Adrift(a), Full(s), OffSlots(s, a),
         s.act[a].life = "live", s.act[a].initialized, s.act[a].scheduled,
         ~s.act[a].running
  PROVE  LET t == RequestRunActivity(s, a)
         IN t \in Lined /\ Steady(s.act[a], t.act[a])
<1> DEFINE r == s.act[a]
           p == [r EXCEPT !.ready = TRUE]
           t == SetAct(s, a, p)
<1>1. s \in ManagerState /\ r \in ActivityState
  BY ActType DEF Adrift
<1>2. p \in ActivityState
  BY <1>1, FlagType
<1>3. /\ p.life = "live" /\ p.initialized /\ p.scheduled /\ p.ready /\ ~p.running
      /\ Steady(r, p)
  BY <1>1 DEF ActivityState, Steady
<1>4. RequestRunActivity(s, a) = InformActivityReady(t, a)
  BY DEF RequestRunActivity
<1> HIDE DEF r, p
<1>5. t \in Adrift(a) /\ t.act[a] = p /\ Full(t) /\ OffSlots(t, a)
  BY <1>2, SetActAdrift
<1> HIDE DEF t
<1>6. t \in ManagerState
  BY <1>5 DEF Adrift
<1>7. Fate(p, a)
  BY <1>3 DEF Fate
<1>8. CASE a \in Immediate
  <2> DEFINE m == MoveTo(t, a, "immediate")
             w == RunActivity(p)
             u == SetAct(m, a, w)
  <2>1. InformActivityReady(t, a) = u
    BY <1>5, <1>8 DEF InformActivityReady
  <2>2. w \in ActivityState
    BY <1>2, RunActivityType
  <2>3. /\ Steady(p, w) /\ w.running /\ w.initialized = p.initialized
        /\ w.scheduled = p.scheduled /\ w.ready = p.ready /\ w.requeue = p.requeue
    BY <1>2, RunActivitySteady
  <2>4. m \in Adrift(a) /\ m.act = t.act /\ Full(m)
    BY <1>5, MoveToAdrift
  <2> HIDE DEF w
  <2>5. /\ u \in Adrift(a) /\ u.act[a] = w /\ u.queue = m.queue /\ Full(u)
        /\ \A x \in Activities \ {a} : u.act[x] = t.act[x]
    BY <2>2, <2>4, SetActAdrift
  <2>6. SlotFlags(w, a) /\ Fate(w, a) /\ "immediate" \in Berths(w, a)
    BY <1>3, <1>7, <1>8, <2>3, SteadyPresent DEF SlotFlags, Berths, HomeOf, Steady
  <2> HIDE DEF u
  <2>7. u \in ManagerState
    BY <2>5 DEF Adrift
  <2>8. Hooked(u) /\ \A x \in Activities : InPlace(u, x)
    BY <1>5, <2>5, <2>6, <2>7, SettleSound, QueueNames
  <2>9. u \in Lined
    BY <2>5, <2>7, <2>8 DEF Lined
  <2>10. Steady(r, w)
    BY <1>3, <2>3 DEF Steady
  <2> QED
    BY <1>4, <2>1, <2>5, <2>9, <2>10 DEF r
<1>9. CASE a \notin Immediate
  <2> DEFINE home == IF a \in UserInitiated THEN "readyInteractive" ELSE "ready"
             m == MoveTo(t, a, home)
  <2>1. InformActivityReady(t, a) = CheckReadyQueue(m)
    BY <1>9 DEF InformActivityReady
  <2>2. home \in QueueName
    BY QueueNames
  <2>3. SlotFlags(p, a) /\ home \in Berths(p, a)
    BY <1>3, <1>9 DEF SlotFlags, Berths, HomeOf
  <2> HIDE DEF home
  <2>4. m \in ManagerState /\ m.act = t.act
    BY <1>5, <1>6, <2>2, MoveToPlaces DEF Adrift
  <2> HIDE DEF m
  <2>5. Hooked(m) /\ \A x \in Activities : InPlace(m, x)
    BY <1>5, <1>7, <2>2, <2>3, <2>4, SettleSound DEF m
  <2>6. CheckReadyQueue(m) \in Lined /\ Steady(m.act[a], CheckReadyQueue(m).act[a])
    BY <2>4, <2>5, CheckReadyQueueLined
  <2>7. Steady(r, CheckReadyQueue(m).act[a])
    BY <1>3, <1>5, <2>4, <2>6 DEF Steady
  <2> QED
    BY <1>4, <2>1, <2>6, <2>7 DEF r
<1> QED
  BY <1>8, <1>9

\* It waits, from a waiting queue or from none.
LEMMA InformActivityNotReadyLined ==
  ASSUME NEW a \in Activities, NEW s \in Adrift(a), Full(s), OffSlots(s, a),
         SlotFlags(s.act[a], a), Fate(s.act[a], a), "scheduled" \in Berths(s.act[a], a)
  PROVE  LET t == InformActivityNotReady(s, a)
         IN t \in Lined /\ t.act[a] = s.act[a]
<1> DEFINE t == MoveTo(s, a, "scheduled")
<1>1. t \in Adrift(a) /\ t.act = s.act /\ Full(t)
  BY MoveToAdrift
<1>2. t \in ManagerState
  BY <1>1 DEF Adrift
<1> HIDE DEF t
<1>3. Hooked(t) /\ \A x \in Activities : InPlace(t, x)
  BY <1>1, <1>2, SettleSound, QueueNames DEF t
<1> QED
  BY <1>1, <1>2, <1>3 DEF Lined, InformActivityNotReady, t

\* It is scheduled, from the top.
LEMMA ScheduleActivityLined ==
  ASSUME NEW a \in Activities, NEW s \in Adrift(a), Full(s),
         \A q \in QueueName : On(s, a, q) <=> q = "scheduled",
         Present(s.act[a], a), s.act[a].initialized,
         ~s.act[a].ready, ~s.act[a].running, ~s.act[a].requeue
  PROVE  LET t == ScheduleActivity(s, a)
         IN t \in Lined /\ Steady(s.act[a], t.act[a])
<1> DEFINE r == s.act[a]
           trigger == IF r.trigger = "none" THEN "none" ELSE "armed"
           schedule == IF r.schedule = "none" THEN "none" ELSE "queued"
           p == [r EXCEPT !.trigger = trigger, !.schedule = schedule, !.scheduled = TRUE]
           t == SetAct(s, a, p)
<1>1. s \in ManagerState /\ r \in ActivityState
  BY ActType DEF Adrift
<1>2. p \in ActivityState
  <2>1. [r EXCEPT !.trigger = trigger] \in ActivityState
    BY <1>1, TriggerType
  <2>2. [[r EXCEPT !.trigger = trigger] EXCEPT !.schedule = schedule] \in ActivityState
    BY <2>1, ScheduleType
  <2> QED
    BY <2>2, FlagType
<1>3. /\ p.scheduled /\ p.life = r.life /\ p.initialized = r.initialized /\ p.ready = r.ready
      /\ p.running = r.running /\ p.requeue = r.requeue
      /\ p.extCommand = r.extCommand /\ Steady(r, p)
  <2>1. /\ p.scheduled /\ p.life = r.life /\ p.initialized = r.initialized /\ p.ready = r.ready
        /\ p.running = r.running /\ p.requeue = r.requeue /\ p.extCommand = r.extCommand
    BY <1>1 DEF ActivityState
  <2>2. Steady(r, p)
    BY <1>1 DEF ActivityState, Steady
  <2> QED
    BY <2>1, <2>2
<1>4. ScheduleActivity(s, a) = IF IsRunnable(p) THEN RequestRunActivity(t, a) ELSE t
  BY DEF ScheduleActivity
<1> HIDE DEF p, r
<1>5. /\ t \in Adrift(a) /\ t.act[a] = p /\ Full(t)
      /\ \A q \in QueueName : On(t, a, q) <=> q = "scheduled"
  BY <1>2, SetActAdrift
<1> HIDE DEF t
<1>6. Present(p, a) /\ Fate(p, a)
  BY <1>3, SteadyPresent, PresentFate DEF r
<1>7. p.initialized /\ ~p.ready /\ ~p.running /\ ~p.requeue
  BY <1>3 DEF r
<1>8. CASE IsRunnable(p)
  <2>1. p.extCommand = "start"
    BY <1>8 DEF IsRunnable, ComputeNextExternalCommand
  <2>2. p.life = "live"
    BY <1>6, <2>1 DEF Present, FinalCommand
  <2>3. OffSlots(t, a)
    BY <1>5, QueueNames DEF OffSlots
  <2>4. RequestRunActivity(t, a) \in Lined /\ Steady(p, RequestRunActivity(t, a).act[a])
    BY <1>3, <1>5, <1>7, <2>2, <2>3, RequestRunActivityLined
  <2>5. Steady(r, RequestRunActivity(t, a).act[a])
    BY <1>3, <2>4 DEF Steady
  <2> QED
    BY <1>4, <1>8, <2>4, <2>5 DEF r
<1>9. CASE ~IsRunnable(p)
  <2>1. SlotFlags(p, a)
    BY <1>3, <1>6, <1>7 DEF SlotFlags, Present
  <2>2. Berths(p, a) = {"scheduled"}
    BY <1>3, <1>6, <1>7 DEF Berths, HomeOf
  <2>3. InPlace(t, a)
    BY <1>5, <1>6, <2>1, <2>2, QueueNames DEF InPlace, AtHome
  <2> QED
    BY <1>3, <1>4, <1>5, <1>9, <2>3, AdriftLined DEF r
<1> QED
  BY <1>8, <1>9

LEMMA RequestScheduleActivityLined ==
  ASSUME NEW a \in Activities, NEW s \in Adrift(a), Full(s), OffSlots(s, a),
         Present(s.act[a], a), ~s.act[a].scheduled,
         ~s.act[a].ready, ~s.act[a].running, ~s.act[a].requeue
  PROVE  LET t == RequestScheduleActivity(s, a)
         IN t \in Lined /\ Steady(s.act[a], t.act[a])
<1> DEFINE r == s.act[a]
           p == [r EXCEPT !.initialized = TRUE]
           t == SetAct(s, a, p)
           m == MoveTo(t, a, "scheduled")
           n == MoveTo(t, a, "initialized")
<1>1. s \in ManagerState /\ r \in ActivityState
  BY ActType DEF Adrift
<1>2. p \in ActivityState
  BY <1>1, FlagType
<1>3. /\ p.scheduled = r.scheduled /\ p.initialized /\ p.ready = r.ready
      /\ p.running = r.running /\ p.requeue = r.requeue /\ Steady(r, p)
  BY <1>1 DEF ActivityState, Steady
<1>4. RequestScheduleActivity(s, a) = IF IsEnabled(s) THEN ScheduleActivity(m, a) ELSE n
  BY DEF RequestScheduleActivity
<1> HIDE DEF p, r
<1>5. t \in Adrift(a) /\ t.act[a] = p /\ Full(t) /\ OffSlots(t, a)
  BY <1>2, SetActAdrift
<1> HIDE DEF t
<1>6. ~p.scheduled /\ ~p.ready /\ ~p.running /\ ~p.requeue
  BY <1>3 DEF r
<1>7. Present(p, a) /\ Fate(p, a)
  BY <1>3, SteadyPresent, PresentFate DEF r
<1>8. CASE IsEnabled(s)
  <2>1. /\ m \in Adrift(a) /\ m.act[a] = p /\ Full(m)
        /\ \A q \in QueueName : On(m, a, q) <=> q = "scheduled"
    BY <1>5, MoveToAdrift
  <2> HIDE DEF m
  <2>2. ScheduleActivity(m, a) \in Lined /\ Steady(p, ScheduleActivity(m, a).act[a])
    BY <1>3, <1>6, <1>7, <2>1, ScheduleActivityLined
  <2>3. Steady(r, ScheduleActivity(m, a).act[a])
    BY <1>3, <2>2 DEF Steady
  <2> QED
    BY <1>4, <1>8, <2>2, <2>3 DEF r
<1>9. CASE ~IsEnabled(s)
  <2>1. /\ n \in Adrift(a) /\ n.act[a] = p /\ Full(n)
        /\ \A q \in QueueName : On(n, a, q) <=> q = "initialized"
    BY <1>5, MoveToAdrift
  <2> HIDE DEF n
  <2>2. SlotFlags(p, a)
    BY <1>3, <1>6, <1>7 DEF SlotFlags, Present
  <2>3. Berths(p, a) = {"initialized"}
    BY <1>3, <1>6, <1>7 DEF Berths, HomeOf
  <2>4. InPlace(n, a)
    BY <1>7, <2>1, <2>2, <2>3, QueueNames DEF InPlace, AtHome
  <2> QED
    BY <1>3, <1>4, <1>9, <2>1, <2>4, AdriftLined DEF r
<1> QED
  BY <1>8, <1>9

-----------------------------------------------------------------------------
(* Commands and prerequisites.                                             *)

LEMMA RunnableLined ==
  ASSUME NEW a \in Activities, NEW s \in Lined, Present(s.act[a], a),
         ~s.act[a].running, IsRunnable(s.act[a])
  PROVE  LET t == RequestRunActivity(s, a)
         IN t \in Lined /\ Steady(s.act[a], t.act[a])
<1>1. /\ s \in Adrift(a) /\ Full(s) /\ OffSlots(s, a) /\ SlotFlags(s.act[a], a)
  BY LinedParts
<1>2. s.act[a].scheduled /\ s.act[a].extCommand = "start"
  BY DEF IsRunnable, ComputeNextExternalCommand
<1>3. s.act[a].life = "live" /\ s.act[a].initialized
  BY <1>1, <1>2 DEF Present, SlotFlags, FinalCommand
<1> QED
  BY <1>1, <1>2, <1>3, RequestRunActivityLined

LEMMA AdvanceLined ==
  ASSUME NEW a \in Activities, NEW s \in Lined, Present(s.act[a], a)
  PROVE  LET t == Advance(s, a)
         IN t \in Lined /\ Steady(s.act[a], t.act[a])
<1> DEFINE r == s.act[a]
           next == ComputeNextExternalCommand(r)
           p == BroadcastCommand(r, next)
<1>1. r \in ActivityState /\ next \in ActivityCommand /\ SlotFlags(r, a)
  BY LinedParts, NextCommandType
<1>2. Steady(r, r)
  BY DEF Steady
<1>3. CASE next = "start" /\ ~r.running /\ IsRunnable(r) /\ ~r.ready
  <2>1. Advance(s, a) = RequestRunActivity(s, a)
    BY <1>3 DEF Advance
  <2> QED
    BY <1>3, <2>1, RunnableLined
<1>4. CASE next = "start" /\ ~r.running /\ ~(IsRunnable(r) /\ ~r.ready)
  <2>1. Advance(s, a) = s
    BY <1>4 DEF Advance
  <2> QED
    BY <1>2, <2>1
<1>5. CASE ~(next = "start" /\ ~r.running)
  <2>1. Advance(s, a) = SetAct(s, a, p)
    BY <1>5 DEF Advance
  <2>2. p \in ActivityState
    BY <1>1, BroadcastCommandType
  <2> HIDE DEF next
  <2>3. /\ p.initialized = r.initialized /\ p.scheduled = r.scheduled /\ p.ready = r.ready
        /\ p.running = r.running /\ p.requeue = r.requeue /\ Steady(r, p)
    BY <1>1 DEF BroadcastCommand, ActivityState, Steady
  <2>4. p.requeue => p.scheduled
    BY <1>1, <2>3 DEF SlotFlags
  <2> HIDE DEF p, r
  <2>5. SetAct(s, a, p) \in Lined /\ SetAct(s, a, p).act[a] = p
    BY <2>2, <2>3, <2>4, SteadyLined DEF r
  <2> QED
    BY <2>1, <2>3, <2>5 DEF r
<1> QED
  BY <1>3, <1>4, <1>5

LEMMA RunIfRunnableLined ==
  ASSUME NEW a \in Activities, NEW s \in Lined, Present(s.act[a], a)
  PROVE  LET t == RunIfRunnable(s, a)
         IN t \in Lined /\ Steady(s.act[a], t.act[a])
BY RunnableLined DEF RunIfRunnable, Steady

LEMMA WithdrawIfReadyLined ==
  ASSUME NEW a \in Activities, NEW s \in Lined, Present(s.act[a], a)
  PROVE  LET t == WithdrawIfReady(s, a)
         IN t \in Lined /\ Steady(s.act[a], t.act[a])
<1> DEFINE r == s.act[a]
           p == [r EXCEPT !.ready = FALSE]
           t == SetAct(s, a, p)
<1>1. CASE ~r.running /\ r.ready
  <2>1. WithdrawIfReady(s, a) = InformActivityNotReady(t, a)
    BY <1>1 DEF WithdrawIfReady
  <2>2. /\ r \in ActivityState /\ SlotFlags(r, a)
        /\ s \in Adrift(a) /\ Full(s) /\ OffSlots(s, a)
    BY <1>1, LinedParts
  <2>3. p \in ActivityState
    BY <2>2, FlagType
  <2>4. /\ p.initialized = r.initialized /\ p.scheduled = r.scheduled /\ ~p.ready
        /\ p.running = r.running /\ p.requeue = r.requeue /\ Steady(r, p)
    BY <2>2 DEF ActivityState, Steady
  <2> HIDE DEF p, r
  <2>5. t \in Adrift(a) /\ t.act[a] = p /\ Full(t) /\ OffSlots(t, a)
    BY <2>2, <2>3, SetActAdrift
  <2> HIDE DEF t
  <2>6. r.initialized /\ r.scheduled
    BY <1>1, <2>2 DEF SlotFlags
  <2>7. Present(p, a) /\ Fate(p, a)
    BY <2>4, SteadyPresent, PresentFate DEF r
  <2>8. SlotFlags(p, a) /\ "scheduled" \in Berths(p, a)
    BY <1>1, <2>4, <2>6, <2>7 DEF SlotFlags, Berths, HomeOf, Present
  <2>9. InformActivityNotReady(t, a) \in Lined /\ InformActivityNotReady(t, a).act[a] = p
    BY <2>5, <2>7, <2>8, InformActivityNotReadyLined
  <2> QED
    BY <2>1, <2>4, <2>9 DEF r
<1>2. CASE ~(~r.running /\ r.ready)
  BY <1>2 DEF WithdrawIfReady, Steady
<1> QED
  BY <1>1, <1>2

-----------------------------------------------------------------------------
(* Ending.                                                                 *)

\* An Activity that was in use is live, or was released with the command that
\* ended it.
Outcome(p, r) == r.life = "live" \/ (r.life = "released" /\ r.extCommand = p.extCommand)

LEMMA SteadyOutcome ==
  ASSUME NEW x, NEW p, NEW r, Present(p, x), Steady(p, r)
  PROVE  Outcome(p, r) /\ Present(r, x)
BY SteadyPresent DEF Present, Steady, Outcome

LEMMA InformActivityEndAdrift ==
  ASSUME NEW a \in Activities, NEW s \in Adrift(a)
  PROVE  LET t == InformActivityEnd(s, a)
         IN t \in Adrift(a) /\ Full(t) /\ OffSlots(t, a) /\ t.act[a] = s.act[a]
<1> DEFINE m == MoveTo(s, a, "ended")
           t == CheckReadyQueue(m)
<1>1. InformActivityEnd(s, a) = t
  BY DEF InformActivityEnd
<1>2. /\ m \in Adrift(a) /\ m.act = s.act
      /\ \A q \in QueueName : On(m, a, q) <=> q = "ended"
  BY MoveToAdrift
<1> HIDE DEF m
<1>3. ~On(m, a, "ready") /\ ~On(m, a, "readyInteractive") /\ OffSlots(m, a)
  BY <1>2, QueueNames DEF OffSlots
<1>4. t \in Adrift(a) /\ Full(t) /\ Stayed(m, t, a)
  BY <1>2, <1>3, CheckReadyQueueAdrift
<1>5. OffSlots(t, a) /\ t.act[a] = s.act[a]
  BY <1>2, <1>3, <1>4, QueueNames DEF OffSlots, Stayed
<1> QED
  BY <1>1, <1>4, <1>5

\* An Activity that requeues is live and was scheduled.
LEMMA RequeueActivityLined ==
  ASSUME NEW a \in Activities, NEW s \in Adrift(a), Full(s), OffSlots(s, a),
         s.act[a].life = "live", s.act[a].initialized, s.act[a].scheduled
  PROVE  LET t == RequeueActivity(s, a)
         IN t \in Lined /\ t.act[a].life = "live"
<1> DEFINE r == s.act[a]
           p == [r EXCEPT !.running = FALSE, !.ending = FALSE,
                          !.restart = FALSE, !.requeue = FALSE, !.yielding = FALSE]
           q == [p EXCEPT !.ready = FALSE]
           t == SetAct(s, a, p)
           u == SetAct(t, a, q)
<1>1. s \in ManagerState /\ r \in ActivityState
  BY ActType DEF Adrift
<1>2. p \in ActivityState /\ q \in ActivityState
  BY <1>1, FlagType
<1>3. /\ p.life = "live" /\ p.initialized /\ p.scheduled /\ ~p.running
      /\ q.life = "live" /\ q.initialized /\ q.scheduled /\ ~q.running /\ ~q.requeue /\ ~q.ready
  BY <1>1 DEF ActivityState
<1>4. RequeueActivity(s, a)
        = IF IsRunnable(p) THEN RequestRunActivity(t, a) ELSE InformActivityNotReady(u, a)
  BY DEF RequeueActivity
<1> HIDE DEF p, q, r
<1>5. t \in Adrift(a) /\ t.act[a] = p /\ Full(t) /\ OffSlots(t, a)
  BY <1>2, SetActAdrift
<1> HIDE DEF t
<1>6. u \in Adrift(a) /\ u.act[a] = q /\ Full(u) /\ OffSlots(u, a)
  BY <1>2, <1>5, SetActAdrift
<1> HIDE DEF u
<1>7. RequestRunActivity(t, a) \in Lined /\ RequestRunActivity(t, a).act[a].life = "live"
  BY <1>3, <1>5, RequestRunActivityLined DEF Steady
<1>8. InformActivityNotReady(u, a) \in Lined /\ InformActivityNotReady(u, a).act[a].life = "live"
  <2>1. SlotFlags(q, a) /\ Fate(q, a) /\ "scheduled" \in Berths(q, a)
    BY <1>3 DEF SlotFlags, Fate, Berths, HomeOf
  <2> QED
    BY <1>3, <1>6, <2>1, InformActivityNotReadyLined
<1> QED
  BY <1>4, <1>7, <1>8

\* An Activity that starts over is live, and is scheduled from the top.
LEMMA RestartActivityLined ==
  ASSUME NEW a \in Activities, NEW s \in Adrift(a), Full(s), OffSlots(s, a),
         s.act[a].life = "live"
  PROVE  LET t == RestartActivity(s, a)
         IN t \in Lined /\ t.act[a].life = "live"
<1> DEFINE r == s.act[a]
           f == [r EXCEPT !.initialized = FALSE, !.scheduled = FALSE, !.ready = FALSE,
                          !.running = FALSE, !.ending = FALSE, !.restart = FALSE,
                          !.requeue = FALSE, !.yielding = FALSE]
           p == [f EXCEPT !.intCommand = "none", !.extCommand = "none", !.sentCommand = "none"]
           t == SetAct(s, a, p)
           u == RequestScheduleActivity(t, a)
           q == [u.act[a] EXCEPT !.extCommand = "start"]
           v == SetAct(u, a, q)
<1>1. s \in ManagerState /\ r \in ActivityState
  BY ActType DEF Adrift
<1>2. p \in ActivityState
  <2>1. f \in ActivityState
    BY <1>1, FlagType
  <2> HIDE DEF f
  <2>2. {"none", "start"} \subseteq ActivityCommand
    BY DEF ActivityCommand
  <2> QED
    BY <2>1, <2>2, CommandType
<1>3. p.life = "live" /\ ~p.scheduled /\ ~p.ready /\ ~p.running /\ ~p.requeue
  BY <1>1 DEF ActivityState
<1>4. RestartActivity(s, a) = Advance(v, a)
  BY DEF RestartActivity
<1> HIDE DEF p, r, f
<1>5. t \in Adrift(a) /\ t.act[a] = p /\ Full(t) /\ OffSlots(t, a)
  BY <1>2, SetActAdrift
<1> HIDE DEF t
<1>6. u \in Lined /\ u.act[a].life = "live"
  BY <1>3, <1>5, RequestScheduleActivityLined DEF Present, Steady
<1> HIDE DEF u
<1>7. u.act[a] \in ActivityState /\ SlotFlags(u.act[a], a)
  BY <1>6, LinedParts
<1>8. q \in ActivityState
  BY <1>7, CommandType DEF ActivityCommand
<1>9. /\ q.life = u.act[a].life /\ q.initialized = u.act[a].initialized
      /\ q.scheduled = u.act[a].scheduled /\ q.ready = u.act[a].ready
      /\ q.running = u.act[a].running
      /\ q.requeue => q.scheduled
  BY <1>7 DEF ActivityState, SlotFlags
<1> HIDE DEF q
<1>10. v \in Lined /\ v.act[a] = q
  <2>1. Present(q, a) /\ Fate(q, a)
    BY <1>6, <1>9 DEF Present, Fate
  <2> QED
    BY <1>6, <1>8, <1>9, <2>1, SetActLined
<1> HIDE DEF v
<1>11. Advance(v, a) \in Lined /\ Advance(v, a).act[a].life = "live"
  BY <1>6, <1>9, <1>10, AdvanceLined DEF Present, Steady
<1> QED
  BY <1>4, <1>11

\* An Activity is released for good, with nobody left to hear of it.
LEMMA ReleaseActivityLined ==
  ASSUME NEW a \in Activities, NEW s \in Adrift(a), SlotFlags(s.act[a], a),
         s.act[a].subscriptions = {}, s.act[a].persistCommands = << >>,
         a \in Persistent => s.act[a].terminate \/ s.act[a].callback = "none"
  PROVE  LET t == ReleaseActivity(s, a)
         IN t \in Lined /\ Outcome(s.act[a], t.act[a])
<1> DEFINE r == s.act[a]
           p == [r EXCEPT !.life = "released"]
           m == Unlink(s, a)
           t == SetAct(m, a, p)
<1>1. /\ s \in ManagerState /\ r \in ActivityState /\ Hooked(s)
      /\ \A x \in Activities \ {a} : InPlace(s, x)
  BY ActType DEF Adrift
<1>2. p \in ActivityState
  BY <1>1 DEF ActivityState
<1>3. /\ p.life = "released" /\ p.extCommand = r.extCommand
      /\ p.subscriptions = {} /\ p.persistCommands = << >>
      /\ a \in Persistent => p.terminate \/ p.callback = "none"
  BY <1>1 DEF ActivityState
<1>4. SlotFlags(p, a)
  BY <1>1 DEF ActivityState, SlotFlags
<1>5. ReleaseActivity(s, a) = CheckReadyQueue(t)
  BY DEF ReleaseActivity
<1> HIDE DEF p, r
<1>6. /\ m \in ManagerState /\ Hooked(m) /\ m.act = s.act
      /\ \A x \in Activities, q \in QueueName : On(m, x, q) <=> On(s, x, q) /\ x # a
  BY <1>1, UnlinkPlaces
<1> HIDE DEF m
<1>7. \A x \in Activities \ {a} : InPlace(m, x)
  BY <1>1, <1>6, StayedSound DEF Stayed
<1>8. m \in Adrift(a)
  BY <1>6, <1>7 DEF Adrift
<1>9. t \in Adrift(a) /\ t.act[a] = p /\ \A q \in QueueName : ~On(t, a, q)
  BY <1>2, <1>6, <1>8, SetActAdrift
<1> HIDE DEF t
<1>10. Fate(p, a)
  BY <1>3 DEF Fate, Exists
<1>11. InPlace(t, a)
  BY <1>3, <1>4, <1>9, <1>10 DEF InPlace, AtHome
<1>12. t \in ManagerState /\ Hooked(t) /\ \A x \in Activities : InPlace(t, x)
  BY <1>9, <1>11 DEF Adrift
<1>13. CheckReadyQueue(t) \in Lined /\ Steady(p, CheckReadyQueue(t).act[a])
  BY <1>9, <1>12, CheckReadyQueueLined
<1> QED
  BY <1>3, <1>5, <1>13 DEF Steady, Outcome, r

LEMMA FinishLined ==
  ASSUME NEW a \in Activities, NEW s \in Lined, Present(s.act[a], a),
         s.act[a].subscriptions = {}, s.act[a].persistCommands = << >>
  PROVE  LET t == Finish(s, a)
         IN t \in Lined /\ Outcome(s.act[a], t.act[a])
<1> DEFINE r == s.act[a]
           t == InformActivityEnd(s, a)
<1>1. s \in Adrift(a) /\ SlotFlags(r, a)
  BY LinedParts
<1>2. t \in Adrift(a) /\ Full(t) /\ OffSlots(t, a) /\ t.act[a] = r
  BY <1>1, InformActivityEndAdrift
<1>3. Finish(s, a) = IF ShouldRequeue(r) THEN RequeueActivity(t, a)
                     ELSE IF ShouldRestart(r, a) THEN RestartActivity(t, a)
                     ELSE ReleaseActivity(t, a)
  BY DEF Finish
<1> HIDE DEF t
<1>4. CASE ShouldRequeue(r)
  <2>1. r.life = "live" /\ r.scheduled /\ r.initialized
    BY <1>1, <1>4 DEF ShouldRequeue, Present, SlotFlags
  <2>2. RequeueActivity(t, a) \in Lined /\ RequeueActivity(t, a).act[a].life = "live"
    BY <1>2, <2>1, RequeueActivityLined
  <2> QED
    BY <1>3, <1>4, <2>2 DEF Outcome
<1>5. CASE ~ShouldRequeue(r) /\ ShouldRestart(r, a)
  <2>1. r.life = "live"
    BY <1>5 DEF ShouldRestart, Present
  <2>2. RestartActivity(t, a) \in Lined /\ RestartActivity(t, a).act[a].life = "live"
    BY <1>2, <2>1, RestartActivityLined
  <2> QED
    BY <1>3, <1>5, <2>2 DEF Outcome
<1>6. CASE ~ShouldRequeue(r) /\ ~ShouldRestart(r, a)
  <2>1. a \in Persistent => r.terminate \/ r.callback = "none"
    BY <1>6 DEF ShouldRestart
  <2>2. ReleaseActivity(t, a) \in Lined /\ Outcome(r, ReleaseActivity(t, a).act[a])
    BY <1>1, <1>2, <2>1, ReleaseActivityLined
  <2> QED
    BY <1>3, <1>6, <2>2
<1> QED
  BY <1>4, <1>5, <1>6

LEMMA EndActivityLined ==
  ASSUME NEW a \in Activities, NEW s \in Lined, Present(s.act[a], a)
  PROVE  LET t == EndActivity(s, a)
         IN /\ t \in Lined /\ Outcome(s.act[a], t.act[a])
            /\ s.act[a].persistCommands # << >> => Present(t.act[a], a)
<1> DEFINE p == s.act[a]
           e == [p EXCEPT !.ending = TRUE]
           r == Disarm(e)
           w == [r EXCEPT !.power = "unlocking"]
           t == SetAct(s, a, r)
           u == SetAct(t, a, w)
<1>1. p \in ActivityState /\ SlotFlags(p, a)
  BY LinedParts
<1>2. e \in ActivityState
  BY <1>1, FlagType
<1>3. r \in ActivityState
  BY <1>2, DisarmType
<1>4. /\ e.initialized = p.initialized /\ e.scheduled = p.scheduled /\ e.ready = p.ready
      /\ e.running = p.running /\ e.requeue = p.requeue /\ Steady(p, e)
  BY <1>1 DEF ActivityState, Steady
<1> HIDE DEF e
<1>5. /\ r.initialized = e.initialized /\ r.scheduled = e.scheduled /\ r.ready = e.ready
      /\ r.running = e.running /\ r.requeue = e.requeue /\ Steady(e, r)
  BY <1>2 DEF ActivityState, Steady, Disarm
<1> HIDE DEF r
<1>6. /\ r.initialized = p.initialized /\ r.scheduled = p.scheduled /\ r.ready = p.ready
      /\ r.running = p.running /\ r.requeue = p.requeue /\ Steady(p, r)
  BY <1>4, <1>5 DEF Steady
<1>7. /\ w \in ActivityState
      /\ w.initialized = r.initialized /\ w.scheduled = r.scheduled /\ w.ready = r.ready
      /\ w.running = r.running /\ w.requeue = r.requeue /\ Steady(r, w)
  <2>1. w \in ActivityState
    BY <1>3, PowerType
  <2> QED
    BY <1>3, <2>1 DEF ActivityState, Steady
<1>8. EndActivity(s, a) = IF r.subscriptions # {} THEN t
                          ELSE IF r.power \notin {"none", "unlocked"} THEN u
                          ELSE IF r.persistCommands # << >> THEN t
                          ELSE Finish(t, a)
  BY DEF EndActivity, r, e
<1> HIDE DEF w, p
<1>9. (r.requeue => r.scheduled) /\ (w.requeue => w.scheduled)
  BY <1>1, <1>6, <1>7 DEF SlotFlags
<1>10. t \in Lined /\ t.act[a] = r
  BY <1>3, <1>6, <1>9, SteadyLined DEF p
<1> HIDE DEF t
<1>11. u \in Lined /\ u.act[a] = w
  BY <1>7, <1>9, <1>10, SteadyLined
<1> HIDE DEF u
<1>12. Outcome(p, r) /\ Present(r, a)
  BY <1>6, SteadyOutcome DEF p
<1>13. Outcome(p, w) /\ Present(w, a)
  BY <1>7, <1>12, SteadyOutcome DEF Outcome, Steady
<1>14. r.persistCommands = p.persistCommands
  BY <1>6 DEF Steady
<1>15. CASE r.subscriptions = {} /\ r.power \in {"none", "unlocked"} /\ r.persistCommands = << >>
  <2>1. Finish(t, a) \in Lined /\ Outcome(r, Finish(t, a).act[a])
    BY <1>10, <1>12, <1>15, FinishLined
  <2>2. Outcome(p, Finish(t, a).act[a])
    BY <1>6, <2>1 DEF Outcome, Steady
  <2> QED
    BY <1>8, <1>14, <1>15, <2>1, <2>2 DEF p
<1>16. CASE ~(r.subscriptions = {} /\ r.power \in {"none", "unlocked"} /\ r.persistCommands = << >>)
  BY <1>8, <1>10, <1>11, <1>12, <1>13, <1>16 DEF p
<1> QED
  BY <1>15, <1>16

LEMMA SendCommandLined ==
  ASSUME NEW a \in Activities, NEW s \in Lined, Present(s.act[a], a),
         NEW command \in ActivityCommand, NEW internal \in BOOLEAN
  PROVE  LET t == SendCommand(s, a, command, internal)
         IN /\ t \in Lined /\ t.act[a].life \in {"live", "released"}
            /\ s.act[a].persistCommands # << >> => Present(t.act[a], a)
            /\ ~internal /\ s.act[a].extCommand \notin FinalCommand =>
                 t.act[a].life = "live" \/ t.act[a].extCommand = command
<1> DEFINE p == s.act[a]
           t == IF ~internal /\ command = "start" /\ ~p.initialized /\ ~p.ending
                THEN RequestScheduleActivity(s, a) ELSE s
           o == t.act[a]
           r == IF internal THEN [o EXCEPT !.intCommand = command]
                ELSE [o EXCEPT !.extCommand = command]
           next == ComputeNextExternalCommand(r)
           w == BroadcastCommand(r, next)
           u == SetAct(t, a, r)
           v == SetAct(t, a, w)
<1>1. SendCommand(s, a, command, internal)
        = IF AlreadyEnded(o, internal) THEN t
          ELSE IF r.ending \/ next = r.sentCommand THEN u
          ELSE IF next \in FinalCommand THEN EndActivity(v, a)
          ELSE Advance(u, a)
  BY DEF SendCommand
<1>2. t \in Lined /\ Steady(p, o)
  <2>1. CASE ~p.initialized
    <3>1. /\ s \in Adrift(a) /\ Full(s) /\ SlotFlags(p, a)
          /\ ~p.running => OffSlots(s, a)
      BY LinedParts
    <3>2. ~p.scheduled /\ ~p.ready /\ ~p.running /\ ~p.requeue
      BY <2>1, <3>1 DEF SlotFlags
    <3>3. /\ RequestScheduleActivity(s, a) \in Lined
          /\ Steady(p, RequestScheduleActivity(s, a).act[a])
      BY <3>1, <3>2, RequestScheduleActivityLined
    <3>4. Steady(p, p)
      BY DEF Steady
    <3> QED
      BY <3>3, <3>4
  <2>2. CASE p.initialized
    BY <2>2 DEF Steady
  <2> QED
    BY <2>1, <2>2
<1> HIDE DEF t, p
<1>3. o \in ActivityState /\ SlotFlags(o, a)
  BY <1>2, LinedParts
<1>4. Present(o, a)
  BY <1>2, SteadyPresent DEF p
<1>5. /\ o.persistCommands = p.persistCommands /\ o.extCommand = p.extCommand
  BY <1>2 DEF Steady
<1> HIDE DEF o
<1>6. r \in ActivityState /\ next \in ActivityCommand
  <2>1. r \in ActivityState
    BY <1>3, CommandType
  <2> HIDE DEF r
  <2> QED
    BY <2>1, NextCommandType
<1>7. /\ r.life = o.life /\ r.initialized = o.initialized /\ r.scheduled = o.scheduled
      /\ r.ready = o.ready /\ r.running = o.running /\ r.requeue = o.requeue
      /\ r.persistCommands = o.persistCommands
      /\ internal => Steady(o, r)
      /\ ~internal => r.extCommand = command
  BY <1>3 DEF ActivityState, Steady
<1> HIDE DEF r, next
<1>8. o.life \in {"live", "released"}
  BY <1>4 DEF Present
<1>9. CASE AlreadyEnded(o, internal)
  <2>1. p.persistCommands # << >> => Present(o, a)
    BY <1>4
  <2>2. ~internal => p.extCommand \in FinalCommand
    BY <1>5, <1>9 DEF AlreadyEnded
  <2> QED
    BY <1>1, <1>2, <1>8, <1>9, <2>1, <2>2 DEF p, o
<1>10. CASE ~AlreadyEnded(o, internal)
  <2>1. ~internal => o.life = "live"
    BY <1>4, <1>10 DEF AlreadyEnded, Present
  <2>2. Present(r, a) /\ Fate(r, a)
    <3>1. Present(r, a)
      BY <1>4, <1>7, <2>1, SteadyPresent DEF Present
    <3> QED
      BY <3>1, PresentFate
  <2>3. r.requeue => r.scheduled
    BY <1>3, <1>7 DEF SlotFlags
  <2>4. u \in Lined /\ u.act[a] = r
    BY <1>2, <1>6, <1>7, <2>2, <2>3, SetActLined DEF o
  <2>5. /\ w \in ActivityState /\ w.initialized = r.initialized /\ w.scheduled = r.scheduled
        /\ w.ready = r.ready /\ w.running = r.running /\ w.requeue = r.requeue /\ Steady(r, w)
    <3>1. w \in ActivityState
      BY <1>6, BroadcastCommandType
    <3> QED
      BY <1>6, <3>1 DEF BroadcastCommand, ActivityState, Steady
  <2> HIDE DEF w
  <2>6. Present(w, a) /\ Fate(w, a)
    BY <2>2, <2>5, SteadyPresent
  <2>7. v \in Lined /\ v.act[a] = w
    <3>1. w.life = r.life
      BY <2>5 DEF Steady
    <3> QED
      BY <1>2, <1>7, <2>3, <2>5, <2>6, <3>1, SetActLined DEF o
  <2> HIDE DEF u, v
  <2>8. Outcome(r, r) /\ Present(r, a)
    BY <2>2, SteadyOutcome DEF Steady
  <2>9. /\ EndActivity(v, a) \in Lined /\ Outcome(r, EndActivity(v, a).act[a])
        /\ r.persistCommands # << >> => Present(EndActivity(v, a).act[a], a)
    <3>1. /\ EndActivity(v, a) \in Lined /\ Outcome(w, EndActivity(v, a).act[a])
          /\ w.persistCommands # << >> => Present(EndActivity(v, a).act[a], a)
      BY <2>6, <2>7, EndActivityLined
    <3> QED
      BY <2>5, <3>1 DEF Outcome, Steady
  <2>10. /\ Advance(u, a) \in Lined /\ Outcome(r, Advance(u, a).act[a])
         /\ Present(Advance(u, a).act[a], a)
    BY <2>2, <2>4, AdvanceLined, SteadyOutcome
  <2>11. LET z == SendCommand(s, a, command, internal)
         IN /\ z \in Lined /\ Outcome(r, z.act[a])
            /\ r.persistCommands # << >> => Present(z.act[a], a)
    BY <1>1, <1>10, <2>4, <2>8, <2>9, <2>10
  <2> QED
    BY <1>5, <1>7, <2>11 DEF Outcome, p
<1> QED
  BY <1>9, <1>10

-----------------------------------------------------------------------------
(* Subscribers.                                                            *)

\* A change that is none of those the queues depend on.
SameSlots(p, r) ==
  /\ r.life = p.life /\ r.extCommand = p.extCommand /\ r.terminate = p.terminate
  /\ (r.callback = "none") = (p.callback = "none")
  /\ r.initialized = p.initialized /\ r.scheduled = p.scheduled /\ r.ready = p.ready
  /\ r.running = p.running /\ r.requeue = p.requeue

LEMMA AlikeLined ==
  ASSUME NEW a \in Activities, NEW s \in Lined, Present(s.act[a], a),
         NEW r \in ActivityState, SameSlots(s.act[a], r)
  PROVE  /\ SetAct(s, a, r) \in Lined /\ SetAct(s, a, r).act[a] = r
         /\ Present(r, a)
<1>1. Present(r, a)
  BY DEF SameSlots, Present
<1>2. Fate(r, a)
  BY <1>1, PresentFate
<1>3. r.requeue => r.scheduled
  BY LinedParts DEF SameSlots, SlotFlags
<1> QED
  BY <1>1, <1>2, <1>3, SetActLined DEF SameSlots

LEMMA OrphanedLined ==
  ASSUME NEW a \in Activities, NEW s \in Lined, Present(s.act[a], a)
  PROVE  Orphaned(s, a) \in Lined
<1>1. "cancel" \in ActivityCommand /\ TRUE \in BOOLEAN
  BY DEF ActivityCommand, FinalCommand
<1> QED
  BY <1>1, SendCommandLined DEF Orphaned

LEMMA RemoveSubscriptionLined ==
  ASSUME NEW a \in Activities, NEW s \in Lined, Present(s.act[a], a), NEW b \in Subscribers
  PROVE  RemoveSubscription(s, a, b) \in Lined
<1> DEFINE r == s.act[a]
           waiting == Without(r.adopters, b)
           lost == r.parent = b
           subscriptions == r.subscriptions \ {b}
           told == r.told \ {b}
           releasedParent == IF r.releasedParent = b THEN None ELSE r.releasedParent
           parent == IF ~lost THEN r.parent
                     ELSE IF waiting = << >> THEN None ELSE Head(waiting)
           adopters == IF lost /\ waiting # << >> THEN Tail(waiting) ELSE waiting
           q == [r EXCEPT !.subscriptions = subscriptions, !.told = told,
                          !.releasedParent = releasedParent, !.parent = parent,
                          !.adopters = adopters]
           t == SetAct(s, a, q)
<1>1. r \in ActivityState
  BY LinedParts
<1>2. /\ r.subscriptions \subseteq Subscribers /\ r.told \subseteq Subscribers
      /\ r.parent \in Subscribers \cup {None}
      /\ r.releasedParent \in Subscribers \cup {None}
      /\ r.adopters \in Seq(Subscribers)
  BY <1>1 DEF ActivityState
<1> HIDE DEF r
<1>3. waiting \in Seq(Subscribers)
  BY <1>2, WithoutType
<1> HIDE DEF waiting
<1>4. waiting # << >> => Head(waiting) \in Subscribers /\ Tail(waiting) \in Seq(Subscribers)
  BY <1>3, HeadTailProperties
<1>5. /\ subscriptions \in SUBSET Subscribers /\ told \in SUBSET Subscribers
      /\ releasedParent \in Subscribers \cup {None}
  BY <1>2
<1>6. parent \in Subscribers \cup {None} /\ adopters \in Seq(Subscribers)
  BY <1>2, <1>3, <1>4
<1> HIDE DEF subscriptions, told, releasedParent, parent, adopters
<1>7. q \in ActivityState
  BY <1>1, <1>5, <1>6, FamilyType
<1>8. SameSlots(r, q)
  BY <1>1 DEF SameSlots, ActivityState
<1> HIDE DEF q
<1>9. t \in Lined /\ Present(t.act[a], a)
  BY <1>7, <1>8, AlikeLined DEF r
<1>10. EndActivity(t, a) \in Lined /\ Orphaned(t, a) \in Lined
  BY <1>9, EndActivityLined, OrphanedLined
<1> HIDE DEF t
<1> QED
  BY <1>9, <1>10
     DEF RemoveSubscription, r, waiting, q, t, subscriptions, told,
         releasedParent, parent, adopters

LEMMA AdoptLined ==
  ASSUME NEW a \in Activities, NEW s \in Lined, Present(s.act[a], a), NEW b \in Subscribers
  PROVE  Adopt(s, a, b) \in Lined
<1> DEFINE p == s.act[a]
           adopters == Append(p.adopters, b)
           r == [p EXCEPT !.adopters = adopters]
           q == DoAdopt(r)
<1>1. p \in ActivityState
  BY LinedParts
<1> HIDE DEF p
<1>2. adopters \in Seq(Subscribers) /\ adopters # << >>
  BY <1>1, AppendProperties DEF ActivityState
<1> HIDE DEF adopters
<1>3. r \in ActivityState /\ r.adopters # << >> /\ SameSlots(p, r)
  <2>1. r \in ActivityState
    BY <1>1, <1>2 DEF ActivityState
  <2>2. r.adopters # << >>
    BY <1>1, <1>2 DEF ActivityState
  <2>3. SameSlots(p, r)
    BY <1>1 DEF ActivityState, SameSlots
  <2> QED
    BY <2>1, <2>2, <2>3
<1> HIDE DEF r
<1>4. q \in ActivityState
  BY <1>3, DoAdoptType
<1>5. SameSlots(r, q)
  BY <1>3 DEF DoAdopt, SameSlots, ActivityState
<1> HIDE DEF q
<1>6. SameSlots(p, q)
  BY <1>3, <1>5 DEF SameSlots
<1>7. SetAct(s, a, r) \in Lined /\ SetAct(s, a, q) \in Lined
  BY <1>3, <1>4, <1>6, AlikeLined DEF p
<1> QED
  BY <1>7 DEF Adopt, p, r, q, adopters

LEMMA ReleaseLined ==
  ASSUME NEW a \in Activities, NEW s \in Lined, Present(s.act[a], a)
  PROVE  Release(s, a) \in Lined
<1> DEFINE p == s.act[a]
           r == [p EXCEPT !.releasedParent = p.parent, !.parent = None, !.released = TRUE]
           q == DoAdopt(r)
<1>1. p \in ActivityState
  BY LinedParts
<1> HIDE DEF p
<1>2. p.parent \in Subscribers \cup {None}
  BY <1>1 DEF ActivityState
<1>3. r \in ActivityState /\ SameSlots(p, r)
  <2>1. r \in ActivityState
    <3>1. [p EXCEPT !.releasedParent = p.parent, !.parent = None] \in ActivityState
      BY <1>1, <1>2 DEF ActivityState
    <3> QED
      BY <3>1, FlagType
  <2>2. SameSlots(p, r)
    BY <1>1 DEF ActivityState, SameSlots
  <2> QED
    BY <2>1, <2>2
<1> HIDE DEF r
<1>4. r.adopters # << >> => q \in ActivityState
  BY <1>3, DoAdoptType
<1>5. SameSlots(p, q)
  BY <1>3 DEF DoAdopt, SameSlots, ActivityState
<1> HIDE DEF q
<1>6. SetAct(s, a, r) \in Lined
  BY <1>3, AlikeLined DEF p
<1>7. r.adopters # << >> => SetAct(s, a, q) \in Lined
  BY <1>4, <1>5, AlikeLined DEF p
<1> QED
  BY <1>6, <1>7 DEF Release, p, r, q

\* Only an Activity that runs is asked to yield.
LEMMA YieldActivityLined ==
  ASSUME NEW a \in Activities, NEW s \in Lined, s.act[a].life = "live", s.act[a].running
  PROVE  YieldActivity(s, a) \in Lined
<1> DEFINE p == s.act[a]
           q == [p EXCEPT !.yielding = TRUE, !.requeue = TRUE]
           r == [q EXCEPT !.told = p.subscriptions]
           t == SetAct(s, a, r)
<1>1. p \in ActivityState /\ SlotFlags(p, a)
  BY LinedParts
<1> HIDE DEF p
<1>2. q \in ActivityState
  BY <1>1, FlagType
<1>3. /\ q.life = p.life /\ q.initialized = p.initialized /\ q.scheduled = p.scheduled
      /\ q.ready = p.ready /\ q.running = p.running
  BY <1>1 DEF ActivityState
<1> HIDE DEF q
<1>4. p.subscriptions \in SUBSET Subscribers
  BY <1>1 DEF ActivityState
<1>5. /\ r \in ActivityState
      /\ r.life = p.life /\ r.initialized = p.initialized /\ r.scheduled = p.scheduled
      /\ r.ready = p.ready /\ r.running = p.running
  BY <1>2, <1>3, <1>4 DEF ActivityState
<1> HIDE DEF r
<1>6. r.scheduled /\ r.life = "live"
  BY <1>1, <1>5 DEF SlotFlags, p
<1>7. Present(r, a) /\ Fate(r, a)
  BY <1>6, PresentFate DEF Present
<1>8. t \in Lined /\ t.act[a] = r
  BY <1>5, <1>6, <1>7, SetActLined DEF p
<1> HIDE DEF t
<1>9. EndActivity(t, a) \in Lined
  BY <1>7, <1>8, EndActivityLined
<1> QED
  BY <1>9 DEF YieldActivity, p, q, r, t

-----------------------------------------------------------------------------
(* Persist commands.                                                       *)

LEMMA FinishCreateActivityLined ==
  ASSUME NEW a \in Activities, NEW s \in Lined, Present(s.act[a], a),
         NEW b \in Subscribers \cup {None}, NEW start \in BOOLEAN
  PROVE  LET t == FinishCreateActivity(s, a, b, start)
         IN t \in Lined /\ t.act[a].life \in {"live", "released"}
<1> DEFINE p == s.act[a]
           r == IF b = None THEN p ELSE AddSubscription(p, b)
           q == IF b = None THEN r ELSE SetParent(r, b)
           u == SetAct(s, a, r)
           t == SetAct(s, a, q)
<1>1. p \in ActivityState
  BY LinedParts
<1> HIDE DEF p
<1>2. r \in ActivityState
  BY <1>1, AddSubscriptionType
<1>3. SameSlots(p, r)
  BY <1>1 DEF AddSubscription, SameSlots, ActivityState
<1> HIDE DEF r
<1>4. q \in ActivityState
  BY <1>2, SetParentType
<1>5. SameSlots(p, q)
  BY <1>2, <1>3 DEF SetParent, SameSlots, ActivityState
<1> HIDE DEF q
<1>6. /\ u \in Lined /\ Present(u.act[a], a)
      /\ t \in Lined /\ Present(t.act[a], a)
  BY <1>2, <1>3, <1>4, <1>5, AlikeLined DEF p
<1> HIDE DEF t, u
<1>7. "start" \in ActivityCommand /\ FALSE \in BOOLEAN
  BY DEF ActivityCommand
<1>8. /\ SendCommand(t, a, "start", FALSE) \in Lined
      /\ SendCommand(t, a, "start", FALSE).act[a].life \in {"live", "released"}
  BY <1>6, <1>7, SendCommandLined
<1>9. FinishCreateActivity(s, a, b, start)
        \in {u, t, SendCommand(t, a, "start", FALSE)}
  BY DEF FinishCreateActivity, p, r, q, t, u
<1> QED
  BY <1>6, <1>8, <1>9 DEF Present

LEMMA NamedLined ==
  ASSUME NEW a \in Activities, NEW s \in Lined, NEW named \in BOOLEAN
  PROVE  LET r == [s.act[a] EXCEPT !.named = named]
         IN SetAct(s, a, r) \in Lined /\ SetAct(s, a, r).act[a] = r
<1> DEFINE p == s.act[a]
           r == [p EXCEPT !.named = named]
<1>1. p \in ActivityState /\ SlotFlags(p, a)
  BY LinedParts
<1>2. r \in ActivityState
  BY <1>1, FlagType
<1>3. /\ r.initialized = p.initialized /\ r.scheduled = p.scheduled /\ r.ready = p.ready
      /\ r.running = p.running /\ r.requeue = p.requeue /\ Steady(p, r)
  BY <1>1 DEF ActivityState, Steady
<1> HIDE DEF p, r
<1>4. r.requeue => r.scheduled
  BY <1>1, <1>3 DEF SlotFlags
<1>5. SetAct(s, a, r) \in Lined /\ SetAct(s, a, r).act[a] = r
  BY <1>2, <1>3, <1>4, SteadyLined DEF p
<1> QED
  BY <1>5 DEF p, r

LEMMA FinishCallLined ==
  ASSUME NEW a \in Activities, NEW s \in Lined, NEW command \in PersistCommand,
         s.act[a].life \in {"live", "released"},
         command.finish = "create" => Present(s.act[a], a)
  PROVE  LET t == FinishCall(s, a, command)
         IN t \in Lined /\ t.act[a].life \in {"live", "released"}
<1>1. /\ command.finish \in {"create", "end", "restart"}
      /\ command.sub \in Subscribers \cup {None}
      /\ command.start \in BOOLEAN
  BY DEF PersistCommand
<1>2. CASE command.finish = "create"
  BY <1>1, <1>2, FinishCreateActivityLined DEF FinishCall
<1>3. CASE command.finish = "end"
  <2>1. FinishCall(s, a, command) = FinishEnd(s, a)
    BY <1>3 DEF FinishCall
  <2>2. [s.act[a] EXCEPT !.named = FALSE].life = s.act[a].life
    BY LinedParts DEF ActivityState
  <2> QED
    BY <2>1, <2>2, NamedLined DEF FinishEnd
<1>4. CASE command.finish = "restart"
  BY <1>4 DEF FinishCall
<1> QED
  BY <1>1, <1>2, <1>3, <1>4

\* A call that waits for the database holds the object.
LEMMA EnsureCompletionLined ==
  ASSUME NEW a \in Activities, NEW s \in Lined, NEW command \in PersistCommand,
         \/ s.act[a].life = "live"
         \/ /\ s.act[a].life = "released" /\ s.act[a].extCommand \in FinalCommand
            /\ command.finish # "create"
  PROVE  EnsureCompletion(s, a, command) \in Lined
<1> DEFINE p == s.act[a]
           commands == Append(p.persistCommands, command)
           r == [p EXCEPT !.persistCommands = commands]
<1>1. p \in ActivityState /\ SlotFlags(p, a) /\ Fate(p, a)
  BY LinedParts
<1>2. commands \in Seq(PersistCommand) /\ commands # << >>
  BY <1>1, AppendProperties DEF ActivityState
<1> HIDE DEF commands
<1>3. r \in ActivityState
  BY <1>1, <1>2, PersistCommandsType
<1>4. SameSlots(p, r)
  BY <1>1 DEF SameSlots, ActivityState
<1>5. FinishCall(s, a, command) \in Lined
  BY FinishCallLined DEF Present
<1> HIDE DEF r
<1>6. ASSUME a \in Persistent \/ p.persistCommands # << >>
      PROVE  SetAct(s, a, r) \in Lined
  <2>1. p.life = "released" => a \in Persistent /\ (p.terminate \/ p.callback = "none")
    BY <1>1, <1>6 DEF Fate, Present, Exists
  <2>2. Present(r, a)
    BY <1>4, <2>1 DEF Present, SameSlots, p
  <2>3. Fate(r, a)
    BY <2>2, PresentFate
  <2>4. r.requeue => r.scheduled
    BY <1>1, <1>4 DEF SameSlots, SlotFlags
  <2> HIDE DEF p
  <2>5. /\ r.life = p.life /\ r.initialized = p.initialized /\ r.scheduled = p.scheduled
        /\ r.ready = p.ready /\ r.running = p.running
    BY <1>4, SMTT(60) DEF SameSlots
  <2> QED
    BY <1>3, <2>2, <2>3, <2>4, <2>5, SetActLined DEF p
<1> QED
  BY <1>5, <1>6 DEF EnsureCompletion, HookPersistCommand, p, r, commands

LEMMA CompletePersistCommandLined ==
  ASSUME NEW a \in Activities, NEW s \in Lined, s.act[a].persistCommands # << >>
  PROVE  CompletePersistCommand(s, a) \in Lined
<1> DEFINE p == s.act[a]
           command == Head(p.persistCommands)
           t == FinishCall(s, a, command)
           o == t.act[a]
           commands == Tail(o.persistCommands)
           r == [o EXCEPT !.persistCommands = commands]
           u == SetAct(t, a, r)
<1>1. p \in ActivityState /\ Fate(p, a) /\ s \in ManagerState
  BY LinedParts
<1>2. p.persistCommands \in Seq(PersistCommand)
  BY <1>1 DEF ActivityState
<1>3. command \in PersistCommand
  BY <1>2, HeadTailProperties
<1>4. Present(p, a)
  BY <1>1 DEF Fate, Present, Exists, ActivityState
<1> HIDE DEF command
<1>5. o.persistCommands = p.persistCommands
  BY <1>1, <1>3, FinishCallStep
<1>6. t \in Lined /\ o.life \in {"live", "released"}
  BY <1>3, <1>4, FinishCallLined DEF Present
<1> HIDE DEF t
<1>7. o \in ActivityState /\ SlotFlags(o, a) /\ Fate(o, a)
  BY <1>6, LinedParts
<1>8. Present(o, a)
  BY <1>5, <1>6, <1>7 DEF Fate, Present, Exists
<1>9. commands \in Seq(PersistCommand)
  BY <1>2, <1>5, HeadTailProperties
<1> HIDE DEF commands
<1>10. r \in ActivityState
  BY <1>7, <1>9, PersistCommandsType
<1>11. SameSlots(o, r)
  BY <1>7 DEF SameSlots, ActivityState
<1> HIDE DEF r
<1>12. u \in Lined /\ Present(u.act[a], a)
  BY <1>6, <1>8, <1>10, <1>11, AlikeLined
<1> HIDE DEF u
<1>13. EndActivity(u, a) \in Lined
  BY <1>12, EndActivityLined
<1> QED
  BY <1>12, <1>13 DEF CompletePersistCommand, p, command, t, r, u, commands

-----------------------------------------------------------------------------
(* Calls of several parts.                                                 *)

LEMMA EndCallLined ==
  ASSUME NEW a \in Activities, NEW s \in Lined, Present(s.act[a], a),
         NEW command \in FinalCommand
  PROVE  EndCall(s, a, command) \in Lined
<1> DEFINE p == s.act[a]
           r == [p EXCEPT !.terminate = TRUE]
           t == SetAct(s, a, r)
           u == SendCommand(t, a, command, FALSE)
           end == [finish |-> "end", sub |-> None, start |-> FALSE]
<1>1. p \in ActivityState /\ SlotFlags(p, a)
  BY LinedParts
<1> HIDE DEF p
<1>2. r \in ActivityState
  BY <1>1, FlagType
<1>3. /\ r.life = p.life /\ r.initialized = p.initialized /\ r.scheduled = p.scheduled
      /\ r.ready = p.ready /\ r.running = p.running /\ r.requeue = p.requeue
      /\ r.extCommand = p.extCommand /\ r.terminate
  BY <1>1 DEF ActivityState
<1> HIDE DEF r
<1>4. Present(r, a) /\ Fate(r, a) /\ (r.requeue => r.scheduled)
  <2>1. Present(r, a)
    BY <1>3 DEF Present, p
  <2> QED
    BY <1>1, <1>3, <2>1, PresentFate DEF SlotFlags
<1>5. t \in Lined /\ t.act[a] = r
  BY <1>2, <1>3, <1>4, SetActLined DEF p
<1> HIDE DEF t
<1>6. command \in ActivityCommand /\ FALSE \in BOOLEAN
  BY DEF ActivityCommand
<1>7. end \in PersistCommand /\ end.finish = "end"
  BY DEF PersistCommand
<1> HIDE DEF end
<1>8. CASE ~AlreadyEnded(p, FALSE)
  <2>1. r.extCommand \notin FinalCommand
    BY <1>3, <1>8 DEF AlreadyEnded
  <2>2. /\ u \in Lined /\ u.act[a].life \in {"live", "released"}
        /\ u.act[a].life = "live" \/ u.act[a].extCommand = command
    BY <1>4, <1>5, <1>6, <2>1, SendCommandLined
  <2> HIDE DEF u
  <2>3. EnsureCompletion(u, a, end) \in Lined
    BY <1>7, <2>2, EnsureCompletionLined
  <2> QED
    BY <1>8, <2>3 DEF EndCall, p, r, t, u, end
<1>9. CASE AlreadyEnded(p, FALSE)
  BY <1>5, <1>9 DEF EndCall, p, r, t
<1> QED
  BY <1>8, <1>9

\* A callback set on an Activity that was released would let it start over.
LEMMA UpdateActivityLined ==
  ASSUME NEW a \in Activities, NEW s \in Lined, Present(s.act[a], a),
         NEW update \in UpdateName \ {"callback"}
  PROVE  LET t == UpdateActivity(s, a, update)
         IN t \in Lined /\ Present(t.act[a], a)
<1> DEFINE r == s.act[a]
           t == UpdateActivity(s, a, update)
<1>1. r \in ActivityState
  BY LinedParts
<1>2. ASSUME NEW q \in ActivityState, SameSlots(r, q)
      PROVE  SetAct(s, a, q) \in Lined /\ Present(SetAct(s, a, q).act[a], a)
  BY <1>2, AlikeLined
<1>3. CASE update = "nothing"
  BY <1>3 DEF UpdateActivity
<1>4. ASSUME NEW v \in {"none", "idle"}
      PROVE  LET q == [r EXCEPT !.trigger = v]
             IN SetAct(s, a, q) \in Lined /\ Present(SetAct(s, a, q).act[a], a)
  <2> DEFINE q == [r EXCEPT !.trigger = v]
  <2>1. q \in ActivityState
    BY <1>1, TriggerType
  <2>2. SameSlots(r, q)
    BY <1>1 DEF SameSlots, ActivityState
  <2> HIDE DEF q
  <2>3. SetAct(s, a, q) \in Lined /\ Present(SetAct(s, a, q).act[a], a)
    BY <1>2, <2>1, <2>2
  <2> QED
    BY <2>3 DEF q
<1>5. ASSUME NEW v \in {"none", "idle"}
      PROVE  LET q == [r EXCEPT !.schedule = v]
             IN SetAct(s, a, q) \in Lined /\ Present(SetAct(s, a, q).act[a], a)
  <2> DEFINE q == [r EXCEPT !.schedule = v]
  <2>1. q \in ActivityState
    BY <1>1, ScheduleType
  <2>2. SameSlots(r, q)
    BY <1>1 DEF SameSlots, ActivityState
  <2> HIDE DEF q
  <2>3. SetAct(s, a, q) \in Lined /\ Present(SetAct(s, a, q).act[a], a)
    BY <1>2, <2>1, <2>2
  <2> QED
    BY <2>3 DEF q
<1>6. ASSUME NEW v \in {"none", "unmet"}
      PROVE  LET q == [r EXCEPT !.requirement = v]
             IN SetAct(s, a, q) \in Lined /\ Present(SetAct(s, a, q).act[a], a)
  <2> DEFINE q == [r EXCEPT !.requirement = v]
  <2>1. q \in ActivityState
    BY <1>1, RequirementType
  <2>2. SameSlots(r, q)
    BY <1>1 DEF SameSlots, ActivityState
  <2> HIDE DEF q
  <2>3. SetAct(s, a, q) \in Lined /\ Present(SetAct(s, a, q).act[a], a)
    BY <1>2, <2>1, <2>2
  <2> QED
    BY <2>3 DEF q
<1>7. CASE update \in {"trigger", "noTrigger"}
  BY <1>4, <1>7 DEF UpdateActivity
<1>8. CASE update \in {"schedule", "noSchedule"}
  BY <1>5, <1>8 DEF UpdateActivity
<1>9. CASE update = "requirement"
  <2> DEFINE u == SetAct(s, a, [r EXCEPT !.requirement = "unmet"])
  <2>1. u \in Lined /\ Present(u.act[a], a)
    BY <1>6
  <2>2. t = WithdrawIfReady(u, a)
    BY <1>9 DEF UpdateActivity
  <2> HIDE DEF t, u
  <2>3. t \in Lined /\ Present(t.act[a], a)
    BY <2>1, <2>2, WithdrawIfReadyLined, SteadyOutcome
  <2> QED
    BY <2>3 DEF t
<1>10. CASE update = "noRequirement"
  <2> DEFINE u == SetAct(s, a, [r EXCEPT !.requirement = "none"])
  <2>1. u \in Lined /\ Present(u.act[a], a)
    BY <1>6
  <2>2. t = RunIfRunnable(u, a)
    BY <1>10 DEF UpdateActivity
  <2> HIDE DEF t, u
  <2>3. t \in Lined /\ Present(t.act[a], a)
    BY <2>1, <2>2, RunIfRunnableLined, SteadyOutcome
  <2> QED
    BY <2>3 DEF t
<1>11. update \in {"nothing", "trigger", "noTrigger", "schedule", "noSchedule",
                   "requirement", "noRequirement"}
  BY DEF UpdateName
<1> QED
  BY <1>3, <1>7, <1>8, <1>9, <1>10, <1>11

-----------------------------------------------------------------------------
(* Developer methods.                                                      *)

\* Nor does a slot become idle if more run and fewer wait.
LEMMA FullGrown ==
  ASSUME NEW s \in ManagerState, NEW t \in ManagerState, Full(s), t.level = s.level,
         GetRunningBackgroundActivitiesCount(t) >= GetRunningBackgroundActivitiesCount(s),
         Len(t.queue["ready"]) <= Len(s.queue["ready"]),
         Len(t.queue["readyInteractive"]) <= Len(s.queue["readyInteractive"])
  PROVE  Full(t)
<1>1. /\ Len(t.queue["ready"]) \in Nat /\ Len(s.queue["ready"]) \in Nat
      /\ Len(t.queue["readyInteractive"]) \in Nat /\ Len(s.queue["readyInteractive"]) \in Nat
      /\ GetRunningBackgroundActivitiesCount(s) \in Nat
      /\ GetRunningBackgroundActivitiesCount(t) \in Nat
      /\ s.level \in Nat /\ InteractiveLevel \in Nat
  BY BusySum, QueueNames, LevelsAssumption
<1> QED
  BY <1>1 DEF Full

LEMMA SetConcurrencyLined ==
  ASSUME NEW s \in Lined, NEW n \in Levels
  PROVE  SetBackgroundConcurrencyLevel(s, n) \in Lined
<1> DEFINE t == [s EXCEPT !.level = n]
<1>1. s \in ManagerState /\ Hooked(s) /\ \A x \in Activities : InPlace(s, x)
  BY DEF Lined
<1>2. t \in ManagerState /\ t.act = s.act /\ t.queue = s.queue
  BY <1>1 DEF ManagerState
<1> HIDE DEF t
<1>3. Hooked(t) /\ \A x \in Activities : InPlace(t, x)
  BY <1>1, <1>2 DEF Hooked, InPlace, AtHome, On
<1>4. CheckReadyQueue(t) \in Lined
  BY <1>2, <1>3, CheckReadyQueueLined
<1> QED
  BY <1>4 DEF SetBackgroundConcurrencyLevel, t

LEMMA EvictLined ==
  ASSUME NEW s \in Lined, NEW a \in Activities, On(s, a, "background")
  PROVE  EvictBackgroundActivity(s, a) \in Lined
<1> DEFINE m == MoveTo(s, a, "longBackground")
           r == s.act[a]
<1>1. s \in ManagerState /\ Hooked(s) /\ s \in Adrift(a) /\ InPlace(s, a)
  BY LinedParts
<1>2. m \in ManagerState /\ m.act = s.act
  BY <1>1, MoveToPlaces, QueueNames
<1> HIDE DEF m
<1>3. "background" \in Berths(r, a)
  BY <1>1, QueueNames DEF InPlace, AtHome
<1>4. "longBackground" \in Berths(r, a)
  BY <1>3 DEF Berths, HomeOf
<1>5. SlotFlags(r, a) /\ Fate(r, a)
  BY <1>1 DEF InPlace
<1>6. Hooked(m) /\ \A x \in Activities : InPlace(m, x)
  BY <1>1, <1>2, <1>4, <1>5, SettleSound, QueueNames DEF m
<1>7. CheckReadyQueue(m) \in Lined
  BY <1>2, <1>6, CheckReadyQueueLined
<1> QED
  BY <1>7 DEF EvictBackgroundActivity, m

LEMMA EvictAllLined ==
  ASSUME NEW s \in Lined
  PROVE  EvictAllBackgroundActivities(s) \in Lined
<1> DEFINE base == s.queue["longBackground"]
           moved == s.queue["background"]
           long == base \o moved
           t == [s EXCEPT !.queue["longBackground"] = long, !.queue["background"] = << >>]
<1>1. s \in ManagerState /\ Hooked(s) /\ \A x \in Activities : InPlace(s, x)
  BY DEF Lined
<1>2. base \in Seq(Activities) /\ moved \in Seq(Activities)
  BY <1>1, QueueType, QueueNames
<1>3. Once(base) /\ Once(moved) /\ \A x \in Activities : ~(Contains(base, x) /\ Contains(moved, x))
  BY <1>1, QueueNames DEF Hooked, On
<1>4. \A x : Contains(base, x) \/ Contains(moved, x) => x \in Activities
  BY <1>2, ElementOfSeq DEF Contains
<1> HIDE DEF base, moved
<1>5. /\ long \in Seq(Activities) /\ << >> \in Seq(Activities)
      /\ \A x : Contains(long, x) <=> Contains(base, x) \/ Contains(moved, x)
      /\ Once(long)
  <2>1. /\ \A x : Contains(long, x) <=> Contains(base, x) \/ Contains(moved, x)
        /\ Once(base) /\ Once(moved) /\ (\A x : ~(Contains(base, x) /\ Contains(moved, x)))
             => Once(long)
    BY <1>2, ConcatOnce
  <2>2. \A x : ~(Contains(base, x) /\ Contains(moved, x))
    BY <1>3, <1>4
  <2> QED
    BY <1>2, <1>3, <2>1, <2>2, ConcatProperties, EmptySeq
<1> HIDE DEF long
<1>6. /\ t \in ManagerState /\ t.act = s.act
      /\ t.queue["longBackground"] = long /\ t.queue["background"] = << >>
      /\ \A q \in QueueName \ {"longBackground", "background"} : t.queue[q] = s.queue[q]
  BY <1>1, <1>5, QueueNames DEF ManagerState
<1> HIDE DEF t
<1>7. \A x : ~Contains(<< >>, x)
  BY DEF Contains
<1>8. \A x \in Activities, q \in QueueName :
        On(t, x, q) <=> /\ q # "background"
                        /\ On(s, x, q) \/ (q = "longBackground" /\ On(s, x, "background"))
  <2> SUFFICES ASSUME NEW x \in Activities, NEW q \in QueueName
               PROVE  On(t, x, q) <=>
                        /\ q # "background"
                        /\ On(s, x, q) \/ (q = "longBackground" /\ On(s, x, "background"))
    OBVIOUS
  <2>1. CASE q = "background"
    BY <1>6, <1>7, <2>1 DEF On
  <2>2. CASE q = "longBackground"
    BY <1>5, <1>6, <2>2 DEF On, base, moved
  <2>3. CASE q \notin {"background", "longBackground"}
    BY <1>6, <2>3 DEF On
  <2> QED
    BY <2>1, <2>2, <2>3
<1>9. Hooked(t)
  <2>1. \A q \in QueueName : Once(t.queue[q])
    <3>1. Once(<< >>)
      BY DEF Once
    <3> QED
      BY <1>1, <1>5, <1>6, <3>1 DEF Hooked
  <2>2. ASSUME NEW x \in Activities, NEW p \in QueueName, NEW q \in QueueName,
               On(t, x, p), On(t, x, q)
        PROVE  p = q
    BY <1>1, <1>8, <2>2, QueueNames DEF Hooked
  <2> QED
    BY <2>1, <2>2 DEF Hooked
<1>10. ASSUME NEW x \in Activities
       PROVE  InPlace(t, x)
  <2>1. InPlace(s, x) /\ t.act[x] = s.act[x]
    BY <1>1, <1>6
  <2>2. "background" \in Berths(s.act[x], x) => "longBackground" \in Berths(s.act[x], x)
    BY DEF Berths, HomeOf
  <2>3. AtHome(t, x)
    BY <1>8, <2>1, <2>2, QueueNames DEF InPlace, AtHome
  <2> QED
    BY <2>1, <2>3 DEF InPlace
<1>11. CheckReadyQueue(t) \in Lined
  BY <1>6, <1>9, <1>10, CheckReadyQueueLined
<1> QED
  BY <1>11 DEF EvictAllBackgroundActivities, t, long, base, moved

\* One leaves a ready queue for a slot, whatever the limits say.
LEMMA LeaveLineLined ==
  ASSUME NEW s \in Lined, NEW a \in Activities, NEW from, NEW to,
         \/ from = "ready" /\ to = "background"
         \/ from = "readyInteractive" /\ to = "backgroundInteractive",
         On(s, a, from)
  PROVE  SetAct(MoveTo(s, a, to), a, RunActivity(s.act[a])) \in Lined
<1> DEFINE r == RunActivity(s.act[a])
           m == MoveTo(s, a, to)
           t == SetAct(m, a, r)
<1>1. /\ s \in ManagerState /\ Hooked(s) /\ Full(s) /\ s \in Adrift(a)
      /\ s.act[a] \in ActivityState /\ \A x \in Activities : InPlace(s, x)
  BY LinedParts DEF Lined
<1>2. from \in QueueName /\ to \in QueueName /\ from # to
  BY QueueNames
<1>3. /\ m \in ManagerState /\ Hooked(m)
      /\ \A x \in Activities, q \in QueueName :
           On(m, x, q) <=> IF x = a THEN q = to ELSE On(s, x, q)
      /\ \A q \in QueueName \ {to} :
           /\ Len(m.queue[q]) <= Len(s.queue[q])
           /\ ~On(s, a, q) => m.queue[q] = s.queue[q]
      /\ ~On(s, a, to) => Len(m.queue[to]) = Len(s.queue[to]) + 1
      /\ m.act = s.act /\ m.level = s.level
  BY <1>1, <1>2, MoveToPlaces
<1> HIDE DEF m
<1>4. r \in ActivityState
  BY <1>1, RunActivityType
<1>5. /\ t \in ManagerState /\ t.act[a] = r /\ t.queue = m.queue /\ t.level = m.level
      /\ \A x \in Activities \ {a} : t.act[x] = m.act[x]
  <2> HIDE DEF r
  <2>1. t \in ManagerState
    BY <1>3, <1>4, SetActType
  <2>2. t.act[a] = r /\ \A x \in Activities \ {a} : t.act[x] = m.act[x]
    BY <1>3 DEF SetAct, ManagerState
  <2>3. t.queue = m.queue /\ t.level = m.level
    BY <1>3 DEF SetAct, ManagerState
  <2> QED
    BY <2>1, <2>2, <2>3
<1> HIDE DEF t
<1>6. \A x, q : On(t, x, q) <=> On(m, x, q)
  BY <1>5 DEF On
<1>7. Hooked(t)
  BY <1>3, <1>5, <1>6 DEF Hooked
<1>8. Admitted(s, t, a, from, to)
  BY <1>3, <1>5, <1>6 DEF Admitted
<1>9. \A x \in Activities \ {a} : Stayed(s, t, x)
  BY <1>3, <1>5, <1>6 DEF Stayed
<1>10. \A x \in Activities : InPlace(t, x)
  BY <1>1, <1>8, <1>9, AdmittedSound, StayedSound
<1>11. GetRunningBackgroundActivitiesCount(t) >= GetRunningBackgroundActivitiesCount(s)
  <2>1. \A q \in QueueName : ~On(s, a, q) \/ q = from
    BY <1>1, <1>2 DEF Hooked
  <2>2. \A q \in {"background", "backgroundInteractive"} : Len(t.queue[q]) >= Len(s.queue[q])
    <3>1. \A q \in {"background", "backgroundInteractive"} : ~On(s, a, q)
      BY <2>1, QueueNames
    <3>2. \A q \in {"background", "backgroundInteractive"} : Len(s.queue[q]) \in Nat
      BY <1>1, BusySum, QueueNames
    <3> QED
      BY <1>3, <1>5, <3>1, <3>2, QueueNames
  <2>3. \A q \in {"background", "backgroundInteractive"} :
          Len(s.queue[q]) \in Nat /\ Len(t.queue[q]) \in Nat
    BY <1>1, <1>5, BusySum, QueueNames
  <2>4. /\ GetRunningBackgroundActivitiesCount(s)
             = Len(s.queue["background"]) + Len(s.queue["backgroundInteractive"])
        /\ GetRunningBackgroundActivitiesCount(t)
             = Len(t.queue["background"]) + Len(t.queue["backgroundInteractive"])
    BY DEF GetRunningBackgroundActivitiesCount
  <2>5. \A i, j, k, l \in Nat : i <= k /\ j <= l => k + l >= i + j
    OBVIOUS
  <2> QED
    BY <2>2, <2>3, <2>4, <2>5
<1>12. Full(t)
  <2>1. /\ Len(t.queue["ready"]) <= Len(s.queue["ready"])
        /\ Len(t.queue["readyInteractive"]) <= Len(s.queue["readyInteractive"])
    BY <1>3, <1>5, QueueNames
  <2> QED
    BY <1>1, <1>3, <1>5, <1>11, <2>1, FullGrown
<1> QED
  BY <1>5, <1>7, <1>10, <1>12 DEF Lined, t, m

LEMMA RunLined ==
  ASSUME NEW s \in Lined, NEW a \in Activities,
         On(s, a, "ready") \/ On(s, a, "readyInteractive")
  PROVE  RunReadyBackgroundActivity(s, a) \in Lined
BY LeaveLineLined DEF RunReadyBackgroundActivity, On, Contains

LEMMA RunAllLined ==
  ASSUME NEW s \in Lined
  PROVE  RunAllReadyActivities(s) \in Lined
<1> DEFINE n == Len(s.queue["readyInteractive"])
           t == RunFirst(s, n, "readyInteractive", "backgroundInteractive")
           m == Len(t.queue["ready"])
           u == RunFirst(t, m, "ready", "background")
<1>1. s \in ManagerState /\ Hooked(s) /\ \A x \in Activities : InPlace(s, x)
  BY DEF Lined
<1>2. n \in Nat /\ n \in 0..n /\ n - n = 0
  BY <1>1, BusySum, QueueNames
<1>3. /\ t \in ManagerState /\ Hooked(t)
      /\ \A x \in Activities :
           Stayed(s, t, x) \/ Admitted(s, t, x, "readyInteractive", "backgroundInteractive")
      /\ Len(t.queue["readyInteractive"]) = 0
  BY <1>1, <1>2, AdmitInteractive
<1> HIDE DEF t, n
<1>4. \A x \in Activities : InPlace(t, x)
  BY <1>1, <1>3, StayedSound, AdmittedSound
<1>5. m \in Nat /\ m \in 0..m /\ m - m = 0
  BY <1>3, BusySum, QueueNames
<1>6. /\ u \in ManagerState /\ Hooked(u)
      /\ \A x \in Activities : Stayed(t, u, x) \/ Admitted(t, u, x, "ready", "background")
      /\ Len(u.queue["ready"]) = 0
      /\ u.queue["readyInteractive"] = t.queue["readyInteractive"]
  BY <1>3, <1>5, AdmitReady
<1> HIDE DEF u, m
<1>7. \A x \in Activities : InPlace(u, x)
  BY <1>3, <1>4, <1>6, StayedSound, AdmittedSound
<1>8. Full(u)
  BY <1>3, <1>6 DEF Full
<1> QED
  BY <1>6, <1>7, <1>8 DEF Lined, RunAllReadyActivities, u, m, t, n

-----------------------------------------------------------------------------
(* The end of a handler.                                                   *)

\* An object that nothing refers to any more is on no queue that runs.
LEMMA ReapLined ==
  ASSUME NEW s \in Lined, NEW a \in Activities
  PROVE  Reap(s, a) \in Lined
<1> DEFINE t == Unlink(s, a)
<1>1. /\ s \in ManagerState /\ Hooked(s) /\ Full(s) /\ InPlace(s, a)
      /\ \A x \in Activities : InPlace(s, x)
      /\ s.act[a].life # "live" => OffSlots(s, a)
  BY LinedParts DEF Lined
<1>2. ASSUME ~Exists(s.act[a])
      PROVE  t \in Lined
  <2>1. s.act[a].life # "live"
    BY <1>2 DEF Exists
  <2>2. /\ t \in ManagerState /\ Hooked(t)
        /\ \A x \in Activities, q \in QueueName : On(t, x, q) <=> On(s, x, q) /\ x # a
        /\ \A q \in QueueName :
             /\ Len(t.queue[q]) <= Len(s.queue[q])
             /\ ~On(s, a, q) => t.queue[q] = s.queue[q]
        /\ t.act = s.act /\ t.level = s.level
    BY <1>1, UnlinkPlaces
  <2> HIDE DEF t
  <2>3. ASSUME NEW x \in Activities \ {a}
        PROVE  InPlace(t, x)
    <3>1. Stayed(s, t, x)
      BY <2>2 DEF Stayed
    <3> QED
      BY <1>1, <3>1, StayedSound
  <2>4. InPlace(t, a)
    BY <1>1, <2>1, <2>2 DEF InPlace, AtHome
  <2>5. Full(t)
    BY <1>1, <2>1, <2>2, FullKept, QueueNames DEF OffSlots
  <2> QED
    BY <2>2, <2>3, <2>4, <2>5 DEF Lined
<1> QED
  BY <1>2 DEF Reap

LEMMA BecomeLined ==
  ASSUME NEW s \in Lined, Become(s)
  PROVE  Now' \in Lined
<1>1. s \in ManagerState
  BY DEF Lined
<1>2. Now' = s
  BY <1>1 DEF Now, Become, ManagerState
<1> QED
  BY <1>2

LEMMA HandleLined ==
  ASSUME NEW s \in Lined, NEW a \in Activities, Handle(s, a)
  PROVE  Now' \in Lined
BY ReapLined, BecomeLined DEF Handle

-----------------------------------------------------------------------------
(* The actions.                                                            *)

LEMMA SameLined ==
  ASSUME NEW s \in Lined, NEW t \in ManagerState,
         t.act = s.act, t.queue = s.queue, t.level = s.level
  PROVE  t \in Lined
BY DEF Lined, Hooked, Full, GetRunningBackgroundActivitiesCount, InPlace, AtHome, On

LEMMA NowLined ==
  ASSUME Now \in Lined, NEW a \in Activities
  PROVE  /\ Now.act[a] = act[a] /\ act[a] \in ActivityState
         /\ Exists(act[a]) => Present(act[a], a)
         /\ CanLookup(act[a]) => Present(act[a], a)
<1>1. Now.act[a] = act[a]
  BY DEF Now
<1>2. act[a] \in ActivityState /\ Fate(act[a], a)
  BY <1>1, LinedParts
<1>3. CanLookup(act[a]) => Exists(act[a])
  BY DEF CanLookup, Exists
<1>4. Exists(act[a]) => Present(act[a], a)
  BY <1>2 DEF Exists, Fate, Present
<1> QED
  BY <1>1, <1>2, <1>3, <1>4

\* An Activity that did not exist yet is on no queue, and stays off them.
LEMMA CreateLined ==
  ASSUME Now \in Lined, NEW a \in Activities,
         NEW b \in Subscribers \cup {None}, NEW start \in BOOLEAN,
         NEW requirement \in {"none", "met", "unmet"},
         CreateActivity(a, b, start, requirement)
  PROVE  Now' \in Lined
<1> DEFINE o == act[a]
           p == [o EXCEPT !.life = "live", !.named = TRUE]
           r == [p EXCEPT !.requirement = requirement]
           create == [finish |-> "create", sub |-> b, start |-> start]
           s == SetAct(Now, a, r)
           t == EnsureCompletion(s, a, create)
<1>1. /\ Now \in Adrift(a) /\ Full(Now) /\ Now.act[a] = o /\ InPlace(Now, a)
      /\ SlotFlags(o, a)
  BY NowLined, LinedParts
<1>2. o.life = "new" /\ Handle(t, a)
  BY DEF CreateActivity
<1>3. o \in ActivityState
  BY NowLined
<1> HIDE DEF o
<1>4. p \in ActivityState
  BY <1>3 DEF ActivityState
<1>5. r \in ActivityState
  BY <1>4, RequirementType
<1>6. /\ r.life = "live" /\ r.initialized = o.initialized /\ r.scheduled = o.scheduled
      /\ r.ready = o.ready /\ r.running = o.running /\ r.requeue = o.requeue
  BY <1>3 DEF ActivityState
<1> HIDE DEF r, p
<1>7. SlotFlags(r, a) /\ Fate(r, a) /\ Berths(r, a) = {} /\ HomeOf(r, a) = {}
  BY <1>1, <1>2, <1>6 DEF SlotFlags, Fate, Berths, HomeOf
<1>8. \A q \in QueueName : ~On(Now, a, q)
  BY <1>1, <1>2 DEF InPlace, AtHome, Berths, Present
<1>9. /\ s \in Adrift(a) /\ s.act[a] = r /\ Full(s)
      /\ \A x, q : On(s, x, q) <=> On(Now, x, q)
  BY <1>1, <1>5, SetActAdrift
<1> HIDE DEF s
<1>10. InPlace(s, a)
  BY <1>7, <1>8, <1>9 DEF InPlace, AtHome
<1>11. s \in Lined
  BY <1>9, <1>10, AdriftLined
<1>12. create \in PersistCommand
  BY DEF PersistCommand
<1> HIDE DEF create
<1>13. t \in Lined
  BY <1>6, <1>9, <1>11, <1>12, EnsureCompletionLined
<1> QED
  BY <1>2, <1>13, HandleLined

LEMMA CompleteAndRestartLined ==
  ASSUME Now \in Lined, NEW a \in Activities, NEW update \in UpdateName \ {"callback"},
         CompleteAndRestart(a, update)
  PROVE  Now' \in Lined
<1> DEFINE s == UpdateActivity(Now, a, update)
           q == [s.act[a] EXCEPT !.restart = TRUE]
           t == SetAct(s, a, q)
           u == SendCommand(t, a, "complete", FALSE)
           restart == [finish |-> "restart", sub |-> None, start |-> FALSE]
           v == EnsureCompletion(u, a, restart)
<1>1. Present(Now.act[a], a)
  BY NowLined DEF CompleteAndRestart
<1>2. s \in Lined /\ Present(s.act[a], a)
  BY <1>1, UpdateActivityLined
<1>3. Handle(IF AlreadyEnded(t.act[a], FALSE) THEN t ELSE v, a)
  BY DEF CompleteAndRestart
<1> HIDE DEF s
<1>4. q \in ActivityState /\ SameSlots(s.act[a], q)
  <2>1. s.act[a] \in ActivityState
    BY <1>2, LinedParts
  <2>2. q \in ActivityState
    BY <2>1, FlagType
  <2>3. SameSlots(s.act[a], q)
    BY <2>1 DEF SameSlots, ActivityState
  <2> QED
    BY <2>2, <2>3
<1> HIDE DEF q
<1>5. t \in Lined /\ Present(t.act[a], a)
  BY <1>2, <1>4, AlikeLined
<1> HIDE DEF t
<1>6. "complete" \in ActivityCommand /\ "complete" \in FinalCommand /\ FALSE \in BOOLEAN
  BY DEF ActivityCommand, FinalCommand
<1>7. /\ u \in Lined /\ u.act[a].life \in {"live", "released"}
      /\ ~AlreadyEnded(t.act[a], FALSE) =>
           u.act[a].life = "live" \/ u.act[a].extCommand = "complete"
  BY <1>5, <1>6, SendCommandLined DEF AlreadyEnded
<1> HIDE DEF u
<1>8. restart \in PersistCommand /\ restart.finish # "create"
  BY DEF PersistCommand
<1> HIDE DEF restart
<1>9. ~AlreadyEnded(t.act[a], FALSE) => v \in Lined
  BY <1>6, <1>7, <1>8, EnsureCompletionLined
<1> HIDE DEF v
<1> QED
  BY <1>3, <1>5, <1>9, HandleLined

\* The calls of the theorems. A callback that fails in transit breaks the property:
\* it requeues an Activity that may still wait for the Manager to be enabled. A
\* refused complete, or a callback set on an Activity that was released, only breaks
\* the invariant: the Activity could start over, which Fate denies.
PlainCalls == {"callbackFails", "refused"} \cap Calls = {} /\ "callback" \notin Updates

LEMMA ClientLined ==
  ASSUME Now \in Lined, PlainCalls, Client
  PROVE  Now' \in Lined
<1>1. /\ {"start", "pause"} \subseteq ActivityCommand
      /\ "stop" \in FinalCommand /\ "cancel" \in FinalCommand /\ "complete" \in FinalCommand
      /\ FALSE \in BOOLEAN
  BY DEF ActivityCommand, FinalCommand
<1>2. PICK a \in Activities :
        \/ \E b \in Subscribers \cup {None}, start \in BOOLEAN,
              requirement \in {"none", "met", "unmet"} :
             CreateActivity(a, b, start, requirement)
        \/ \E b \in Subscribers : JoinActivity(a, b)
        \/ \E b \in Subscribers : AdoptActivity(a, b)
        \/ ReleaseCall(a)
        \/ StartActivity(a)
        \/ PauseActivity(a)
        \/ StopActivity(a)
        \/ CancelActivity(a)
        \/ CompleteActivity(a)
        \/ \E update \in Updates : CompleteAndRestart(a, update)
        \/ \E b \in Subscribers : LeaveWhenTold(a, b)
        \/ \E b \in Subscribers : LeaveUntold(a, b)
  BY DEF Client, ClientCall, RefusedComplete, RefusedCompleteAndRestart, PlainCalls
<1>3. /\ Now.act[a] = act[a] /\ act[a] \in ActivityState
      /\ Exists(act[a]) => Present(act[a], a)
      /\ CanLookup(act[a]) => Present(act[a], a)
  BY NowLined
<1>4. CASE \E b \in Subscribers \cup {None}, start \in BOOLEAN,
              requirement \in {"none", "met", "unmet"} :
             CreateActivity(a, b, start, requirement)
  BY <1>4, CreateLined
<1>5. ASSUME NEW b \in Subscribers, JoinActivity(a, b) \/ AdoptActivity(a, b)
      PROVE  Now' \in Lined
  <2> DEFINE r == AddSubscription(act[a], b)
             s == SetAct(Now, a, r)
  <2>1. Present(act[a], a)
    BY <1>3, <1>5 DEF JoinActivity, AdoptActivity
  <2>2. Handle(s, a) \/ Handle(Adopt(s, a, b), a)
    BY <1>5 DEF JoinActivity, AdoptActivity
  <2>3. r \in ActivityState
    BY <1>3, AddSubscriptionType
  <2>4. SameSlots(act[a], r)
    BY <1>3 DEF AddSubscription, SameSlots, ActivityState
  <2> HIDE DEF r
  <2>5. s \in Lined /\ Present(s.act[a], a)
    BY <1>3, <2>1, <2>3, <2>4, AlikeLined
  <2> HIDE DEF s
  <2> QED
    BY <2>2, <2>5, AdoptLined, HandleLined
<1>6. CASE ReleaseCall(a)
  BY <1>3, <1>6, ReleaseLined, HandleLined DEF ReleaseCall
<1>7. CASE StartActivity(a) \/ PauseActivity(a)
  <2>1. PICK command \in {"start", "pause"} :
          CanLookup(act[a]) /\ Handle(SendCommand(Now, a, command, FALSE), a)
    BY <1>7 DEF StartActivity, PauseActivity
  <2>2. SendCommand(Now, a, command, FALSE) \in Lined
    BY <1>1, <1>3, <2>1, SendCommandLined
  <2> QED
    BY <2>1, <2>2, HandleLined
<1>8. CASE StopActivity(a) \/ CancelActivity(a) \/ CompleteActivity(a)
  <2>1. PICK command \in FinalCommand :
          CanLookup(act[a]) /\ Handle(EndCall(Now, a, command), a)
    BY <1>1, <1>8 DEF StopActivity, CancelActivity, CompleteActivity
  <2> QED
    BY <1>3, <2>1, EndCallLined, HandleLined
<1>9. ASSUME NEW update \in Updates, CompleteAndRestart(a, update)
      PROVE  Now' \in Lined
  <2>1. update \in UpdateName \ {"callback"}
    BY EnvironmentAssumption DEF PlainCalls
  <2> QED
    BY <1>9, <2>1, CompleteAndRestartLined
<1>10. ASSUME NEW b \in Subscribers, LeaveWhenTold(a, b) \/ LeaveUntold(a, b)
       PROVE  Now' \in Lined
  BY <1>3, <1>10, RemoveSubscriptionLined, HandleLined DEF LeaveWhenTold, LeaveUntold, Leave
<1> QED
  BY <1>2, <1>4, <1>5, <1>6, <1>7, <1>8, <1>9, <1>10

LEMMA ReplyLined ==
  ASSUME Now \in Lined, PlainCalls, Reply
  PROVE  Now' \in Lined
<1>1. PICK a \in Activities :
        \/ CallbackSucceeds(a)
        \/ TriggerFires(a)
        \/ ScheduleComesDue(a)
        \/ RequirementMet(a)
        \/ RequirementUnmet(a)
        \/ PowerLockedNotification(a)
        \/ PowerUnlockedNotification(a)
        \/ PersistCommandCompletes(a)
  BY DEF Reply, ReplyTo, CallbackFailsTransiently, CallbackFailsPermanently, PlainCalls
<1>2. Now.act[a] = act[a] /\ act[a] \in ActivityState
  BY NowLined
<1>3. Exists(act[a]) => Present(Now.act[a], a)
  BY NowLined
<1>4. ASSUME Exists(act[a]), NEW r \in ActivityState, SameSlots(act[a], r)
      PROVE  SetAct(Now, a, r) \in Lined /\ Present(SetAct(Now, a, r).act[a], a)
  BY <1>2, <1>3, <1>4, AlikeLined
<1>5. \A v : /\ v # "none" /\ act[a].callback # "none"
                  => SameSlots(act[a], [act[a] EXCEPT !.callback = v])
             /\ SameSlots(act[a], [act[a] EXCEPT !.trigger = v])
             /\ SameSlots(act[a], [act[a] EXCEPT !.schedule = v])
             /\ SameSlots(act[a], [act[a] EXCEPT !.requirement = v])
             /\ SameSlots(act[a], [act[a] EXCEPT !.power = v])
  BY <1>2 DEF SameSlots, ActivityState
<1>6. CASE CallbackSucceeds(a)
  <2> DEFINE r == [act[a] EXCEPT !.callback = "idle"]
  <2>1. Exists(act[a]) /\ act[a].callback # "none" /\ Handle(SetAct(Now, a, r), a)
    BY <1>6 DEF CallbackSucceeds
  <2>2. r \in ActivityState /\ SameSlots(act[a], r)
    BY <1>2, <1>5, <2>1, CallbackType
  <2> HIDE DEF r
  <2> QED
    BY <1>4, <2>1, <2>2, HandleLined
<1>7. CASE TriggerFires(a) \/ ScheduleComesDue(a) \/ RequirementMet(a)
  <2>1. /\ [act[a] EXCEPT !.trigger = "fired"] \in ActivityState
        /\ [act[a] EXCEPT !.schedule = "due"] \in ActivityState
        /\ [act[a] EXCEPT !.requirement = "met"] \in ActivityState
    BY <1>2, TriggerType, ScheduleType, RequirementType
  <2>2. PICK r \in ActivityState :
          SameSlots(act[a], r) /\ Exists(act[a]) /\ Handle(RunIfRunnable(SetAct(Now, a, r), a), a)
    BY <1>5, <1>7, <2>1 DEF TriggerFires, ScheduleComesDue, RequirementMet
  <2> QED
    BY <1>4, <2>2, RunIfRunnableLined, HandleLined
<1>8. CASE RequirementUnmet(a)
  <2> DEFINE r == [act[a] EXCEPT !.requirement = "unmet"]
  <2>1. Exists(act[a]) /\ Handle(WithdrawIfReady(SetAct(Now, a, r), a), a)
    BY <1>8 DEF RequirementUnmet
  <2>2. r \in ActivityState /\ SameSlots(act[a], r)
    BY <1>2, <1>5, RequirementType
  <2> HIDE DEF r
  <2> QED
    BY <1>4, <2>1, <2>2, WithdrawIfReadyLined, HandleLined
<1>9. CASE PowerLockedNotification(a)
  <2> DEFINE r == [act[a] EXCEPT !.power = "locked"]
             q == IF r.ending THEN r ELSE DoRunActivity(r)
  <2>1. Exists(act[a]) /\ Handle(SetAct(Now, a, q), a)
    BY <1>9 DEF PowerLockedNotification
  <2>2. r \in ActivityState /\ SameSlots(act[a], r)
    BY <1>2, <1>5, PowerType
  <2> HIDE DEF r
  <2>3. q \in ActivityState
    BY <2>2, DoRunActivityType
  <2>4. SameSlots(r, q)
    BY <2>2 DEF DoRunActivity, BroadcastCommand, SameSlots, ActivityState
  <2> HIDE DEF q
  <2>5. SameSlots(act[a], q)
    BY <2>2, <2>4 DEF SameSlots
  <2> QED
    BY <1>4, <2>1, <2>3, <2>5, HandleLined
<1>10. CASE PowerUnlockedNotification(a)
  <2> DEFINE r == [act[a] EXCEPT !.power = "unlocked"]
             s == SetAct(Now, a, r)
  <2>1. Exists(act[a]) /\ Handle(IF act[a].ending THEN EndActivity(s, a) ELSE s, a)
    BY <1>10 DEF PowerUnlockedNotification
  <2>2. r \in ActivityState /\ SameSlots(act[a], r)
    BY <1>2, <1>5, PowerType
  <2> HIDE DEF r
  <2>3. s \in Lined /\ Present(s.act[a], a)
    BY <1>4, <2>1, <2>2
  <2> HIDE DEF s
  <2>4. EndActivity(s, a) \in Lined
    BY <2>3, EndActivityLined
  <2> QED
    BY <2>1, <2>3, <2>4, HandleLined
<1>11. CASE PersistCommandCompletes(a)
  BY <1>2, <1>11, CompletePersistCommandLined, HandleLined DEF PersistCommandCompletes
<1> QED
  BY <1>1, <1>6, <1>7, <1>8, <1>9, <1>10, <1>11

LEMMA ManagerLined ==
  ASSUME Now \in Lined,
         \/ InteractiveYieldTimeout
         \/ \E bit \in EnableBits : Enable(bit)
         \/ \E bit \in EnableBits : Disable(bit)
         \/ Develop
         \/ ScheduleNextActivity
  PROVE  Now' \in Lined
<1>1. Now \in ManagerState /\ TypeOK
  BY DEF Lined, TypeOK
<1>2. ASSUME NEW s \in ManagerState, Become(s),
             s.act = Now.act, s.queue = Now.queue, s.level = Now.level
      PROVE  Now' \in Lined
  BY <1>2, SameLined, BecomeLined
<1>3. CASE InteractiveYieldTimeout
  <2> DEFINE first == CHOOSE i \in Candidates : \A j \in Candidates : i <= j
             victim == queue["backgroundInteractive"][first]
             s == YieldActivity(Now, victim)
             t == [s EXCEPT !.yieldTimer = TRUE]
             u == [Now EXCEPT !.yieldTimer = FALSE]
  <2>1. \/ Become(u)
        \/ Become(Now)
        \/ Candidates # {} /\ Handle(t, victim)
    BY <1>3 DEF InteractiveYieldTimeout, Victim
  <2>2. /\ u \in ManagerState /\ u.act = Now.act /\ u.queue = Now.queue
        /\ u.level = Now.level
    BY <1>1 DEF Now, ManagerState
  <2> HIDE DEF u
  <2>3. Candidates # {} =>
          victim \in Activities /\ On(Now, victim, "backgroundInteractive")
    BY <1>1, FirstCandidate DEF On, Contains, Now
  <2> HIDE DEF first, victim
  <2>4. CASE Candidates # {} /\ Handle(t, victim)
    <3>1. act[victim].life = "live" /\ act[victim].running
      <4>1. InPlace(Now, victim) /\ Now.act[victim] = act[victim]
        BY <2>3, <2>4, LinedParts, NowLined
      <4>2. "backgroundInteractive" \in Berths(act[victim], victim)
        BY <2>3, <2>4, <4>1, QueueNames DEF InPlace, AtHome
      <4> QED
        BY <4>2, BerthsOf
    <3>2. s \in Lined
      BY <2>3, <2>4, <3>1, NowLined, YieldActivityLined
    <3> HIDE DEF s
    <3>3. t \in ManagerState /\ t.act = s.act /\ t.queue = s.queue /\ t.level = s.level
      BY <3>2 DEF Lined, ManagerState
    <3>4. t \in Lined
      BY <3>2, <3>3, SameLined
    <3> QED
      BY <2>3, <2>4, <3>4, HandleLined
  <2> QED
    BY <1>1, <1>2, <2>1, <2>2, <2>4
<1>4. ASSUME NEW bit \in EnableBits, Enable(bit) \/ Disable(bit)
      PROVE  Now' \in Lined
  <2>1. PICK bits \in SUBSET EnableBits : Become([Now EXCEPT !.enabled = bits])
    <3>1. enabled \in SUBSET EnableBits
      BY <1>1 DEF Now, ManagerState
    <3>2. Now.enabled = enabled
      BY DEF Now
    <3> QED
      BY <1>4, <3>1, <3>2 DEF Enable, Disable
  <2> DEFINE s == [Now EXCEPT !.enabled = bits]
  <2>2. s \in ManagerState /\ s.act = Now.act /\ s.queue = Now.queue /\ s.level = Now.level
    BY <1>1 DEF Now, ManagerState
  <2> QED
    BY <1>2, <2>1, <2>2
<1>5. CASE Develop
  <2>1. ASSUME NEW n \in Levels, SetConcurrency(n)
        PROVE  Now' \in Lined
    BY <2>1, SetConcurrencyLined, BecomeLined DEF SetConcurrency
  <2>2. ASSUME NEW a \in Activities, Evict(a)
        PROVE  Now' \in Lined
    <3>1. On(Now, a, "background")
      BY <2>2 DEF Evict, On, Contains, Now
    <3> QED
      BY <2>2, <3>1, EvictLined, BecomeLined DEF Evict
  <2>3. CASE EvictAll
    BY <2>3, EvictAllLined, BecomeLined DEF EvictAll
  <2>4. ASSUME NEW a \in Activities, Run(a)
        PROVE  Now' \in Lined
    <3>1. On(Now, a, "ready") \/ On(Now, a, "readyInteractive")
      BY <2>4 DEF Run, On, Contains, Now
    <3> QED
      BY <2>4, <3>1, RunLined, BecomeLined DEF Run
  <2>5. CASE RunAll
    BY <2>5, RunAllLined, BecomeLined DEF RunAll
  <2> QED
    BY <1>5, <2>1, <2>2, <2>3, <2>4, <2>5 DEF Develop
<1>6. CASE ScheduleNextActivity
  <2> DEFINE a == Head(queue["initialized"])
             s == MoveTo(Now, a, "scheduled")
  <2>1. queue["initialized"] \in Seq(Activities) /\ queue["initialized"] # << >>
    BY <1>1, <1>6 DEF ScheduleNextActivity, Scheduling, Now, ManagerState, QueueName
  <2>2. a \in Activities /\ On(Now, a, "initialized")
    <3>1. 1 \in 1..Len(queue["initialized"]) /\ queue["initialized"][1] = a
      BY <2>1, HeadTailProperties, LenProperties, EmptySeq
    <3> QED
      BY <2>1, <3>1, ElementOfSeq DEF On, Contains, Now
  <2>3. Handle(ScheduleActivity(s, a), a)
    BY <1>6 DEF ScheduleNextActivity
  <2> HIDE DEF a
  <2>4. /\ Now \in Adrift(a) /\ Full(Now) /\ InPlace(Now, a) /\ SlotFlags(Now.act[a], a)
        /\ ~Now.act[a].running => OffSlots(Now, a)
    BY <2>2, LinedParts
  <2>5. "initialized" \in Berths(Now.act[a], a)
    BY <2>2, <2>4, QueueNames DEF InPlace, AtHome
  <2>6. /\ Present(Now.act[a], a) /\ Now.act[a].initialized
        /\ ~Now.act[a].ready /\ ~Now.act[a].running /\ ~Now.act[a].requeue
    BY <2>4, <2>5 DEF Berths, HomeOf, Present, SlotFlags
  <2>7. /\ s \in Adrift(a) /\ s.act = Now.act /\ Full(s)
        /\ \A q \in QueueName : On(s, a, q) <=> q = "scheduled"
    BY <2>2, <2>4, <2>6, MoveToAdrift
  <2> HIDE DEF s
  <2>8. ScheduleActivity(s, a) \in Lined
    BY <2>2, <2>6, <2>7, ScheduleActivityLined
  <2> QED
    BY <2>2, <2>3, <2>8, HandleLined
<1> QED
  BY <1>3, <1>4, <1>5, <1>6

LEMMA NextLined ==
  ASSUME Now \in Lined, PlainCalls, [Next]_vars
  PROVE  Now' \in Lined
<1>1. CASE Next
  BY <1>1, ClientLined, ReplyLined, ManagerLined DEF Next
<1>2. CASE UNCHANGED vars
  <2>1. Now' = Now
    BY <1>2 DEF vars, Now
  <2> QED
    BY <2>1
<1> QED
  BY <1>1, <1>2

\* Nothing is queued when the Manager starts, and nothing was created.
LEMMA InitLined ==
  ASSUME Init
  PROVE  Now \in Lined
<1>1. /\ Now.act = [a \in Activities |-> NewActivity(a)]
      /\ Now.queue = [q \in QueueName |-> << >>]
  BY DEF Init, Now
<1>2. Now \in ManagerState
  <2>1. act \in [Activities -> ActivityState]
    BY NewActivityType DEF Init
  <2>2. queue \in [QueueName -> Seq(Activities)]
    BY EmptySeq DEF Init
  <2>3. yieldTimer \in BOOLEAN /\ level \in Levels /\ enabled \in SUBSET EnableBits
    BY LevelsAssumption, EnvironmentAssumption DEF Init
  <2> QED
    BY <2>1, <2>2, <2>3 DEF Now, ManagerState
<1>3. Len(<< >>) = 0
  BY EmptySeq
<1>4. \A q \in QueueName : Len(Now.queue[q]) = 0
  BY <1>1, <1>3
<1>5. \A i : i \notin 1..0
  OBVIOUS
<1>6. \A q \in QueueName : Once(Now.queue[q])
  BY <1>4, <1>5 DEF Once
<1>7. \A q \in QueueName : \A x : ~On(Now, x, q)
  BY <1>4, <1>5 DEF On, Contains
<1>8. Hooked(Now)
  BY <1>6, <1>7 DEF Hooked
<1>9. Full(Now)
  <2>1. ~(Len(Now.queue["ready"]) > 0) /\ ~(Len(Now.queue["readyInteractive"]) > 0)
    BY <1>4 DEF QueueName
  <2> QED
    BY <2>1 DEF Full
<1>10. ASSUME NEW x \in Activities
       PROVE  InPlace(Now, x)
  <2>1. Now.act[x] = NewActivity(x)
    BY <1>1
  <2>2. SlotFlags(Now.act[x], x) /\ Fate(Now.act[x], x)
    BY <2>1 DEF NewActivity, SlotFlags, Fate, Exists
  <2>3. AtHome(Now, x)
    BY <2>1, <1>7 DEF NewActivity, AtHome
  <2> QED
    BY <2>2, <2>3 DEF InPlace
<1> QED
  BY <1>2, <1>8, <1>9, <1>10 DEF Lined

\* A live Activity in its place is there once, and nowhere else.
LEMMA LinedMatches ==
  ASSUME Now \in Lined
  PROVE  QueueMatchesFlags
<1> SUFFICES ASSUME NEW a \in Activities, Live(a)
             PROVE  IF Home(a) = {} THEN Places(a) = {}
                    ELSE \E q \in Home(a) : \E i \in 1..Len(queue[q]) : Places(a) = {<<q, i>>}
  BY DEF QueueMatchesFlags
<1>1. Now.act[a] = act[a] /\ Now.queue = queue /\ act[a].life = "live"
  BY DEF Now, Live
<1>2. AtHome(Now, a) /\ Hooked(Now)
  BY DEF Lined, InPlace
<1>3. Home(a) = HomeOf(act[a], a) /\ Berths(act[a], a) = Home(a)
  BY <1>1 DEF Home, HomeOf, Berths
<1>4. \A q \in QueueName : On(Now, a, q) => q \in Home(a)
  BY <1>1, <1>2, <1>3 DEF AtHome
<1>5. \A q \in QueueName : On(Now, a, q) <=> \E i \in 1..Len(queue[q]) : queue[q][i] = a
  BY <1>1 DEF On, Contains
<1>6. \A p : p \in Places(a) <=> \E q \in QueueName : \E i \in 1..Len(queue[q]) :
                                   queue[q][i] = a /\ p = <<q, i>>
  BY DEF Places
<1>7. CASE Home(a) = {}
  <2>1. \A p : p \notin Places(a)
    BY <1>4, <1>5, <1>6, <1>7
  <2> QED
    BY <1>7, <2>1
<1>8. CASE Home(a) # {}
  <2>1. PICK q \in QueueName : On(Now, a, q)
    BY <1>1, <1>2, <1>3, <1>8 DEF AtHome
  <2>2. PICK i \in 1..Len(queue[q]) : queue[q][i] = a
    BY <1>5, <2>1
  <2>3. \A p \in QueueName : On(Now, a, p) => p = q
    BY <1>2, <2>1 DEF Hooked
  <2>4. \A j \in 1..Len(queue[q]) : queue[q][j] = a => j = i
    BY <1>1, <1>2, <2>2 DEF Hooked, Once
  <2>5. \A p : p \in Places(a) <=> p = <<q, i>>
    BY <1>5, <1>6, <2>2, <2>3, <2>4
  <2>6. Places(a) = {<<q, i>>}
    BY <2>5
  <2> QED
    BY <1>4, <1>8, <2>1, <2>2, <2>6
<1> QED
  BY <1>7, <1>8

LEMMA LinedBusy ==
  ASSUME Now \in Lined
  PROVE  NoIdleSlot
<1>1. Now.queue = queue /\ Now.level = level /\ Now.queue \in [QueueName -> Seq(Activities)]
  BY DEF Lined, Now, ManagerState
<1>2. \A q \in QueueName : queue[q] # << >> => Len(queue[q]) > 0
  <2> SUFFICES ASSUME NEW q \in QueueName, queue[q] # << >>
               PROVE  Len(queue[q]) > 0
    OBVIOUS
  <2>1. queue[q] \in Seq(Activities)
    BY <1>1
  <2>2. Len(queue[q]) \in Nat /\ Len(queue[q]) # 0
    BY <2>1, EmptySeq, LenProperties
  <2> QED
    BY <2>2
<1>3. "ready" \in QueueName /\ "readyInteractive" \in QueueName
  BY DEF QueueName
<1>4. Full(Now)
  BY DEF Lined
<1> QED
  BY <1>1, <1>2, <1>3, <1>4 DEF Full, NoIdleSlot, Busy

-----------------------------------------------------------------------------
(* The theorems about flags and queues.                                    *)

\* The queue an Activity is on and its flags agree, whatever calls, replies and
\* developers' commands come: Activity.cpp changes the flags, the Inform calls of
\* ActivityManager.cpp the queues, and each handler brings both to rest.
THEOREM SlotsMatch ==
  ASSUME PlainCalls
  PROVE  Spec => []QueueMatchesFlags
<1>1. Init => Now \in Lined
  BY InitLined
<1>2. Now \in Lined /\ [Next]_vars => (Now \in Lined)'
  BY NextLined
<1>3. Now \in Lined => QueueMatchesFlags
  BY LinedMatches
<1> QED
  BY <1>1, <1>2, <1>3, PTL DEF Spec

\* No slot is idle while an Activity waits for one: every handler that frees a slot
\* or raises the limit goes through CheckReadyQueue before it returns.
THEOREM NoneIdle ==
  ASSUME PlainCalls
  PROVE  Spec => []NoIdleSlot
<1>1. Init => Now \in Lined
  BY InitLined
<1>2. Now \in Lined /\ [Next]_vars => (Now \in Lined)'
  BY NextLined
<1>3. Now \in Lined => NoIdleSlot
  BY LinedBusy
<1> QED
  BY <1>1, <1>2, <1>3, PTL DEF Spec

-----------------------------------------------------------------------------
(* Who runs, waits to and keeps power: what a handler of a does to the     *)
(* others.                                                                 *)

Tidy == {s \in ManagerState : Hooked(s)}

\* The queues x is on; there is one at most.
At(s, x) == {q \in QueueName : On(s, x, q)}

Passed(s, t, x) ==
  \/ Stayed(s, t, x)
  \/ Admitted(s, t, x, "readyInteractive", "backgroundInteractive")
  \/ Admitted(s, t, x, "ready", "background")

\* Who uses the slots besides a: in the background, and in all.
Beside(s, a) ==
  LET n == Len(s.queue["background"])
  IN IF On(s, a, "background") THEN n - 1 ELSE n

Others(s, a) ==
  LET n == GetRunningBackgroundActivitiesCount(s)
  IN IF On(s, a, "background") \/ On(s, a, "backgroundInteractive") THEN n - 1 ELSE n

\* Somebody newly runs in a class.
Joined(s, t, q) == \E x \in Activities : On(t, x, q) /\ ~On(s, x, q)

\* Those besides a are within the background limit, with a if it runs in the
\* background; and if an interactive one waits none can be let in that would
\* change this.
Snug(t, a) ==
  LET n == Others(t, a)
  IN \/ t.level = 0
     \/ /\ n <= t.level
        /\ On(t, a, "background") => n + 1 <= t.level
        /\ (\E x \in Activities \ {a} : On(t, x, "readyInteractive")) =>
             /\ InteractiveLevel # 0
             /\ \/ n >= InteractiveLevel
                \/ n + 1 >= InteractiveLevel /\ n + 1 <= t.level

\* What a handler of a may let in: interactive ones up to their limit beside the
\* background ones that run; and after a background one, those besides a are
\* within its limit.
Admits(s, t, a) ==
  LET j == Len(t.queue["backgroundInteractive"])
      fits == InteractiveLevel = 0 \/ j + Beside(s, a) <= InteractiveLevel
  IN /\ Beside(s, a) <= Beside(t, a)
     /\ j <= Len(s.queue["backgroundInteractive"]) \/ fits
     /\ Joined(s, t, "backgroundInteractive") => fits
     /\ Snug(s, a) => Snug(t, a)
     /\ Joined(s, t, "background") => Snug(t, a)

\* The others stay, or are admitted as the limits allow.
Shift(s, t, a) ==
  /\ s \in Tidy /\ t \in Tidy /\ t.level = s.level
  /\ \A x \in Activities \ {a} : Passed(s, t, x)
  /\ Admits(s, t, a)

LEMMA Slots ==
  ASSUME NEW s \in Tidy, NEW a
  PROVE  LET b == Len(s.queue["background"])
             i == Len(s.queue["backgroundInteractive"])
         IN /\ b \in Nat /\ i \in Nat /\ s.level \in Nat /\ InteractiveLevel \in Nat
            /\ GetRunningBackgroundActivitiesCount(s) = b + i
            /\ On(s, a, "background") => b >= 1 /\ ~On(s, a, "backgroundInteractive")
            /\ On(s, a, "backgroundInteractive") => i >= 1
            /\ Beside(s, a) = IF On(s, a, "background") THEN b - 1 ELSE b
            /\ Others(s, a) = IF On(s, a, "background") \/ On(s, a, "backgroundInteractive")
                              THEN b + i - 1 ELSE b + i
<1>1. s \in ManagerState /\ Hooked(s)
  BY DEF Tidy
<1>2. \A q \in QueueName : s.queue[q] \in Seq(Activities) /\ Len(s.queue[q]) \in Nat
  BY <1>1, QueueType
<1>3. \A q \in QueueName : On(s, a, q) => a \in Activities /\ Len(s.queue[q]) >= 1
  BY <1>2, ElementOfSeq DEF On, Contains
<1>4. On(s, a, "background") => ~On(s, a, "backgroundInteractive")
  BY <1>1, <1>3, QueueNames DEF Hooked
<1>5. /\ GetRunningBackgroundActivitiesCount(s)
           = Len(s.queue["background"]) + Len(s.queue["backgroundInteractive"])
      /\ s.level \in Nat /\ InteractiveLevel \in Nat
  BY <1>1, BusySum, LevelsAssumption
<1> QED
  BY <1>2, <1>3, <1>4, <1>5, QueueNames DEF Beside, Others

LEMMA BesideType ==
  ASSUME NEW s \in Tidy, NEW a
  PROVE  Beside(s, a) \in Nat
<1> DEFINE b == Len(s.queue["background"])
<1>1. /\ b \in Nat
      /\ On(s, a, "background") => b >= 1
      /\ Beside(s, a) = IF On(s, a, "background") THEN b - 1 ELSE b
  BY Slots
<1> HIDE DEF b
<1> QED
  BY <1>1

LEMMA PassedTransitive ==
  ASSUME NEW s, NEW t, NEW u, NEW x, Passed(s, t, x), Passed(t, u, x)
  PROVE  Passed(s, u, x)
<1>1. ASSUME NEW from \in {"ready", "readyInteractive"},
             NEW to \in {"background", "backgroundInteractive"},
             Admitted(s, t, x, from, to)
      PROVE  Stayed(t, u, x)
  <2>1. ~On(t, x, "ready") /\ ~On(t, x, "readyInteractive")
    BY <1>1, QueueNames DEF Admitted
  <2> QED
    BY <2>1 DEF Passed, Admitted
<1>2. CASE Stayed(s, t, x)
  BY <1>2, QueueNames DEF Passed, Stayed, Admitted
<1>3. CASE ~Stayed(s, t, x)
  <2>1. Stayed(t, u, x)
    BY <1>1, <1>3 DEF Passed
  <2> QED
    BY <1>3, <2>1 DEF Passed, Stayed, Admitted
<1> QED
  BY <1>2, <1>3

LEMMA AdmitsTransitive ==
  ASSUME NEW s \in Tidy, NEW t \in Tidy, NEW u \in Tidy, NEW a,
         Admits(s, t, a), Admits(t, u, a)
  PROVE  Admits(s, u, a)
<1> DEFINE b == Beside(s, a)
           c == Beside(t, a)
           d == Beside(u, a)
           i == Len(s.queue["backgroundInteractive"])
           j == Len(t.queue["backgroundInteractive"])
           k == Len(u.queue["backgroundInteractive"])
           Fits(n) == InteractiveLevel = 0 \/ n <= InteractiveLevel
<1>1. /\ b \in Nat /\ c \in Nat /\ d \in Nat /\ i \in Nat /\ j \in Nat /\ k \in Nat
      /\ InteractiveLevel \in Nat
  BY BesideType, Slots
<1>2. /\ b <= c /\ c <= d
      /\ j <= i \/ Fits(j + b)
      /\ k <= j \/ Fits(k + c)
      /\ Joined(s, t, "backgroundInteractive") => Fits(j + b)
      /\ Joined(t, u, "backgroundInteractive") => Fits(k + c)
      /\ Snug(s, a) => Snug(t, a)
      /\ Snug(t, a) => Snug(u, a)
      /\ Joined(s, t, "background") => Snug(t, a)
      /\ Joined(t, u, "background") => Snug(u, a)
  BY DEF Admits
<1>3. \A q : Joined(s, u, q) => Joined(s, t, q) \/ Joined(t, u, q)
  BY DEF Joined
<1> HIDE DEF b, c, d, i, j, k
<1>4. b <= d /\ (k <= i \/ Fits(k + b))
  BY <1>1, <1>2
<1>5. Fits(j + b) => Fits(k + b)
  BY <1>1, <1>2
<1>6. Fits(k + c) => Fits(k + b)
  BY <1>1, <1>2
<1>7. Joined(s, u, "backgroundInteractive") => Fits(k + b)
  BY <1>2, <1>3, <1>5, <1>6
<1>8. (Snug(s, a) => Snug(u, a)) /\ (Joined(s, u, "background") => Snug(u, a))
  BY <1>2, <1>3
<1> QED
  BY <1>4, <1>7, <1>8 DEF Admits, b, d, i, k

\* Nobody is let in: only a moves, on to no slot.
LEMMA AloneAdmits ==
  ASSUME NEW s \in Tidy, NEW t \in Tidy, NEW a, t.level = s.level,
         \A x \in Activities \ {a} : \A q \in QueueName : On(t, x, q) <=> On(s, x, q),
         \A q \in {"background", "backgroundInteractive"} :
           \/ t.queue[q] = s.queue[q]
           \/ On(s, a, q) /\ ~On(t, a, q) /\ Len(t.queue[q]) = Len(s.queue[q]) - 1
  PROVE  Admits(s, t, a)
<1> DEFINE b == Len(s.queue["background"])
           i == Len(s.queue["backgroundInteractive"])
           c == Len(t.queue["background"])
           j == Len(t.queue["backgroundInteractive"])
<1>1. /\ b \in Nat /\ i \in Nat /\ c \in Nat /\ j \in Nat
      /\ Beside(s, a) = IF On(s, a, "background") THEN b - 1 ELSE b
      /\ Others(s, a) = IF On(s, a, "background") \/ On(s, a, "backgroundInteractive")
                        THEN b + i - 1 ELSE b + i
      /\ Beside(t, a) = IF On(t, a, "background") THEN c - 1 ELSE c
      /\ Others(t, a) = IF On(t, a, "background") \/ On(t, a, "backgroundInteractive")
                        THEN c + j - 1 ELSE c + j
      /\ On(s, a, "background") => ~On(s, a, "backgroundInteractive")
  BY Slots
<1>2. /\ \/ c = b /\ (On(t, a, "background") <=> On(s, a, "background"))
         \/ On(s, a, "background") /\ ~On(t, a, "background") /\ c = b - 1
      /\ \/ j = i /\ (On(t, a, "backgroundInteractive") <=> On(s, a, "backgroundInteractive"))
         \/ On(s, a, "backgroundInteractive") /\ ~On(t, a, "backgroundInteractive") /\ j = i - 1
  BY DEF On
<1> HIDE DEF b, c, i, j
<1>3. Beside(t, a) = Beside(s, a) /\ Others(t, a) = Others(s, a) /\ j <= i /\ Beside(s, a) \in Int
  BY <1>1, <1>2
<1>4. /\ ~Joined(s, t, "background") /\ ~Joined(s, t, "backgroundInteractive")
      /\ On(t, a, "background") => On(s, a, "background")
      /\ \A x \in Activities \ {a} :
           On(t, x, "readyInteractive") => On(s, x, "readyInteractive")
  BY <1>2, QueueNames DEF Joined
<1>5. Snug(s, a) => Snug(t, a)
  BY <1>3, <1>4 DEF Snug
<1> QED
  BY <1>3, <1>4, <1>5 DEF Admits, i, j

LEMMA ShiftTransitive ==
  ASSUME NEW s, NEW t, NEW u, NEW a, Shift(s, t, a), Shift(t, u, a)
  PROVE  Shift(s, u, a)
<1>1. \A x \in Activities \ {a} : Passed(s, u, x)
  BY PassedTransitive DEF Shift
<1>2. Admits(s, u, a)
  BY AdmitsTransitive DEF Shift
<1> QED
  BY <1>1, <1>2 DEF Shift

LEMMA ShiftSame ==
  ASSUME NEW s \in Tidy, NEW a
  PROVE  Shift(s, s, a)
<1>1. Admits(s, s, a)
  BY AloneAdmits
<1> QED
  BY <1>1 DEF Shift, Passed, Stayed

LEMMA TidyParts ==
  ASSUME NEW s \in Tidy, NEW a \in Activities
  PROVE  /\ s \in ManagerState /\ Hooked(s) /\ s.act[a] \in ActivityState
         /\ At(s, a) \subseteq QueueName
BY ActType DEF Tidy, At

LEMMA SetActShift ==
  ASSUME NEW a \in Activities, NEW s \in Tidy, NEW r \in ActivityState
  PROVE  LET t == SetAct(s, a, r)
         IN /\ Shift(s, t, a) /\ t \in Tidy /\ t.act[a] = r /\ At(t, a) = At(s, a)
            /\ t.queue = s.queue /\ t.enabled = s.enabled
<1> DEFINE t == SetAct(s, a, r)
<1>1. s \in ManagerState /\ Hooked(s)
  BY DEF Tidy
<1>2. t \in ManagerState
  BY <1>1, SetActType
<1>3. /\ t.queue = s.queue /\ t.level = s.level /\ t.enabled = s.enabled /\ t.act[a] = r
      /\ \A x \in Activities \ {a} : t.act[x] = s.act[x]
  BY <1>1 DEF SetAct, ManagerState
<1> HIDE DEF t
<1>4. Hooked(t) /\ At(t, a) = At(s, a) /\ \A x \in Activities \ {a} : Passed(s, t, x)
  BY <1>1, <1>3 DEF Hooked, On, At, Passed, Stayed
<1>5. t \in Tidy
  BY <1>2, <1>4 DEF Tidy
<1>6. Admits(s, t, a)
  BY <1>3, <1>5, AloneAdmits DEF On
<1> QED
  BY <1>3, <1>4, <1>5, <1>6 DEF Shift, t

LEMMA MoveToShift ==
  ASSUME NEW a \in Activities, NEW s \in Tidy,
         NEW q \in QueueName \ {"background", "backgroundInteractive"}
  PROVE  LET t == MoveTo(s, a, q)
         IN /\ Shift(s, t, a) /\ t \in Tidy /\ t.act = s.act /\ At(t, a) = {q}
            /\ t.enabled = s.enabled
<1> DEFINE t == MoveTo(s, a, q)
<1>1. s \in ManagerState /\ Hooked(s)
  BY DEF Tidy
<1>2. /\ t \in ManagerState /\ Hooked(t)
      /\ \A x \in Activities, o \in QueueName :
           On(t, x, o) <=> IF x = a THEN o = q ELSE On(s, x, o)
      /\ \A o \in QueueName \ {q} :
           /\ ~On(s, a, o) => t.queue[o] = s.queue[o]
           /\ On(s, a, o) => Len(t.queue[o]) = Len(s.queue[o]) - 1
      /\ t.act = s.act /\ t.level = s.level /\ t.enabled = s.enabled
  BY <1>1, MoveToPlaces
<1> HIDE DEF t
<1>3. At(t, a) = {q} /\ \A x \in Activities \ {a} : Passed(s, t, x)
  BY <1>2 DEF At, Passed, Stayed
<1>4. t \in Tidy
  BY <1>2 DEF Tidy
<1>5. Admits(s, t, a)
  <2>1. \A o \in {"background", "backgroundInteractive"} :
          \/ t.queue[o] = s.queue[o]
          \/ On(s, a, o) /\ ~On(t, a, o) /\ Len(t.queue[o]) = Len(s.queue[o]) - 1
    BY <1>2, QueueNames
  <2>2. \A x \in Activities \ {a} : \A o \in QueueName : On(t, x, o) <=> On(s, x, o)
    BY <1>2
  <2> QED
    BY <1>2, <1>4, <2>1, <2>2, AloneAdmits
<1> QED
  BY <1>2, <1>3, <1>4, <1>5 DEF Shift, t

LEMMA UnlinkShift ==
  ASSUME NEW a \in Activities, NEW s \in Tidy
  PROVE  LET t == Unlink(s, a)
         IN Shift(s, t, a) /\ t \in Tidy /\ t.act = s.act /\ At(t, a) = {}
<1> DEFINE t == Unlink(s, a)
<1>1. s \in ManagerState /\ Hooked(s)
  BY DEF Tidy
<1>2. /\ t \in ManagerState /\ Hooked(t)
      /\ \A x \in Activities, o \in QueueName : On(t, x, o) <=> On(s, x, o) /\ x # a
      /\ \A o \in QueueName :
           /\ ~On(s, a, o) => t.queue[o] = s.queue[o]
           /\ On(s, a, o) => Len(t.queue[o]) = Len(s.queue[o]) - 1
      /\ t.act = s.act /\ t.level = s.level
  BY <1>1, UnlinkPlaces
<1> HIDE DEF t
<1>3. At(t, a) = {} /\ \A x \in Activities \ {a} : Passed(s, t, x)
  BY <1>2 DEF At, Passed, Stayed
<1>4. t \in Tidy
  BY <1>2 DEF Tidy
<1>5. Admits(s, t, a)
  <2>1. \A o \in {"background", "backgroundInteractive"} :
          \/ t.queue[o] = s.queue[o]
          \/ On(s, a, o) /\ ~On(t, a, o) /\ Len(t.queue[o]) = Len(s.queue[o]) - 1
    BY <1>2, QueueNames
  <2>2. \A x \in Activities \ {a} : \A o \in QueueName : On(t, x, o) <=> On(s, x, o)
    BY <1>2
  <2> QED
    BY <1>2, <1>4, <2>1, <2>2, AloneAdmits
<1> QED
  BY <1>2, <1>3, <1>4, <1>5 DEF Shift, t

\* If nobody else waits on a list, a is all there is.
LEMMA OneWaits ==
  ASSUME NEW s \in Tidy, NEW a,
         ~\E x \in Activities \ {a} : On(s, x, "readyInteractive")
  PROVE  Len(s.queue["readyInteractive"]) \in {0, 1}
<1> DEFINE list == s.queue["readyInteractive"]
<1>1. list \in Seq(Activities) /\ Len(list) \in Nat /\ Once(list)
  BY QueueType, QueueNames DEF Tidy, Hooked
<1>2. \A x : Contains(list, x) => x = a
  <2>1. \A x : Contains(list, x) => x \in Activities
    BY <1>1, ElementOfSeq DEF Contains
  <2> QED
    BY <2>1 DEF On
<1> HIDE DEF list
<1>3. Len(list) >= 2 => FALSE
  <2> SUFFICES ASSUME Len(list) >= 2 PROVE FALSE
    OBVIOUS
  <2>1. 1 \in 1..Len(list) /\ 2 \in 1..Len(list)
    BY <1>1
  <2>2. list[1] = a /\ list[2] = a
    BY <1>2, <2>1 DEF Contains
  <2> QED
    BY <1>1, <2>1, <2>2 DEF Once
<1>4. \A n \in Nat : ~(n >= 2) => n \in {0, 1}
  OBVIOUS
<1> QED
  BY <1>1, <1>3, <1>4 DEF list

\* Admission, seen from any a: it admits within the limits.
LEMMA CheckReadyQueueAdmits ==
  ASSUME NEW s \in Tidy, NEW t \in Tidy, NEW a, t = CheckReadyQueue(s),
         t.level = s.level, \A x \in Activities : Passed(s, t, x)
  PROVE  Admits(s, t, a)
<1> DEFINE b == Len(s.queue["background"])
           i == Len(s.queue["backgroundInteractive"])
           r == Len(s.queue["readyInteractive"])
           c == Len(t.queue["background"])
           j == Len(t.queue["backgroundInteractive"])
           l == s.level
           L == InteractiveLevel
           Waits(u) == \E x \in Activities \ {a} : On(u, x, "readyInteractive")
           AtBg(u) == On(u, a, "background")
           AtIn(u) == On(u, a, "backgroundInteractive")
<1>1. PICK n \in Nat, m \in Nat : Admission(s, t, n, m)
  BY CheckReadyQueuePlaces DEF Tidy
<1>2. /\ b \in Nat /\ i \in Nat /\ c \in Nat /\ j \in Nat /\ l \in Nat /\ L \in Nat
      /\ GetRunningBackgroundActivitiesCount(s) = b + i
      /\ AtBg(s) => b >= 1 /\ ~AtIn(s)
      /\ AtIn(s) => i >= 1
      /\ Beside(s, a) = IF AtBg(s) THEN b - 1 ELSE b
      /\ Beside(t, a) = IF AtBg(t) THEN c - 1 ELSE c
      /\ Others(s, a) = IF AtBg(s) \/ AtIn(s) THEN b + i - 1 ELSE b + i
      /\ Others(t, a) = IF AtBg(t) \/ AtIn(t) THEN c + j - 1 ELSE c + j
  BY Slots
<1>3. r \in Nat
  BY BusySum, QueueNames DEF Tidy
<1>4. /\ n \in 0..r /\ c = b + m /\ j = i + n
      /\ n < r => L # 0 /\ b + i + n >= L
      /\ n = 0 \/ L = 0 \/ b + i + n <= L
      /\ m = 0 \/ l = 0 \/ b + i + n + m <= l
      /\ Len(t.queue["readyInteractive"]) = r - n
  BY <1>1, <1>2 DEF Admission
<1>5. /\ Joined(s, t, "backgroundInteractive") => n # 0
      /\ Joined(s, t, "background") => m # 0
  BY <1>1, QueueNames DEF Admission, Joined, Passed, Stayed, Admitted
<1>6. \A x \in Activities :
        /\ On(t, x, "readyInteractive") => On(s, x, "readyInteractive")
        /\ On(s, x, "background") => On(t, x, "background")
        /\ On(s, x, "backgroundInteractive") => On(t, x, "backgroundInteractive")
        /\ On(s, x, "readyInteractive") =>
             \/ On(t, x, "readyInteractive")
             \/ On(t, x, "backgroundInteractive")
        /\ On(s, x, "readyInteractive") => ~On(s, x, "background") /\ ~On(s, x, "backgroundInteractive")
  <2> SUFFICES ASSUME NEW x \in Activities
               PROVE  /\ On(t, x, "readyInteractive") => On(s, x, "readyInteractive")
                      /\ On(s, x, "background") => On(t, x, "background")
                      /\ On(s, x, "backgroundInteractive") => On(t, x, "backgroundInteractive")
                      /\ On(s, x, "readyInteractive") =>
                           \/ On(t, x, "readyInteractive")
                           \/ On(t, x, "backgroundInteractive")
                      /\ On(s, x, "readyInteractive") =>
                           ~On(s, x, "background") /\ ~On(s, x, "backgroundInteractive")
    OBVIOUS
  <2>1. \A p, q \in QueueName : On(s, x, p) /\ On(s, x, q) => p = q
    BY DEF Tidy, Hooked
  <2> QED
    BY <2>1, QueueNames DEF Passed, Stayed, Admitted
<1>7. \A u \in Tidy : \A q \in QueueName : On(u, a, q) => a \in Activities
  BY QueueType, ElementOfSeq DEF Tidy, On, Contains
<1>8. /\ AtBg(s) => AtBg(t)
      /\ AtIn(s) => AtIn(t)
      /\ AtBg(t) /\ ~AtBg(s) => m # 0
      /\ AtIn(t) /\ ~AtIn(s) => n # 0
      /\ AtBg(t) => ~AtIn(t)
      /\ Waits(t) => Waits(s)
  <2>1. AtBg(t) => ~AtIn(t)
    BY Slots
  <2> QED
    BY <1>5, <1>6, <1>7, <2>1, QueueNames DEF Joined
<1>9. Waits(t) => n < r
  <2> SUFFICES ASSUME NEW x \in Activities, On(t, x, "readyInteractive")
               PROVE  n < r
    OBVIOUS
  <2>1. Len(t.queue["readyInteractive"]) \in Nat
    BY BusySum, QueueNames DEF Tidy
  <2>2. Len(t.queue["readyInteractive"]) >= 1
    BY <2>1 DEF On, Contains
  <2> QED
    BY <1>3, <1>4, <2>2
<1>10. n # 0 /\ ~Waits(s) => n = 1 /\ ~AtBg(s) /\ ~AtIn(s) /\ AtIn(t)
  <2> SUFFICES ASSUME n # 0, ~Waits(s)
               PROVE  n = 1 /\ ~AtBg(s) /\ ~AtIn(s) /\ AtIn(t)
    OBVIOUS
  <2>1. r = 1 /\ n = 1
    <3>1. r \in {0, 1}
      BY OneWaits
    <3> HIDE DEF r
    <3> QED
      BY <1>3, <1>4, <3>1
  <2>2. Len(t.queue["readyInteractive"]) = 0
    BY <1>4, <2>1
  <2>3. \A x : ~On(t, x, "readyInteractive")
    BY <2>2 DEF On, Contains
  <2>4. s.queue["readyInteractive"] \in Seq(Activities) /\ 1 \in 1..Len(s.queue["readyInteractive"])
    BY <2>1, QueueType, QueueNames DEF Tidy
  <2>5. PICK x \in Activities : On(s, x, "readyInteractive")
    BY <2>4, ElementOfSeq DEF On, Contains
  <2>6. x = a
    BY <2>5
  <2> QED
    BY <1>6, <2>1, <2>3, <2>5, <2>6
<1>11. (Snug(s, a) <=>
          \/ l = 0
          \/ /\ Others(s, a) <= l
             /\ AtBg(s) => Others(s, a) + 1 <= l
             /\ Waits(s) => /\ L # 0
                            /\ \/ Others(s, a) >= L
                               \/ Others(s, a) + 1 >= L /\ Others(s, a) + 1 <= l)
  BY DEF Snug
<1>12. (Snug(t, a) <=>
          \/ l = 0
          \/ /\ Others(t, a) <= l
             /\ AtBg(t) => Others(t, a) + 1 <= l
             /\ Waits(t) => /\ L # 0
                            /\ \/ Others(t, a) >= L
                               \/ Others(t, a) + 1 >= L /\ Others(t, a) + 1 <= l)
  BY DEF Snug
<1> HIDE DEF b, i, r, c, j, l, L, Waits, AtBg, AtIn
<1>13. Beside(s, a) <= Beside(t, a)
  BY <1>2, <1>4, <1>8
<1>14. n # 0 => L = 0 \/ j + Beside(s, a) <= L
  BY <1>2, <1>3, <1>4
<1>15. m # 0 => Snug(t, a)
  BY <1>2, <1>3, <1>4, <1>9, <1>12
<1>16. m = 0 /\ n = 0 /\ Snug(s, a) => Snug(t, a)
  BY <1>2, <1>4, <1>8, <1>11, <1>12
<1>17. m = 0 /\ n # 0 /\ ~Waits(s) /\ Snug(s, a) => Snug(t, a)
  BY <1>2, <1>4, <1>8, <1>10, <1>11, <1>12
<1>18. m = 0 /\ n # 0 /\ Waits(s) /\ Snug(s, a) => Snug(t, a)
  BY <1>2, <1>3, <1>4, <1>8, <1>11, <1>12
<1>19. j <= i \/ n # 0
  BY <1>2, <1>4
<1> QED
  BY <1>5, <1>13, <1>14, <1>15, <1>16, <1>17, <1>18, <1>19 DEF Admits, i, j, L

LEMMA CheckReadyQueueShift ==
  ASSUME NEW a, NEW s \in Tidy
  PROVE  LET t == CheckReadyQueue(s)
         IN Shift(s, t, a) /\ t \in Tidy /\ \A x \in Activities : Passed(s, t, x)
<1> DEFINE t == CheckReadyQueue(s)
<1>1. s \in ManagerState /\ Hooked(s)
  BY DEF Tidy
<1>2. t \in Tidy /\ t.level = s.level /\ \A x \in Activities : Passed(s, t, x)
  BY <1>1, CheckReadyQueuePlaces DEF Tidy, Passed
<1>3. t = CheckReadyQueue(s)
  OBVIOUS
<1> HIDE DEF t
<1>4. Admits(s, t, a)
  BY <1>2, <1>3, CheckReadyQueueAdmits
<1> QED
  BY <1>2, <1>4 DEF Shift, t

\* What becomes of a itself in an admission.
LEMMA PassedAt ==
  ASSUME NEW s, NEW t, NEW a, Passed(s, t, a)
  PROVE  \/ t.act[a] = s.act[a] /\ At(t, a) = At(s, a)
         \/ /\ At(s, a) \cap {"ready", "readyInteractive"} # {}
            /\ t.act[a] = RunActivity(s.act[a])
            /\ \E q \in {"background", "backgroundInteractive"} : At(t, a) = {q}
<1>1. CASE Stayed(s, t, a)
  BY <1>1 DEF Stayed, At
<1>2. ASSUME NEW from \in {"ready", "readyInteractive"},
             NEW to \in {"background", "backgroundInteractive"},
             Admitted(s, t, a, from, to)
      PROVE  /\ At(s, a) \cap {"ready", "readyInteractive"} # {}
             /\ t.act[a] = RunActivity(s.act[a])
             /\ At(t, a) = {to}
  BY <1>2, QueueNames DEF Admitted, At
<1> QED
  BY <1>1, <1>2 DEF Passed

-----------------------------------------------------------------------------
(* What a handler of a keeps true of a: of its record r, and the queues at *)
(* where it is.                                                            *)

ReadyQueues == {"ready", "readyInteractive"}
RunningQueues == {"background", "backgroundInteractive", "longBackground", "immediate"}

Off(r) == r.power \in {"none", "unlocked"}

\* The object is in use: it is live, or was released and only waits for its
\* persist commands and subscribers, having been told to end for good.
Abides(r) ==
  \/ r.life = "live"
  \/ r.life = "released" /\ r.extCommand \in FinalCommand /\ r.terminate /\ r.initialized

\* The kinds of call under which the command that was sent first still counts
\* when the Activity may run; under which an end stays one; and under which a
\* trigger that fired, or a schedule that is due, is not replaced.
StartsStand ==
  /\ {"pause", "adopt"} \cap Calls = {}
  /\ "refused" \notin Calls \/ Updates \cap {"noTrigger", "noSchedule"} = {}
EndsStand == "refused" \notin Calls
UpdatesStand == Updates \cap {"trigger", "schedule"} = {}

\* The flags, the commands, the power and the queues agree.
Flags(r, at, x) ==
  /\ r.ready \/ r.running => r.scheduled
  /\ r.scheduled \/ r.requeue \/ r.callback = "calling" => r.initialized
  /\ ~Off(r) => r.running
  /\ (r.power = "none") = (x \notin Powered)
  /\ r.ready \/ r.running \/ r.sentCommand = "start" => r.extCommand # "none"
  /\ at \cap ReadyQueues # {} => r.ready /\ ~r.running
  /\ at \cap RunningQueues # {} => r.running
  /\ "initialized" \in at => r.initialized /\ ~r.scheduled
  /\ "ended" \notin at
  /\ r.life = "new" => /\ ~r.initialized /\ r.persistCommands = << >>
                       /\ r.extCommand = "none" /\ at = {}

Wanted(r, at) == at \cap ReadyQueues # {} => PrerequisitesMet(r)

Heard(r) == r.extCommand # "pause" /\ r.intCommand # "pause" /\ r.adopters = << >>

\* One that was released waits for nothing, and only a live one is in line or
\* keeps power.
Kept(r, at) ==
  /\ r.life = "released" =>
       /\ Exists(r) => Abides(r)
       /\ r.trigger # "armed" /\ r.schedule # "queued"
  /\ ~Off(r) \/ at \cap (ReadyQueues \cup RunningQueues \cup {"initialized"}) # {}
       => r.life = "live"

Fit(r, at, x) ==
  /\ Flags(r, at, x)
  /\ UpdatesStand => Wanted(r, at)
  /\ StartsStand => Heard(r)
  /\ EndsStand => Kept(r, at)

\* A handler may be called.
Able(r) == r.life # "new" /\ (EndsStand => Abides(r))

\* One that may run does, or has asked to.
Asked(r) == IsRunnable(r) => r.running \/ r.ready

\* One without a subscriber and without a callback, or not yet started, waits
\* for the database to have stored it, and will have one of these then.
Due(r) ==
  r.life = "live" /\ ~r.ending /\ r.subscriptions = {} /\ (r.callback = "none" \/ ~r.initialized)
Promises(c, r) ==
  c.finish = "create" /\ (c.sub # None \/ (c.start /\ r.callback # "none"))
Awaited(r) ==
  Due(r) => r.persistCommands # << >> /\ Promises(Head(r.persistCommands), r)

\* From p to r the power was begun or ended, or both, and with power to wait
\* for the callback was not called.
Locks(p, r, x) ==
  x \in Powered =>
    /\ r.callback = "calling" => p.callback = "calling"
    /\ \/ r.power = p.power
       \/ p.power = "unlocked" /\ r.power \in {"locking", "unlocking"}
       \/ p.power \in {"locking", "locked"} /\ r.power = "unlocking"

\* What running an Activity leaves as it was.
Same(p, r) ==
  /\ r.life = p.life /\ r.extCommand = p.extCommand /\ r.terminate = p.terminate
  /\ r.ending = p.ending /\ r.restart = p.restart
  /\ r.subscriptions = p.subscriptions /\ r.persistCommands = p.persistCommands
  /\ (r.callback = "none") = (p.callback = "none")
  /\ p.initialized => r.initialized

\* p asked to run: r is in line or runs.
Ran(p, r, at) ==
  LET q == [p EXCEPT !.ready = TRUE]
  IN \/ r = q /\ \E k \in ReadyQueues : at = {k}
     \/ r = RunActivity(q) /\ \E k \in RunningQueues : at = {k}

LEMMA LocksTransitive ==
  ASSUME NEW p, NEW q, NEW r, NEW x, Locks(p, q, x), Locks(q, r, x)
  PROVE  Locks(p, r, x)
BY DEF Locks

LEMMA SameTransitive ==
  ASSUME NEW p, NEW q, NEW r, Same(p, q), Same(q, r)
  PROVE  Same(p, r)
BY DEF Same

LEMMA SameAble ==
  ASSUME NEW p, NEW r, Same(p, r)
  PROVE  /\ Able(p) => Able(r)
         /\ Awaited(p) => Awaited(r)
BY DEF Same, Able, Abides, Awaited, Due, Promises

LEMMA FitApart ==
  ASSUME NEW r, NEW at, NEW x, Fit(r, at, x)
  PROVE  /\ Fit(r, {}, x)
         /\ r.life # "new" => Fit(r, {"scheduled"}, x)
BY DEF Fit, Flags, Wanted, Kept, ReadyQueues, RunningQueues

\* What becomes of the record when the Activity runs.
LEMMA RunActivityFields ==
  ASSUME NEW q \in ActivityState, NEW r, r = RunActivity(q)
  PROVE  /\ r \in ActivityState /\ r.running
         /\ r.life = q.life /\ r.initialized = q.initialized /\ r.scheduled = q.scheduled
         /\ r.ready = q.ready /\ r.ending = q.ending /\ r.requeue = q.requeue
         /\ r.restart = q.restart /\ r.terminate = q.terminate
         /\ r.extCommand = q.extCommand /\ r.intCommand = q.intCommand
         /\ r.subscriptions = q.subscriptions /\ r.adopters = q.adopters
         /\ r.persistCommands = q.persistCommands
         /\ r.trigger = q.trigger /\ r.schedule = q.schedule /\ r.requirement = q.requirement
         /\ (r.callback = "none") = (q.callback = "none")
         /\ IF q.power \in {"none", "locked"} THEN r.power = q.power
            ELSE r.power = "locking" /\ r.callback = q.callback /\ r.sentCommand = q.sentCommand
<1>1. r \in ActivityState
  BY RunActivityType
<1> QED
  BY <1>1 DEF RunActivity, DoRunActivity, BroadcastCommand, ActivityState, FinalCommand

\* Whoever has the right to run, and is off, stands well in line and running.
LEMMA RunFit ==
  ASSUME NEW q \in ActivityState, NEW x, NEW at, NEW k \in RunningQueues, Fit(q, at, x),
         q.ready, ~q.running, EndsStand => q.life = "live"
  PROVE  LET r == RunActivity(q)
         IN /\ r \in ActivityState /\ Fit(r, {k}, x) /\ Asked(r) /\ Locks(q, r, x) /\ Same(q, r)
<1> DEFINE r == RunActivity(q)
<1>1. /\ r \in ActivityState /\ r.running
      /\ r.life = q.life /\ r.initialized = q.initialized /\ r.scheduled = q.scheduled
      /\ r.ready = q.ready /\ r.ending = q.ending /\ r.requeue = q.requeue
      /\ r.restart = q.restart /\ r.terminate = q.terminate
      /\ r.extCommand = q.extCommand /\ r.intCommand = q.intCommand
      /\ r.subscriptions = q.subscriptions /\ r.adopters = q.adopters
      /\ r.persistCommands = q.persistCommands
      /\ r.trigger = q.trigger /\ r.schedule = q.schedule /\ r.requirement = q.requirement
      /\ (r.callback = "none") = (q.callback = "none")
      /\ IF q.power \in {"none", "locked"} THEN r.power = q.power
         ELSE r.power = "locking" /\ r.callback = q.callback /\ r.sentCommand = q.sentCommand
  BY RunActivityFields
<1> HIDE DEF r
<1>2. /\ Off(q) /\ q.scheduled /\ q.initialized /\ q.extCommand # "none" /\ q.life # "new"
      /\ (q.power = "none") = (x \notin Powered)
      /\ StartsStand => Heard(q)
      /\ EndsStand => Kept(q, at)
  BY DEF Fit, Flags
<1>3. Flags(r, {k}, x)
  BY <1>1, <1>2 DEF Flags, Off, ReadyQueues, RunningQueues
<1>4. /\ UpdatesStand => Wanted(r, {k})
      /\ StartsStand => Heard(r)
  BY <1>1, <1>2 DEF Wanted, Heard, ReadyQueues, RunningQueues
<1>5. EndsStand => Kept(r, {k})
  BY <1>1 DEF Kept
<1>6. Locks(q, r, x)
  BY <1>1, <1>2 DEF Locks, Off
<1> QED
  BY <1>1, <1>3, <1>4, <1>5, <1>6 DEF Fit, Asked, Same, r

LEMMA RunnableLive ==
  ASSUME NEW p, IsRunnable(p)
  PROVE  /\ p.extCommand = "start" /\ p.scheduled /\ PrerequisitesMet(p) /\ ~p.ending
         /\ Able(p) /\ EndsStand => p.life = "live"
BY DEF IsRunnable, ComputeNextExternalCommand, Able, Abides, FinalCommand

LEMMA RanFit ==
  ASSUME NEW p \in ActivityState, NEW r, NEW x, NEW before, NEW at,
         Fit(p, before, x), Able(p), IsRunnable(p), ~p.running, Ran(p, r, at)
  PROVE  r \in ActivityState /\ Fit(r, at, x) /\ Asked(r) /\ Locks(p, r, x) /\ Same(p, r)
<1> DEFINE q == [p EXCEPT !.ready = TRUE]
<1>1. q \in ActivityState
  BY FlagType
<1>2. /\ q.ready /\ q.life = p.life /\ q.initialized = p.initialized
      /\ q.scheduled = p.scheduled /\ q.running = p.running /\ q.ending = p.ending
      /\ q.requeue = p.requeue /\ q.restart = p.restart /\ q.terminate = p.terminate
      /\ q.extCommand = p.extCommand /\ q.intCommand = p.intCommand
      /\ q.sentCommand = p.sentCommand
      /\ q.subscriptions = p.subscriptions /\ q.adopters = p.adopters
      /\ q.persistCommands = p.persistCommands
      /\ q.trigger = p.trigger /\ q.schedule = p.schedule /\ q.requirement = p.requirement
      /\ q.callback = p.callback /\ q.power = p.power
  BY DEF ActivityState
<1>3. \/ r = q /\ \E k \in ReadyQueues : at = {k}
      \/ r = RunActivity(q) /\ \E k \in RunningQueues : at = {k}
  BY DEF Ran
<1> HIDE DEF q
<1>4. /\ p.extCommand = "start" /\ p.scheduled /\ PrerequisitesMet(p) /\ ~p.ending
      /\ EndsStand => p.life = "live"
  BY RunnableLive
<1>5. /\ p.initialized /\ Off(p) /\ (p.power = "none") = (x \notin Powered) /\ p.life # "new"
      /\ StartsStand => Heard(p)
      /\ p.requeue \/ p.callback = "calling" => p.initialized
  BY <1>4 DEF Fit, Flags, Able
<1>6. Same(p, q) /\ Locks(p, q, x)
  BY <1>2 DEF Same, Locks
<1>7. ASSUME NEW k \in ReadyQueues
      PROVE  Fit(q, {k}, x)
  <2>1. {k} \cap RunningQueues = {} /\ "initialized" \notin {k} /\ "ended" \notin {k}
    BY DEF ReadyQueues, RunningQueues
  <2>2. Flags(q, {k}, x)
    BY <1>2, <1>4, <1>5, <2>1 DEF Flags, Off
  <2>3. /\ UpdatesStand => Wanted(q, {k})
        /\ StartsStand => Heard(q)
    BY <1>2, <1>4, <1>5 DEF Wanted, Heard, PrerequisitesMet
  <2>4. EndsStand => Kept(q, {k})
    BY <1>2, <1>4 DEF Kept
  <2> QED
    BY <2>2, <2>3, <2>4 DEF Fit
<1>8. CASE r = q /\ \E k \in ReadyQueues : at = {k}
  BY <1>1, <1>2, <1>6, <1>7, <1>8 DEF Asked
<1>9. ASSUME NEW k \in RunningQueues, r = RunActivity(q), at = {k}
      PROVE  r \in ActivityState /\ Fit(r, at, x) /\ Asked(r) /\ Locks(p, r, x) /\ Same(p, r)
  <2>1. "ready" \in ReadyQueues
    BY DEF ReadyQueues
  <2>2. /\ r \in ActivityState /\ Fit(r, {k}, x) /\ Asked(r) /\ Locks(q, r, x) /\ Same(q, r)
    BY <1>1, <1>2, <1>4, <1>7, <1>9, <2>1, RunFit
  <2> QED
    BY <1>6, <1>9, <2>2, LocksTransitive, SameTransitive
<1> QED
  BY <1>3, <1>8, <1>9

-----------------------------------------------------------------------------
(* Operations of the Manager.                                              *)

\* From s to t, a handler of a leaves a fit and the others in order.
Moves(s, t, a) ==
  Shift(s, t, a) /\ Fit(t.act[a], At(t, a), a) /\ Locks(s.act[a], t.act[a], a)

\* The states where a handler of a may go on.
Under(a) == {s \in Tidy : Fit(s.act[a], At(s, a), a) /\ Able(s.act[a])}

LEMMA MovesTransitive ==
  ASSUME NEW s, NEW t, NEW u, NEW a, Moves(s, t, a), Moves(t, u, a)
  PROVE  Moves(s, u, a)
BY ShiftTransitive, LocksTransitive DEF Moves

LEMMA UnderParts ==
  ASSUME NEW a \in Activities, NEW s \in Under(a)
  PROVE  /\ s \in Tidy /\ s \in ManagerState /\ s.act[a] \in ActivityState
         /\ Fit(s.act[a], At(s, a), a) /\ Fit(s.act[a], {}, a) /\ Able(s.act[a])
         /\ Moves(s, s, a)
<1>1. s \in Tidy /\ Fit(s.act[a], At(s, a), a) /\ Able(s.act[a])
  BY DEF Under
<1>2. Fit(s.act[a], {}, a)
  BY <1>1, FitApart
<1>3. Locks(s.act[a], s.act[a], a)
  BY DEF Locks
<1> QED
  BY <1>1, <1>2, <1>3, TidyParts, ShiftSame DEF Moves

LEMMA SetActMoves ==
  ASSUME NEW a \in Activities, NEW s \in Tidy, NEW r \in ActivityState,
         Fit(r, At(s, a), a), Locks(s.act[a], r, a)
  PROVE  LET t == SetAct(s, a, r)
         IN /\ Moves(s, t, a) /\ t \in Tidy /\ t.act[a] = r /\ At(t, a) = At(s, a)
            /\ Able(r) => t \in Under(a)
BY SetActShift DEF Moves, Under

LEMMA InformActivityReadyRan ==
  ASSUME NEW a \in Activities, NEW s \in Tidy
  PROVE  LET t == InformActivityReady(s, a)
         IN /\ Shift(s, t, a)
            /\ \/ t.act[a] = s.act[a] /\ \E k \in ReadyQueues : At(t, a) = {k}
               \/ t.act[a] = RunActivity(s.act[a]) /\ \E k \in RunningQueues : At(t, a) = {k}
<1> DEFINE line == IF a \in UserInitiated THEN "readyInteractive" ELSE "ready"
           i == MoveTo(s, a, "immediate")
           m == MoveTo(s, a, line)
           r == RunActivity(s.act[a])
           u == SetAct(i, a, r)
           t == CheckReadyQueue(m)
<1>1. InformActivityReady(s, a) = IF a \in Immediate THEN u ELSE t
  BY DEF InformActivityReady
<1>2. /\ line \in QueueName \ {"background", "backgroundInteractive"} /\ line \in ReadyQueues
      /\ "immediate" \in QueueName \ {"background", "backgroundInteractive"}
  BY QueueNames DEF ReadyQueues
<1>3. r \in ActivityState
  BY TidyParts, RunActivityType
<1> HIDE DEF line, r
<1>4. Shift(s, i, a) /\ i \in Tidy /\ i.act = s.act /\ At(i, a) = {"immediate"}
  BY <1>2, MoveToShift
<1>5. Shift(s, m, a) /\ m \in Tidy /\ m.act = s.act /\ At(m, a) = {line}
  BY <1>2, MoveToShift
<1> HIDE DEF i, m
<1>6. Shift(i, u, a) /\ u.act[a] = r /\ At(u, a) = At(i, a)
  BY <1>3, <1>4, SetActShift
<1> HIDE DEF u
<1>7. Shift(m, t, a) /\ Passed(m, t, a)
  BY <1>5, CheckReadyQueueShift
<1> HIDE DEF t
<1>8. Shift(s, u, a) /\ Shift(s, t, a)
  BY <1>4, <1>5, <1>6, <1>7, ShiftTransitive
<1>9. u.act[a] = r /\ At(u, a) = {"immediate"} /\ "immediate" \in RunningQueues
  BY <1>4, <1>6 DEF RunningQueues
<1>10. \/ t.act[a] = s.act[a] /\ At(t, a) = {line}
       \/ t.act[a] = r /\ \E k \in RunningQueues : At(t, a) = {k}
  BY <1>5, <1>7, PassedAt DEF RunningQueues, r
<1> QED
  BY <1>1, <1>2, <1>8, <1>9, <1>10 DEF r

LEMMA RequestRunActivityMoves ==
  ASSUME NEW a \in Activities, NEW s \in Tidy, NEW at,
         Fit(s.act[a], at, a), Able(s.act[a]), IsRunnable(s.act[a]), ~s.act[a].running
  PROVE  LET t == RequestRunActivity(s, a)
         IN Moves(s, t, a) /\ Asked(t.act[a]) /\ Same(s.act[a], t.act[a]) /\ t \in Under(a)
<1> DEFINE p == s.act[a]
           q == [p EXCEPT !.ready = TRUE]
           u == SetAct(s, a, q)
           t == InformActivityReady(u, a)
<1>1. p \in ActivityState /\ q \in ActivityState
  BY TidyParts, FlagType
<1>2. RequestRunActivity(s, a) = t
  BY DEF RequestRunActivity
<1> HIDE DEF q
<1>3. Shift(s, u, a) /\ u \in Tidy /\ u.act[a] = q
  BY <1>1, SetActShift
<1> HIDE DEF u
<1>4. Shift(u, t, a) /\ Ran(p, t.act[a], At(t, a))
  BY <1>3, InformActivityReadyRan DEF Ran, q
<1> HIDE DEF t, p
<1>5. Shift(s, t, a) /\ t \in Tidy
  BY <1>3, <1>4, ShiftTransitive DEF Shift
<1>6. /\ Fit(t.act[a], At(t, a), a) /\ Asked(t.act[a])
      /\ Locks(p, t.act[a], a) /\ Same(p, t.act[a])
  BY <1>1, <1>4, RanFit DEF p
<1>7. Able(t.act[a])
  BY <1>6, SameAble DEF p
<1> QED
  BY <1>2, <1>5, <1>6, <1>7 DEF Moves, Under, p

\* Its first schedule: the flags are clear, and it is back on the scheduled queue.
LEMMA ScheduleActivityMoves ==
  ASSUME NEW a \in Activities, NEW s \in Tidy, At(s, a) = {"scheduled"},
         Fit(s.act[a], {}, a), s.act[a].initialized, ~s.act[a].scheduled,
         s.act[a].life # "new", EndsStand => s.act[a].life = "live"
  PROVE  LET t == ScheduleActivity(s, a)
         IN Moves(s, t, a) /\ Asked(t.act[a]) /\ Same(s.act[a], t.act[a]) /\ t \in Under(a)
<1> DEFINE p == s.act[a]
           trigger == IF p.trigger = "none" THEN "none" ELSE "armed"
           schedule == IF p.schedule = "none" THEN "none" ELSE "queued"
           r == [p EXCEPT !.trigger = trigger, !.schedule = schedule, !.scheduled = TRUE]
           u == SetAct(s, a, r)
<1>1. ScheduleActivity(s, a) = IF IsRunnable(r) THEN RequestRunActivity(u, a) ELSE u
  BY DEF ScheduleActivity
<1>2. /\ p \in ActivityState
      /\ trigger \in {"none", "idle", "armed", "fired"}
      /\ schedule \in {"none", "idle", "queued", "due"}
  BY TidyParts
<1> HIDE DEF trigger, schedule
<1>3. r \in ActivityState
  BY <1>2, ZenonT(40) DEF ActivityState
<1>4. /\ r.scheduled
      /\ r.running = p.running /\ r.ready = p.ready /\ r.initialized = p.initialized
      /\ r.requeue = p.requeue /\ r.power = p.power /\ r.callback = p.callback
      /\ r.intCommand = p.intCommand /\ r.sentCommand = p.sentCommand
      /\ r.adopters = p.adopters
  BY <1>2 DEF ActivityState
<1>5. Same(p, r)
  BY <1>2 DEF ActivityState, Same
<1> HIDE DEF r
<1>6. /\ ~p.running /\ ~p.ready /\ ~p.scheduled /\ p.initialized /\ p.life # "new"
      /\ Fit(p, {}, a) /\ EndsStand => p.life = "live"
  BY DEF Fit, Flags, p
<1>7. Fit(r, {"scheduled"}, a)
  <2>1. Flags(r, {"scheduled"}, a)
    BY <1>3, <1>4, <1>5, <1>6 DEF Fit, Flags, Same, Off, ReadyQueues, RunningQueues
  <2>2. /\ UpdatesStand => Wanted(r, {"scheduled"})
        /\ StartsStand => Heard(r)
    BY <1>3, <1>4, <1>5, <1>6 DEF Fit, Wanted, Heard, Same, ReadyQueues
  <2>3. EndsStand => Kept(r, {"scheduled"})
    BY <1>3, <1>4, <1>5, <1>6 DEF Kept, Same
  <2> QED
    BY <2>1, <2>2, <2>3 DEF Fit
<1>8. Locks(p, r, a) /\ Able(r)
  BY <1>3, <1>4, <1>5, <1>6 DEF Locks, Able, Abides, Same
<1>9. /\ Moves(s, u, a) /\ u \in Tidy /\ u.act[a] = r /\ At(u, a) = {"scheduled"}
      /\ u \in Under(a)
  BY <1>3, <1>4, <1>5, <1>7, <1>8, SetActMoves DEF p
<1> HIDE DEF u
<1>10. CASE IsRunnable(r)
  <2>1. LET t == RequestRunActivity(u, a)
        IN Moves(u, t, a) /\ Asked(t.act[a]) /\ Same(r, t.act[a]) /\ t \in Under(a)
    BY <1>3, <1>4, <1>5, <1>6, <1>7, <1>8, <1>9, <1>10, RequestRunActivityMoves
  <2> QED
    BY <1>1, <1>3, <1>4, <1>5, <1>9, <1>10, <2>1, MovesTransitive, SameTransitive DEF p
<1>11. CASE ~IsRunnable(r)
  BY <1>1, <1>3, <1>4, <1>5, <1>9, <1>11 DEF Asked, p
<1> QED
  BY <1>10, <1>11

LEMMA RequestScheduleActivityMoves ==
  ASSUME NEW a \in Activities, NEW s \in Tidy, ~s.act[a].scheduled,
         Fit([s.act[a] EXCEPT !.initialized = TRUE], {}, a),
         s.act[a].life # "new", EndsStand => s.act[a].life = "live"
  PROVE  LET t == RequestScheduleActivity(s, a)
         IN /\ Moves(s, t, a) /\ Asked(t.act[a]) /\ Same(s.act[a], t.act[a])
            /\ t \in Under(a) /\ t.act[a].initialized
<1> DEFINE p == s.act[a]
           q == [p EXCEPT !.initialized = TRUE]
           u == SetAct(s, a, q)
           m == MoveTo(u, a, "scheduled")
           n == MoveTo(u, a, "initialized")
<1>1. RequestScheduleActivity(s, a) = IF IsEnabled(s) THEN ScheduleActivity(m, a) ELSE n
  BY DEF RequestScheduleActivity
<1>2. p \in ActivityState /\ q \in ActivityState
  BY TidyParts, FlagType
<1>3. /\ q.initialized /\ q.scheduled = p.scheduled /\ q.life = p.life /\ Same(p, q)
      /\ q.callback = p.callback /\ q.power = p.power
  BY <1>2 DEF ActivityState, Same
<1>4. /\ Fit(q, {}, a)
      /\ {"initialized", "scheduled"} \subseteq QueueName \ {"background", "backgroundInteractive"}
  BY QueueNames
<1> HIDE DEF q
<1>5. Shift(s, u, a) /\ u \in Tidy /\ u.act[a] = q
  BY <1>2, SetActShift
<1> HIDE DEF u
<1>6. Shift(u, m, a) /\ m \in Tidy /\ m.act[a] = q /\ At(m, a) = {"scheduled"}
  BY <1>4, <1>5, MoveToShift
<1>7. Shift(u, n, a) /\ n \in Tidy /\ n.act[a] = q /\ At(n, a) = {"initialized"}
  BY <1>4, <1>5, MoveToShift
<1> HIDE DEF m, n, p
<1>8. Shift(s, m, a) /\ Shift(s, n, a) /\ Locks(p, q, a) /\ Able(q)
  <2>1. Locks(p, q, a) /\ Able(q)
    BY <1>3 DEF Locks, Able, Abides, p
  <2> QED
    BY <1>5, <1>6, <1>7, <2>1, ShiftTransitive
<1>9. LET t == ScheduleActivity(m, a)
      IN /\ Moves(s, t, a) /\ Asked(t.act[a]) /\ Same(p, t.act[a])
         /\ t \in Under(a) /\ t.act[a].initialized
  <2> DEFINE t == ScheduleActivity(m, a)
  <2>1. Moves(m, t, a) /\ Asked(t.act[a]) /\ Same(q, t.act[a]) /\ t \in Under(a)
    BY <1>3, <1>4, <1>6, ScheduleActivityMoves DEF p
  <2> HIDE DEF t
  <2>2. Shift(s, t, a) /\ Locks(p, t.act[a], a) /\ Same(p, t.act[a])
    BY <1>3, <1>6, <1>8, <2>1, ShiftTransitive, LocksTransitive, SameTransitive DEF Moves
  <2> QED
    BY <1>3, <2>1, <2>2 DEF Moves, Same, p, t
<1>10. /\ Moves(s, n, a) /\ Asked(n.act[a]) /\ Same(p, n.act[a])
       /\ n \in Under(a) /\ n.act[a].initialized
  <2>1. ~q.scheduled /\ EndsStand => q.life = "live"
    BY <1>3 DEF p
  <2>2. Fit(q, {"initialized"}, a)
    BY <1>3, <1>4, <1>8, <2>1 DEF p, Fit, Flags, Wanted, Kept, ReadyQueues, RunningQueues, Able
  <2> QED
    BY <1>3, <1>7, <1>8, <2>1, <2>2 DEF Moves, Under, Asked, IsRunnable, p
<1> QED
  BY <1>1, <1>9, <1>10 DEF p

-----------------------------------------------------------------------------
(* A change of the record that leaves it fit.                              *)

Alike(p, r) ==
  /\ r.life = p.life /\ r.initialized = p.initialized /\ r.scheduled = p.scheduled
  /\ EndsStand => (p.terminate => r.terminate)
  /\ r.extCommand = p.extCommand /\ r.intCommand = p.intCommand
  /\ r.running => p.running
  /\ r.ready => p.ready
  /\ r.requeue => r.initialized
  /\ r.callback = "calling" => p.callback = "calling"
  /\ r.sentCommand = "start" => p.sentCommand = "start" \/ r.extCommand # "none"
  /\ StartsStand => r.adopters = p.adopters
  /\ r.trigger = "armed" => p.trigger = "armed"
  /\ r.schedule = "queued" => p.schedule = "queued"
  /\ UpdatesStand => (PrerequisitesMet(p) => PrerequisitesMet(r))
  /\ (r.power = "none") = (p.power = "none")
  /\ ~Off(r) => ~Off(p) /\ r.running

LEMMA ChangeFit ==
  ASSUME NEW p, NEW r, NEW at, NEW x, Fit(p, at, x), Alike(p, r), r.life # "new",
         at = {} \/ (r.ready = p.ready /\ r.running = p.running),
         EndsStand /\ r.life = "released" /\ Exists(r) => Abides(r)
  PROVE  /\ Fit(r, at, x)
         /\ r.power = p.power => Locks(p, r, x)
<1>1. Flags(p, at, x)
  BY DEF Fit
<1>2. Flags(r, at, x) /\ (r.power = p.power => Locks(p, r, x))
  BY <1>1 DEF Flags, Alike, Locks
<1>3. /\ UpdatesStand => Wanted(r, at)
      /\ StartsStand => Heard(r)
  BY DEF Fit, Wanted, Heard, Alike
<1>4. EndsStand => Kept(r, at)
  BY DEF Fit, Kept, Alike
<1> QED
  BY <1>2, <1>3, <1>4 DEF Fit

LEMMA AlikeFit ==
  ASSUME NEW p, NEW r, NEW at, NEW x, Fit(p, at, x), Able(p), Alike(p, r),
         at = {} \/ (r.ready = p.ready /\ r.running = p.running)
  PROVE  /\ Fit(r, at, x) /\ Able(r)
         /\ r.power = p.power => Locks(p, r, x)
<1>1. Able(r)
  BY DEF Able, Abides, Alike
<1> QED
  BY <1>1, ChangeFit DEF Able

LEMMA AlikeMoves ==
  ASSUME NEW a \in Activities, NEW s \in Under(a), NEW r \in ActivityState,
         Alike(s.act[a], r), r.power = s.act[a].power,
         r.ready = s.act[a].ready, r.running = s.act[a].running
  PROVE  LET t == SetAct(s, a, r)
         IN Moves(s, t, a) /\ t \in Under(a) /\ t.act[a] = r /\ At(t, a) = At(s, a)
<1>1. s \in Tidy /\ Fit(s.act[a], At(s, a), a) /\ Able(s.act[a])
  BY UnderParts
<1>2. Fit(r, At(s, a), a) /\ Able(r) /\ Locks(s.act[a], r, a)
  BY <1>1, AlikeFit
<1> QED
  BY <1>1, <1>2, SetActMoves

-----------------------------------------------------------------------------
(* Starting, requeueing, restarting.                                       *)

LEMMA AdvanceMoves ==
  ASSUME NEW a \in Activities, NEW s \in Under(a)
  PROVE  LET t == Advance(s, a)
         IN Moves(s, t, a) /\ Asked(t.act[a]) /\ Same(s.act[a], t.act[a]) /\ t \in Under(a)
<1> DEFINE r == s.act[a]
           next == ComputeNextExternalCommand(r)
           q == BroadcastCommand(r, next)
           u == SetAct(s, a, q)
<1>1. /\ s \in Tidy /\ r \in ActivityState /\ Moves(s, s, a)
      /\ Fit(r, At(s, a), a) /\ Able(r)
  BY UnderParts
<1>2. Advance(s, a) = IF next = "start" /\ ~r.running
                      THEN IF IsRunnable(r) /\ ~r.ready THEN RequestRunActivity(s, a) ELSE s
                      ELSE u
  BY DEF Advance
<1>3. CASE next = "start" /\ ~r.running /\ IsRunnable(r) /\ ~r.ready
  BY <1>1, <1>2, <1>3, RequestRunActivityMoves
<1>4. CASE next = "start" /\ ~r.running /\ ~(IsRunnable(r) /\ ~r.ready)
  BY <1>1, <1>2, <1>4 DEF Asked, Same
<1>5. CASE ~(next = "start" /\ ~r.running)
  <2>1. q \in ActivityState
    BY <1>1, NextCommandType, BroadcastCommandType
  <2>2. next = "start" => r.extCommand = "start"
    BY DEF ComputeNextExternalCommand
  <2>3. /\ Alike(r, q) /\ q.power = r.power /\ q.ready = r.ready /\ q.running = r.running
    <3>1. r.requeue => r.initialized
      BY <1>1 DEF Fit, Flags
    <3>2. ~Off(r) => r.running
      BY <1>1 DEF Fit, Flags
    <3> HIDE DEF next
    <3> QED
      BY <1>1, <2>2, <3>1, <3>2
         DEF Alike, BroadcastCommand, ActivityState, PrerequisitesMet, Off
  <2>4. Same(r, q) /\ (IsRunnable(q) => q.running)
    <3>1. Same(r, q)
      BY <1>1 DEF Same, BroadcastCommand, ActivityState
    <3>2. IsRunnable(q) => next = "start"
      BY <1>1 DEF IsRunnable, ComputeNextExternalCommand, BroadcastCommand, ActivityState
    <3> QED
      BY <1>5, <2>3, <3>1, <3>2
  <2> HIDE DEF q, r
  <2>5. Moves(s, u, a) /\ u \in Under(a) /\ u.act[a] = q
    BY <2>1, <2>3, AlikeMoves DEF r
  <2> QED
    BY <1>2, <1>5, <2>4, <2>5 DEF Asked, r
<1> QED
  BY <1>3, <1>4, <1>5

\* Whatever it is leaving, it has no power to give back.
LEMMA RequeueActivityMoves ==
  ASSUME NEW a \in Activities, NEW s \in Tidy, Fit(s.act[a], {}, a), Able(s.act[a]),
         Off(s.act[a])
  PROVE  LET t == RequeueActivity(s, a)
         IN /\ Moves(s, t, a) /\ Asked(t.act[a]) /\ t \in Under(a)
            /\ Same([s.act[a] EXCEPT !.ending = FALSE, !.restart = FALSE], t.act[a])
<1> DEFINE o == s.act[a]
           e == [o EXCEPT !.ending = FALSE, !.restart = FALSE]
           r == [o EXCEPT !.running = FALSE, !.ending = FALSE,
                          !.restart = FALSE, !.requeue = FALSE, !.yielding = FALSE]
           q == [r EXCEPT !.ready = FALSE]
           t == SetAct(s, a, r)
           u == SetAct(t, a, q)
<1>1. o \in ActivityState /\ r \in ActivityState /\ q \in ActivityState
  BY TidyParts, FlagType
<1>2. /\ RequeueActivity(s, a)
           = IF IsRunnable(r) THEN RequestRunActivity(t, a) ELSE MoveTo(u, a, "scheduled")
  BY DEF RequeueActivity, InformActivityNotReady
<1>3. Alike(o, r) /\ ~r.running /\ r.power = o.power
  BY <1>1 DEF Alike, Off, ActivityState, PrerequisitesMet
<1>4. Alike(o, q) /\ q.power = o.power /\ ~q.running
  BY <1>1 DEF Alike, Off, ActivityState, PrerequisitesMet
<1>5. Same(e, r) /\ Same(e, q)
  BY <1>1 DEF Same, ActivityState
<1>6. IsRunnable(q) <=> IsRunnable(r)
  BY <1>1 DEF IsRunnable, PrerequisitesMet, ComputeNextExternalCommand, ActivityState
<1> HIDE DEF o, e, r, q
<1>7. /\ Fit(r, {}, a) /\ Able(r) /\ Locks(o, r, a)
      /\ Fit(q, {}, a) /\ Able(q) /\ Locks(o, q, a)
  BY <1>3, <1>4, AlikeFit DEF o
<1>8. Shift(s, t, a) /\ t \in Tidy /\ t.act[a] = r
  BY <1>1, SetActShift
<1> HIDE DEF t
<1>9. Shift(t, u, a) /\ u \in Tidy /\ u.act[a] = q
  BY <1>1, <1>8, SetActShift
<1> HIDE DEF u
<1>10. CASE IsRunnable(r)
  <2> DEFINE w == RequestRunActivity(t, a)
  <2>1. Moves(t, w, a) /\ Asked(w.act[a]) /\ Same(r, w.act[a]) /\ w \in Under(a)
    BY <1>3, <1>7, <1>8, <1>10, RequestRunActivityMoves
  <2> HIDE DEF w
  <2>2. Shift(s, w, a) /\ Locks(o, w.act[a], a) /\ Same(e, w.act[a])
    BY <1>5, <1>7, <1>8, <2>1, ShiftTransitive, LocksTransitive, SameTransitive DEF Moves
  <2> QED
    BY <1>2, <1>10, <2>1, <2>2 DEF Moves, o, e, w
<1>11. CASE ~IsRunnable(r)
  <2> DEFINE w == MoveTo(u, a, "scheduled")
  <2>1. "scheduled" \in QueueName \ {"background", "backgroundInteractive"}
    BY QueueNames
  <2>2. Shift(u, w, a) /\ w.act = u.act /\ At(w, a) = {"scheduled"} /\ w \in Tidy
    BY <1>9, <2>1, MoveToShift
  <2> HIDE DEF w
  <2>3. Shift(s, w, a)
    BY <1>8, <1>9, <2>2, ShiftTransitive
  <2>4. Fit(q, {"scheduled"}, a)
    BY <1>7, FitApart DEF Able
  <2> QED
    BY <1>2, <1>5, <1>6, <1>7, <1>9, <1>11, <2>2, <2>3, <2>4 DEF Moves, Under, Asked, o, e, w
<1> QED
  BY <1>10, <1>11

LEMMA RestartActivityMoves ==
  ASSUME NEW a \in Activities, NEW s \in Tidy, Fit(s.act[a], {}, a),
         s.act[a].life # "new", EndsStand => s.act[a].life = "live", Off(s.act[a])
  PROVE  LET t == RestartActivity(s, a)
         IN /\ Moves(s, t, a) /\ Asked(t.act[a]) /\ t \in Under(a)
            /\ t.act[a].initialized /\ t.act[a].life = s.act[a].life
            /\ t.act[a].subscriptions = s.act[a].subscriptions
            /\ t.act[a].persistCommands = s.act[a].persistCommands
            /\ (t.act[a].callback = "none") = (s.act[a].callback = "none")
<1> DEFINE o == s.act[a]
           f == [o EXCEPT !.initialized = FALSE, !.scheduled = FALSE, !.ready = FALSE,
                          !.running = FALSE, !.ending = FALSE, !.restart = FALSE,
                          !.requeue = FALSE, !.yielding = FALSE]
           p == [f EXCEPT !.intCommand = "none", !.extCommand = "none", !.sentCommand = "none"]
           i == [p EXCEPT !.initialized = TRUE]
           t == SetAct(s, a, p)
           u == RequestScheduleActivity(t, a)
           q == [u.act[a] EXCEPT !.extCommand = "start"]
           v == SetAct(u, a, q)
           w == Advance(v, a)
<1>1. RestartActivity(s, a) = w
  BY DEF RestartActivity
<1>2. o \in ActivityState
  BY TidyParts
<1>3. f \in ActivityState
  BY <1>2, FlagType
<1>4. /\ f.life = o.life /\ f.power = o.power /\ f.callback = o.callback
      /\ f.subscriptions = o.subscriptions /\ f.persistCommands = o.persistCommands
      /\ f.adopters = o.adopters /\ f.trigger = o.trigger /\ f.schedule = o.schedule
      /\ ~f.scheduled /\ ~f.ready /\ ~f.running /\ ~f.requeue
  BY <1>2 DEF ActivityState
<1> HIDE DEF f
<1>5. p \in ActivityState
  BY <1>3, CommandType DEF ActivityCommand
<1>6. /\ p.life = f.life /\ p.power = f.power /\ p.callback = f.callback
      /\ p.subscriptions = f.subscriptions /\ p.persistCommands = f.persistCommands
      /\ p.adopters = f.adopters /\ p.trigger = f.trigger /\ p.schedule = f.schedule
      /\ ~p.scheduled /\ ~p.ready /\ ~p.running /\ ~p.requeue
      /\ p.extCommand = "none" /\ p.intCommand = "none" /\ p.sentCommand = "none"
  BY <1>3, <1>4 DEF ActivityState
<1> HIDE DEF p
<1>7. /\ p.life = o.life /\ ~p.scheduled /\ p.power = o.power /\ p.callback = o.callback
      /\ p.subscriptions = o.subscriptions /\ p.persistCommands = o.persistCommands
  BY <1>4, <1>6
<1>8. /\ i.life = o.life /\ i.initialized /\ ~i.scheduled /\ ~i.ready /\ ~i.running /\ ~i.requeue
      /\ i.power = o.power /\ i.extCommand = "none" /\ i.intCommand = "none"
      /\ i.sentCommand = "none" /\ i.adopters = o.adopters
      /\ i.trigger = o.trigger /\ i.schedule = o.schedule
  BY <1>4, <1>5, <1>6 DEF ActivityState
<1> HIDE DEF i, o
<1>9. /\ Fit(o, {}, a) /\ o.life # "new" /\ Off(o)
      /\ EndsStand => o.life = "live"
  BY DEF o
<1>10. Fit(i, {}, a)
  <2>1. Flags(i, {}, a)
    BY <1>8, <1>9 DEF Fit, Flags, Off
  <2>2. /\ UpdatesStand => Wanted(i, {})
        /\ StartsStand => Heard(i)
    BY <1>8, <1>9 DEF Fit, Wanted, Heard
  <2>3. EndsStand => Kept(i, {})
    BY <1>8, <1>9 DEF Kept
  <2> QED
    BY <2>1, <2>2, <2>3 DEF Fit
<1>11. Shift(s, t, a) /\ t \in Tidy /\ t.act[a] = p
  BY <1>5, SetActShift
<1> HIDE DEF t
<1>12. /\ Moves(t, u, a) /\ Same(p, u.act[a]) /\ u \in Under(a) /\ u.act[a].initialized
  BY <1>7, <1>9, <1>10, <1>11, RequestScheduleActivityMoves DEF i
<1> HIDE DEF u
<1>13. /\ u.act[a] \in ActivityState /\ u \in Tidy
       /\ Fit(u.act[a], At(u, a), a) /\ Able(u.act[a])
  BY <1>12, UnderParts
<1>14. /\ q \in ActivityState
  BY <1>13, CommandType DEF ActivityCommand
<1>15. u.act[a].life = o.life
  BY <1>7, <1>12 DEF Same
<1> DEFINE z == u.act[a]
<1> HIDE DEF z
<1>16. /\ q.life = z.life /\ q.initialized = z.initialized /\ q.scheduled = z.scheduled
       /\ q.ready = z.ready /\ q.running = z.running /\ q.requeue = z.requeue
       /\ q.extCommand = "start" /\ q.intCommand = z.intCommand
       /\ q.power = z.power /\ q.callback = z.callback /\ q.adopters = z.adopters
       /\ q.trigger = z.trigger /\ q.schedule = z.schedule /\ q.requirement = z.requirement
       /\ q.subscriptions = z.subscriptions /\ q.persistCommands = z.persistCommands
  BY <1>13 DEF ActivityState, z
<1> HIDE DEF q
<1>17. Fit(q, At(u, a), a) /\ Able(q) /\ Locks(z, q, a)
  <2> DEFINE at == At(u, a)
  <2>1. Fit(z, at, a) /\ Able(z)
    BY <1>13 DEF z
  <2> HIDE DEF at
  <2>2. Flags(q, at, a)
    BY <2>1, <1>16 DEF Fit, Flags, Off, Able
  <2>3. /\ UpdatesStand => Wanted(q, at)
        /\ StartsStand => Heard(q)
    BY <2>1, <1>16 DEF Fit, Wanted, Heard, PrerequisitesMet
  <2>4. EndsStand => q.life = "live"
    BY <1>9, <1>15, <1>16 DEF z
  <2>5. EndsStand => Kept(q, at)
    BY <2>4 DEF Kept
  <2>6. Able(q) /\ Locks(z, q, a)
    BY <1>9, <1>15, <1>16, <2>4 DEF Able, Abides, Locks, z
  <2> QED
    BY <2>2, <2>3, <2>5, <2>6 DEF Fit, at
<1>18. Moves(u, v, a) /\ v \in Under(a) /\ v.act[a] = q
  BY <1>13, <1>14, <1>17, SetActMoves DEF z
<1> HIDE DEF v
<1>19. Moves(v, w, a) /\ Asked(w.act[a]) /\ Same(q, w.act[a]) /\ w \in Under(a)
  BY <1>18, AdvanceMoves
<1> HIDE DEF w
<1>20. Moves(t, w, a)
  BY <1>12, <1>18, <1>19, MovesTransitive
<1>21. Moves(s, w, a)
  <2>1. Shift(s, w, a)
    BY <1>11, <1>20, ShiftTransitive DEF Moves
  <2>2. Locks(o, p, a)
    BY <1>7 DEF Locks
  <2> QED
    BY <1>11, <1>20, <2>1, <2>2, LocksTransitive DEF Moves, o
<1> QED
  BY <1>1, <1>7, <1>12, <1>16, <1>19, <1>21 DEF Same, z, o

-----------------------------------------------------------------------------
(* Ending.                                                                 *)

\* What the end of an Activity leaves as it was.
Kin(p, r) ==
  /\ r.subscriptions = p.subscriptions /\ r.persistCommands = p.persistCommands
  /\ (r.callback = "none") = (p.callback = "none")
  /\ p.initialized => r.initialized

\* An Activity as its release leaves it: nobody is there to hear of it, and it
\* is not to start over.
Parted(p, r) ==
  /\ r.restart = p.restart
  /\ r.life = "released" /\ r.ending /\ r.subscriptions = {} /\ r.persistCommands = << >>
  /\ r.callback # "none" /\ r.restart => r.terminate

\* What a handler that may end a leaves: a in use, or released.
Settled(p, r) == Asked(r) /\ Awaited(r) /\ (Able(r) \/ Parted(p, r))

LEMMA KinTransitive ==
  ASSUME NEW p, NEW q, NEW r, Kin(p, q), Kin(q, r)
  PROVE  Kin(p, r)
BY DEF Kin

LEMMA PartedParts ==
  ASSUME NEW p, NEW r, Parted(p, r)
  PROVE  ~Exists(r) /\ Asked(r) /\ Awaited(r)
BY DEF Parted, Exists, Awaited, Due, Promises, Asked, IsRunnable

LEMMA InformActivityEndShift ==
  ASSUME NEW a \in Activities, NEW s \in Tidy
  PROVE  LET t == InformActivityEnd(s, a)
         IN /\ Shift(s, t, a) /\ t \in Tidy /\ t.act[a] = s.act[a] /\ At(t, a) = {"ended"}
<1> DEFINE u == MoveTo(s, a, "ended")
           t == CheckReadyQueue(u)
<1>1. "ended" \in QueueName \ {"background", "backgroundInteractive"}
  BY QueueNames
<1>2. Shift(s, u, a) /\ u \in Tidy /\ u.act = s.act /\ At(u, a) = {"ended"}
  BY <1>1, MoveToShift
<1> HIDE DEF u
<1>3. Shift(u, t, a) /\ t \in Tidy /\ Passed(u, t, a)
  BY <1>2, CheckReadyQueueShift
<1> HIDE DEF t
<1>4. t.act[a] = u.act[a] /\ At(t, a) = At(u, a)
  BY <1>2, <1>3, PassedAt
<1> QED
  BY <1>2, <1>3, <1>4, ShiftTransitive DEF InformActivityEnd, u, t

LEMMA ReleaseActivityMoves ==
  ASSUME NEW a \in Activities, NEW s \in Tidy, Fit(s.act[a], {}, a), Able(s.act[a]),
         Off(s.act[a]),
         s.act[a].trigger # "armed", s.act[a].schedule # "queued",
         Parted(s.act[a], [s.act[a] EXCEPT !.life = "released"])
  PROVE  LET t == ReleaseActivity(s, a)
             r == t.act[a]
         IN /\ Moves(s, t, a) /\ t \in Tidy /\ Parted(s.act[a], r) /\ Kin(s.act[a], r)
<1> DEFINE p == s.act[a]
           r == [p EXCEPT !.life = "released"]
           u == Unlink(s, a)
           v == SetAct(u, a, r)
           t == CheckReadyQueue(v)
<1>1. p \in ActivityState
  BY TidyParts
<1>2. r \in ActivityState
  BY <1>1 DEF ActivityState
<1>3. /\ r.life = "released" /\ r.initialized = p.initialized /\ r.scheduled = p.scheduled
      /\ r.ready = p.ready /\ r.running = p.running /\ r.requeue = p.requeue
      /\ r.extCommand = p.extCommand /\ r.intCommand = p.intCommand
      /\ r.sentCommand = p.sentCommand
      /\ r.subscriptions = p.subscriptions /\ r.adopters = p.adopters
      /\ r.persistCommands = p.persistCommands /\ r.restart = p.restart
      /\ r.trigger = p.trigger /\ r.schedule = p.schedule
      /\ r.callback = p.callback /\ r.power = p.power
  BY <1>1 DEF ActivityState
<1>4. Shift(s, u, a) /\ u \in Tidy /\ u.act = s.act /\ At(u, a) = {}
  BY UnlinkShift
<1>5. /\ Fit(p, {}, a) /\ Off(p) /\ p.trigger # "armed" /\ p.schedule # "queued" /\ Parted(p, r)
  OBVIOUS
<1>6. t = ReleaseActivity(s, a)
  BY <1>4 DEF ReleaseActivity
<1> HIDE DEF r, u, p
<1>7. Fit(r, {}, a) /\ Locks(p, r, a) /\ Kin(p, r)
  <2>1. Flags(r, {}, a)
    BY <1>3, <1>5 DEF Fit, Flags, Off
  <2>2. /\ UpdatesStand => Wanted(r, {})
        /\ StartsStand => Heard(r)
    BY <1>3, <1>5 DEF Fit, Wanted, Heard
  <2>3. Kept(r, {})
    BY <1>3, <1>5, PartedParts DEF Kept, Off
  <2> QED
    BY <1>3, <2>1, <2>2, <2>3 DEF Fit, Locks, Kin
<1>8. Shift(u, v, a) /\ v \in Tidy /\ v.act[a] = r /\ At(v, a) = {}
  BY <1>2, <1>4, SetActShift
<1> HIDE DEF v
<1>9. Shift(v, t, a) /\ t \in Tidy /\ Passed(v, t, a)
  BY <1>8, CheckReadyQueueShift
<1> HIDE DEF t
<1>10. t.act[a] = r /\ At(t, a) = {}
  BY <1>8, <1>9, PassedAt
<1>11. Shift(s, t, a)
  BY <1>4, <1>8, <1>9, ShiftTransitive
<1> QED
  BY <1>5, <1>6, <1>7, <1>9, <1>10, <1>11 DEF Moves, p

LEMMA FinishMoves ==
  ASSUME NEW a \in Activities, NEW s \in Tidy, Fit(s.act[a], {}, a), Able(s.act[a]),
         Off(s.act[a]), s.act[a].ending,
         s.act[a].subscriptions = {}, s.act[a].persistCommands = << >>,
         ShouldRequeue(s.act[a])
           \/ (s.act[a].trigger # "armed" /\ s.act[a].schedule # "queued")
  PROVE  LET t == Finish(s, a)
         IN /\ Moves(s, t, a) /\ t \in Tidy /\ Settled(s.act[a], t.act[a]) /\ Kin(s.act[a], t.act[a])
<1> DEFINE p == s.act[a]
           i == InformActivityEnd(s, a)
<1>1. p \in ActivityState
  BY TidyParts
<1>2. Shift(s, i, a) /\ i \in Tidy /\ i.act[a] = p
  BY InformActivityEndShift
<1>3. Finish(s, a) = IF ShouldRequeue(p) THEN RequeueActivity(i, a)
                     ELSE IF ShouldRestart(p, a) THEN RestartActivity(i, a)
                     ELSE ReleaseActivity(i, a)
  BY DEF Finish
<1> HIDE DEF i
<1>4. ASSUME NEW t \in Tidy, Moves(i, t, a)
      PROVE  Moves(s, t, a)
  BY <1>2, <1>4, ShiftTransitive DEF Moves, p
<1>5. /\ Fit(p, {}, a) /\ Able(p) /\ Off(p) /\ p.ending /\ p.life # "new"
      /\ p.subscriptions = {} /\ p.persistCommands = << >>
      /\ ShouldRequeue(p) \/ (p.trigger # "armed" /\ p.schedule # "queued")
      /\ p.requeue => p.initialized
  BY DEF Able, Fit, Flags
<1>6. CASE ShouldRequeue(p)
  <2> DEFINE t == RequeueActivity(i, a)
             e == [p EXCEPT !.ending = FALSE, !.restart = FALSE]
  <2>1. Moves(i, t, a) /\ Asked(t.act[a]) /\ t \in Under(a) /\ Same(e, t.act[a])
    BY <1>2, <1>5, RequeueActivityMoves DEF p
  <2>2. /\ e.subscriptions = p.subscriptions /\ e.persistCommands = p.persistCommands
        /\ e.callback = p.callback /\ e.initialized = p.initialized
    BY <1>1 DEF ActivityState
  <2> HIDE DEF t, e
  <2>3. Kin(p, t.act[a])
    BY <2>1, <2>2 DEF Same, Kin
  <2>4. Awaited(t.act[a])
    BY <1>5, <1>6, <2>3 DEF Awaited, Due, Promises, Kin, ShouldRequeue
  <2>5. t \in Tidy /\ Able(t.act[a])
    BY <2>1, UnderParts
  <2> QED
    BY <1>3, <1>4, <1>6, <2>1, <2>3, <2>4, <2>5 DEF Settled, p, t
<1>7. CASE ~ShouldRequeue(p) /\ ShouldRestart(p, a)
  <2> DEFINE t == RestartActivity(i, a)
  <2>1. EndsStand => p.life = "live"
    BY <1>5, <1>7 DEF ShouldRestart, Able, Abides
  <2>2. /\ Moves(i, t, a) /\ Asked(t.act[a]) /\ t \in Under(a) /\ t.act[a].initialized
        /\ Kin(p, t.act[a])
    BY <1>2, <1>5, <2>1, RestartActivityMoves DEF Kin, p
  <2> HIDE DEF t
  <2>3. Awaited(t.act[a])
    BY <1>7, <2>2 DEF Awaited, Due, Promises, Kin, ShouldRestart
  <2>4. t \in Tidy /\ Able(t.act[a])
    BY <2>2, UnderParts
  <2> QED
    BY <1>3, <1>4, <1>7, <2>2, <2>3, <2>4 DEF Settled, p, t
<1>8. CASE ~ShouldRequeue(p) /\ ~ShouldRestart(p, a)
  <2> DEFINE t == ReleaseActivity(i, a)
             r == [p EXCEPT !.life = "released"]
  <2>1. /\ r.life = "released" /\ r.ending = p.ending /\ r.subscriptions = p.subscriptions
        /\ r.persistCommands = p.persistCommands /\ r.callback = p.callback
        /\ r.restart = p.restart /\ r.terminate = p.terminate
    BY <1>1 DEF ActivityState
  <2> HIDE DEF r
  <2>2. Parted(p, r)
    BY <1>5, <1>8, <2>1 DEF Parted, ShouldRestart
  <2>3. Moves(i, t, a) /\ t \in Tidy /\ Parted(p, t.act[a]) /\ Kin(p, t.act[a])
    BY <1>2, <1>5, <1>8, <2>2, ReleaseActivityMoves DEF p, r
  <2> HIDE DEF t
  <2> QED
    BY <1>3, <1>4, <1>8, <2>3, PartedParts DEF Settled, p, t
<1> QED
  BY <1>6, <1>7, <1>8

LEMMA EndActivityMoves ==
  ASSUME NEW a \in Activities, NEW s \in Under(a)
  PROVE  LET t == EndActivity(s, a)
         IN /\ Moves(s, t, a) /\ t \in Tidy /\ Settled(s.act[a], t.act[a]) /\ Kin(s.act[a], t.act[a])
            /\ s.act[a].subscriptions # {} \/ s.act[a].persistCommands # << >>
                 => t \in Under(a)
<1> DEFINE p == s.act[a]
           e == [p EXCEPT !.ending = TRUE]
           r == Disarm(e)
           q == [r EXCEPT !.power = "unlocking"]
           t == SetAct(s, a, r)
           u == SetAct(t, a, q)
<1>1. EndActivity(s, a) = IF r.subscriptions # {} THEN t
                          ELSE IF r.power \notin {"none", "unlocked"} THEN u
                          ELSE IF r.persistCommands # << >> THEN t
                          ELSE Finish(t, a)
  BY DEF EndActivity
<1>2. s \in Tidy /\ p \in ActivityState /\ Fit(p, At(s, a), a) /\ Able(p) /\ Moves(s, s, a)
  BY UnderParts
<1>3. e \in ActivityState
  BY <1>2, FlagType
<1>4. /\ e.life = p.life /\ e.initialized = p.initialized /\ e.scheduled = p.scheduled
      /\ e.ready = p.ready /\ e.running = p.running /\ e.requeue = p.requeue
      /\ e.ending /\ e.terminate = p.terminate /\ e.restart = p.restart
      /\ e.extCommand = p.extCommand /\ e.intCommand = p.intCommand
      /\ e.sentCommand = p.sentCommand
      /\ e.subscriptions = p.subscriptions /\ e.adopters = p.adopters
      /\ e.persistCommands = p.persistCommands
      /\ e.trigger = p.trigger /\ e.schedule = p.schedule /\ e.requirement = p.requirement
      /\ e.callback = p.callback /\ e.power = p.power
  BY <1>2 DEF ActivityState
<1> HIDE DEF e, p
<1>5. r \in ActivityState
  BY <1>3, DisarmType
<1>6. /\ r.life = e.life /\ r.initialized = e.initialized /\ r.scheduled = e.scheduled
      /\ r.ready = e.ready /\ r.running = e.running /\ r.requeue = e.requeue
      /\ r.ending = e.ending /\ r.terminate = e.terminate /\ r.restart = e.restart
      /\ r.extCommand = e.extCommand /\ r.intCommand = e.intCommand
      /\ r.sentCommand = e.sentCommand
      /\ r.subscriptions = e.subscriptions /\ r.adopters = e.adopters
      /\ r.persistCommands = e.persistCommands
      /\ r.requirement = e.requirement
      /\ r.callback = e.callback /\ r.power = e.power
      /\ r.trigger \in {e.trigger, "idle"} /\ (r.trigger # e.trigger => e.trigger = "armed")
      /\ r.schedule \in {e.schedule, "idle"} /\ (r.schedule # e.schedule => e.schedule = "queued")
      /\ ShouldRequeue(e) \/ (r.trigger # "armed" /\ r.schedule # "queued")
  <2>1. CASE ShouldRequeue(e)
    BY <2>1 DEF Disarm
  <2>2. CASE ~ShouldRequeue(e)
    <3>1. r = [e EXCEPT !.trigger = IF e.trigger = "armed" THEN "idle" ELSE e.trigger,
                        !.schedule = IF e.schedule = "queued" THEN "idle" ELSE e.schedule]
      BY <2>2 DEF Disarm
    <3> QED
      BY <1>3, <2>2, <3>1 DEF ActivityState
  <2> QED
    BY <2>1, <2>2
<1>7. ShouldRequeue(r) = ShouldRequeue(e)
  BY <1>6 DEF ShouldRequeue
<1> HIDE DEF r
<1>8. /\ q.life = r.life /\ q.initialized = r.initialized /\ q.scheduled = r.scheduled
      /\ q.ready = r.ready /\ q.running = r.running /\ q.requeue = r.requeue
      /\ q.ending = r.ending /\ q.terminate = r.terminate /\ q.restart = r.restart
      /\ q.extCommand = r.extCommand /\ q.intCommand = r.intCommand
      /\ q.sentCommand = r.sentCommand
      /\ q.subscriptions = r.subscriptions /\ q.adopters = r.adopters
      /\ q.persistCommands = r.persistCommands
      /\ q.requirement = r.requirement /\ q.trigger = r.trigger /\ q.schedule = r.schedule
      /\ q.callback = r.callback /\ q.power = "unlocking"
  BY <1>5 DEF ActivityState
<1>9. q \in ActivityState
  BY <1>5, PowerType
<1> HIDE DEF q
<1>10. Flags(p, At(s, a), a)
  BY <1>2 DEF Fit
<1>11. Alike(p, r)
  BY <1>4, <1>6, <1>10 DEF Alike, Flags, Off, PrerequisitesMet
<1>12. ~Off(r) => Alike(p, q) /\ Locks(p, q, a)
  BY <1>4, <1>6, <1>8, <1>10, <1>5 DEF Alike, Flags, Off, PrerequisitesMet, Locks, ActivityState
<1>13. Kin(p, r) /\ Kin(p, q) /\ Asked(r) /\ Awaited(r) /\ Asked(q) /\ Awaited(q)
  BY <1>4, <1>6, <1>8 DEF Kin, Asked, Awaited, Due, Promises, IsRunnable
<1>14. Moves(s, t, a) /\ t \in Under(a) /\ t.act[a] = r
  BY <1>4, <1>5, <1>6, <1>11, AlikeMoves DEF p
<1>15. ~Off(r) => Moves(s, u, a) /\ u \in Under(a) /\ u.act[a] = q
  <2>1. SetAct(t, a, q) = SetAct(s, a, q)
    BY <1>2 DEF SetAct, Tidy, ManagerState
  <2> SUFFICES ASSUME ~Off(r)
               PROVE  Moves(s, u, a) /\ u \in Under(a) /\ u.act[a] = q
    OBVIOUS
  <2>2. Fit(q, At(s, a), a) /\ Able(q) /\ Locks(p, q, a)
    BY <1>2, <1>4, <1>6, <1>8, <1>12, AlikeFit
  <2> QED
    BY <1>2, <1>9, <2>1, <2>2, SetActMoves DEF p
<1> HIDE DEF t, u
<1>16. t \in Tidy /\ Able(r) /\ (~Off(r) => u \in Tidy /\ Able(q))
  BY <1>14, <1>15, UnderParts
<1>17. CASE r.subscriptions # {}
  BY <1>1, <1>13, <1>14, <1>16, <1>17 DEF Settled, p
<1>18. CASE r.subscriptions = {} /\ ~Off(r)
  BY <1>1, <1>13, <1>15, <1>16, <1>18 DEF Settled, Off, p
<1>19. CASE r.subscriptions = {} /\ Off(r) /\ r.persistCommands # << >>
  BY <1>1, <1>13, <1>14, <1>16, <1>19 DEF Settled, Off, p
<1>20. CASE r.subscriptions = {} /\ Off(r) /\ r.persistCommands = << >>
  <2> DEFINE v == Finish(t, a)
  <2>1. Fit(r, {}, a)
    BY <1>14, UnderParts
  <2>2. Moves(t, v, a) /\ v \in Tidy /\ Settled(r, v.act[a]) /\ Kin(r, v.act[a])
    BY <1>4, <1>6, <1>7, <1>14, <1>16, <1>20, <2>1, FinishMoves
  <2>3. EndActivity(s, a) = v
    BY <1>1, <1>20 DEF Off
  <2> HIDE DEF v
  <2>4. Moves(s, v, a) /\ Kin(p, v.act[a]) /\ Settled(p, v.act[a])
    BY <1>4, <1>6, <1>13, <1>14, <2>2, MovesTransitive, KinTransitive DEF Settled, Parted
  <2> QED
    BY <1>4, <1>6, <1>20, <2>2, <2>3, <2>4 DEF p
<1> QED
  BY <1>17, <1>18, <1>19, <1>20

-----------------------------------------------------------------------------
(* Commands.                                                               *)

LEMMA StoredFit ==
  ASSUME NEW p \in ActivityState, NEW at, NEW x, Fit(p, at, x), Able(p),
         NEW command \in ActivityCommand \ {"none"}, NEW internal \in BOOLEAN,
         internal => command = "cancel", StartsStand => command # "pause",
         ~AlreadyEnded(p, internal)
  PROVE  LET r == IF internal THEN [p EXCEPT !.intCommand = command]
                  ELSE [p EXCEPT !.extCommand = command]
         IN /\ r \in ActivityState /\ Fit(r, at, x) /\ Able(r)
            /\ r.power = p.power /\ r.ready = p.ready /\ r.running = p.running
            /\ r.life = p.life /\ r.ending = p.ending /\ r.initialized = p.initialized
            /\ r.callback = p.callback /\ r.subscriptions = p.subscriptions
            /\ r.persistCommands = p.persistCommands
            /\ r.scheduled = p.scheduled /\ r.trigger = p.trigger /\ r.schedule = p.schedule
            /\ r.requirement = p.requirement /\ r.sentCommand = p.sentCommand
            /\ r.requeue = p.requeue /\ r.adopters = p.adopters
            /\ r.terminate = p.terminate /\ r.restart = p.restart
            /\ r.intCommand = (IF internal THEN command ELSE p.intCommand)
            /\ r.extCommand = (IF internal THEN p.extCommand ELSE command)
<1> DEFINE r == IF internal THEN [p EXCEPT !.intCommand = command]
                ELSE [p EXCEPT !.extCommand = command]
<1>1. r \in ActivityState
  BY CommandType
<1>2. /\ r.power = p.power /\ r.ready = p.ready /\ r.running = p.running
      /\ r.life = p.life /\ r.ending = p.ending /\ r.initialized = p.initialized
      /\ r.callback = p.callback /\ r.subscriptions = p.subscriptions
      /\ r.persistCommands = p.persistCommands
      /\ r.scheduled = p.scheduled /\ r.trigger = p.trigger /\ r.schedule = p.schedule
      /\ r.requirement = p.requirement /\ r.sentCommand = p.sentCommand
      /\ r.requeue = p.requeue /\ r.adopters = p.adopters
      /\ r.terminate = p.terminate /\ r.restart = p.restart
      /\ r.intCommand = (IF internal THEN command ELSE p.intCommand)
      /\ r.extCommand = (IF internal THEN p.extCommand ELSE command)
  BY DEF ActivityState
<1> HIDE DEF r
<1>3. Flags(r, at, x)
  BY <1>2 DEF Fit, Flags, Off, Able
<1>4. /\ UpdatesStand => Wanted(r, at)
      /\ StartsStand => Heard(r)
  BY <1>2 DEF Fit, Wanted, Heard, PrerequisitesMet
<1>5. Abides(p) => Abides(r)
  BY <1>2 DEF Abides, AlreadyEnded
<1>6. Able(r)
  BY <1>2, <1>5 DEF Able
<1>7. EndsStand => Kept(r, at)
  BY <1>2, <1>5, <1>6 DEF Fit, Kept, Able, Off
<1> QED
  BY <1>1, <1>2, <1>3, <1>4, <1>6, <1>7 DEF Fit, r

\* What is accepted now was not accepted before.
LEMMA EndedAsked ==
  ASSUME NEW p, NEW internal \in BOOLEAN, AlreadyEnded(p, internal)
  PROVE  Asked(p)
BY DEF AlreadyEnded, Asked, IsRunnable, ComputeNextExternalCommand, FinalCommand

LEMMA SendCommandMoves ==
  ASSUME NEW a \in Activities, NEW s \in Under(a),
         NEW command \in ActivityCommand \ {"none"}, NEW internal \in BOOLEAN,
         internal => command = "cancel", StartsStand => command # "pause"
  PROVE  LET t == SendCommand(s, a, command, internal)
             p == s.act[a]
             r == t.act[a]
         IN /\ Moves(s, t, a) /\ t \in Tidy /\ Kin(p, r)
            /\ StartsStand /\ (command = "start" => Asked(p)) => Asked(r)
            /\ Awaited(p) => Awaited(r)
            /\ Able(r) \/ (Parted(p, r) /\ ~p.ending)
            /\ p.subscriptions # {} \/ p.persistCommands # << >> => t \in Under(a)
            /\ ~internal /\ command = "start" => r.initialized \/ r.ending
            /\ p.ending => r.ending
<1> DEFINE p == s.act[a]
           first == ~internal /\ command = "start" /\ ~p.initialized /\ ~p.ending
           t == IF first THEN RequestScheduleActivity(s, a) ELSE s
           q == t.act[a]
           r == IF internal THEN [q EXCEPT !.intCommand = command]
                ELSE [q EXCEPT !.extCommand = command]
           next == ComputeNextExternalCommand(r)
           c == BroadcastCommand(r, next)
           u == SetAct(t, a, r)
           v == SetAct(t, a, c)
<1>1. SendCommand(s, a, command, internal)
        = IF AlreadyEnded(q, internal) THEN t
          ELSE IF r.ending \/ next = r.sentCommand THEN u
          ELSE IF next \in FinalCommand THEN EndActivity(v, a)
          ELSE Advance(u, a)
  BY DEF SendCommand
<1>2. s \in Tidy /\ p \in ActivityState /\ Fit(p, At(s, a), a) /\ Fit(p, {}, a) /\ Able(p) /\ Moves(s, s, a)
  BY UnderParts
<1>3. /\ Moves(s, t, a) /\ t \in Under(a) /\ Same(p, q)
      /\ first => q.initialized /\ Asked(q)
      /\ ~first => q = p
  <2>1. CASE first
    <3> DEFINE i == [p EXCEPT !.initialized = TRUE]
    <3>1. /\ i.power = p.power /\ i.ready = p.ready /\ i.running = p.running
          /\ i.life = p.life /\ i.initialized
          /\ i.callback = p.callback /\ i.subscriptions = p.subscriptions
          /\ i.persistCommands = p.persistCommands
          /\ i.scheduled = p.scheduled /\ i.trigger = p.trigger /\ i.schedule = p.schedule
          /\ i.requirement = p.requirement /\ i.sentCommand = p.sentCommand
          /\ i.requeue = p.requeue /\ i.adopters = p.adopters
          /\ i.terminate = p.terminate
          /\ i.intCommand = p.intCommand /\ i.extCommand = p.extCommand
      BY <1>2 DEF ActivityState
    <3> HIDE DEF i
    <3>2. EndsStand => p.life = "live"
      BY <1>2, <2>1 DEF Able, Abides
    <3>3. ~p.scheduled /\ p.life # "new"
      BY <1>2, <2>1 DEF Fit, Flags, Able
    <3>4. Flags(i, {}, a)
      BY <1>2, <3>1, <3>3 DEF Fit, Flags, Off
    <3>5. /\ UpdatesStand => Wanted(i, {})
          /\ StartsStand => Heard(i)
      BY <1>2, <3>1 DEF Fit, Wanted, Heard
    <3>6. EndsStand => Kept(i, {})
      BY <3>1, <3>2 DEF Kept
    <3>7. Fit(i, {}, a)
      BY <3>4, <3>5, <3>6 DEF Fit
    <3> QED
      BY <1>2, <2>1, <3>2, <3>3, <3>7, RequestScheduleActivityMoves DEF i
  <2>2. CASE ~first
    BY <1>2, <2>2 DEF Same
  <2> QED
    BY <2>1, <2>2
<1>4. q.ending = p.ending /\ q.restart = p.restart /\ Kin(p, q) /\ (Awaited(p) => Awaited(q))
  BY <1>3, SameAble DEF Same, Kin
<1>5. ~internal /\ command = "start" => q.initialized \/ q.ending
  BY <1>3, <1>4
<1>6. Asked(p) => Asked(q)
  BY <1>3
<1> HIDE DEF t, p, first
<1>7. /\ t \in Tidy /\ q \in ActivityState /\ Fit(q, At(t, a), a) /\ Able(q)
  BY <1>3, UnderParts
<1>8. CASE AlreadyEnded(q, internal)
  BY <1>1, <1>3, <1>4, <1>5, <1>7, <1>8, EndedAsked DEF p
<1>9. CASE ~AlreadyEnded(q, internal)
  <2> HIDE DEF q
  <2>1. /\ r \in ActivityState /\ Fit(r, At(t, a), a) /\ Able(r)
        /\ r.power = q.power /\ r.ready = q.ready /\ r.running = q.running
        /\ r.life = q.life /\ r.ending = q.ending /\ r.initialized = q.initialized
        /\ r.callback = q.callback /\ r.subscriptions = q.subscriptions
        /\ r.persistCommands = q.persistCommands
        /\ r.scheduled = q.scheduled /\ r.trigger = q.trigger /\ r.schedule = q.schedule
        /\ r.requirement = q.requirement /\ r.sentCommand = q.sentCommand /\ r.restart = q.restart
        /\ r.intCommand = (IF internal THEN command ELSE q.intCommand)
        /\ r.extCommand = (IF internal THEN q.extCommand ELSE command)
    BY <1>7, <1>9, StoredFit
  <2> HIDE DEF r
  <2>2. /\ Kin(p, r) /\ (Awaited(p) => Awaited(r))
        /\ ~internal /\ command = "start" => r.initialized \/ r.ending
    BY <1>4, <1>5, <2>1 DEF Kin, Awaited, Due, Promises
  <2>3. Locks(q, r, a)
    BY <2>1 DEF Locks
  <2>4. Moves(t, u, a) /\ u \in Under(a) /\ u.act[a] = r
    BY <1>7, <2>1, <2>3, SetActMoves DEF q
  <2>5. Moves(s, u, a)
    BY <1>3, <2>4, MovesTransitive
  <2> HIDE DEF u
  <2>6. CASE r.ending \/ next = r.sentCommand
    <3>1. StartsStand /\ (command = "start" => Asked(p)) => Asked(r)
      <4> SUFFICES ASSUME StartsStand, command = "start" => Asked(p), IsRunnable(r)
                   PROVE  r.running \/ r.ready
        BY DEF Asked
      <4>1. ~r.ending /\ next = "start" /\ r.extCommand = "start"
        BY DEF IsRunnable, ComputeNextExternalCommand
      <4>2. ~internal
        BY <2>1 DEF IsRunnable, ComputeNextExternalCommand
      <4>3. q.sentCommand = "start" /\ q.extCommand = "start"
        BY <1>7, <1>9, <2>1, <2>6, <4>1, <4>2
           DEF Fit, Flags, Heard, AlreadyEnded, ActivityState, ActivityCommand
      <4>4. IsRunnable(q)
        BY <2>1, <4>1, <4>2, <4>3
           DEF IsRunnable, ComputeNextExternalCommand, PrerequisitesMet
      <4> QED
        BY <1>6, <2>1, <4>1, <4>2, <4>4 DEF Asked
    <3>2. u \in Tidy
      BY <2>4, UnderParts
    <3> QED
      BY <1>1, <1>4, <1>9, <2>1, <2>2, <2>4, <2>5, <2>6, <3>1, <3>2 DEF p
  <2>7. CASE ~(r.ending \/ next = r.sentCommand) /\ next \in FinalCommand
    <3>1. c \in ActivityState
      BY <2>1, NextCommandType, BroadcastCommandType
    <3>2. /\ Alike(r, c) /\ c.power = r.power /\ c.ready = r.ready /\ c.running = r.running
          /\ Kin(r, c) /\ c.restart = r.restart
      <4>1. r.requeue => r.initialized
        BY <2>1 DEF Fit, Flags
      <4>2. ~Off(r) => r.running
        BY <2>1 DEF Fit, Flags
      <4>3. next # "start"
        BY <2>7 DEF FinalCommand
      <4> HIDE DEF next
      <4> QED
        BY <2>1, <4>1, <4>2, <4>3
           DEF Alike, Kin, BroadcastCommand, ActivityState, PrerequisitesMet, Off
    <3> HIDE DEF c
    <3>3. v = SetAct(u, a, c)
      BY <1>7 DEF SetAct, Tidy, ManagerState, u
    <3>4. Moves(u, v, a) /\ v \in Under(a) /\ v.act[a] = c
      BY <2>4, <3>1, <3>2, <3>3, AlikeMoves
    <3> HIDE DEF v
    <3> DEFINE w == EndActivity(v, a)
    <3>5. /\ Moves(v, w, a) /\ w \in Tidy /\ Settled(c, w.act[a]) /\ Kin(c, w.act[a])
          /\ c.subscriptions # {} \/ c.persistCommands # << >> => w \in Under(a)
      BY <3>4, EndActivityMoves
    <3> HIDE DEF w
    <3>6. Moves(s, w, a) /\ Kin(p, w.act[a])
      BY <2>2, <2>5, <3>2, <3>4, <3>5, MovesTransitive, KinTransitive
    <3>7. ~internal /\ command = "start" => w.act[a].initialized
      BY <2>2, <2>7, <3>2, <3>5 DEF Kin
    <3>8. p.subscriptions # {} \/ p.persistCommands # << >> => w \in Under(a)
      BY <2>2, <3>2, <3>5 DEF Kin
    <3>9. ~p.ending /\ c.restart = p.restart
      BY <1>4, <2>1, <2>7, <3>2
    <3> QED
      BY <1>1, <1>9, <2>7, <3>5, <3>6, <3>7, <3>8, <3>9 DEF Settled, Parted, p, w
  <2>8. CASE ~(r.ending \/ next = r.sentCommand) /\ next \notin FinalCommand
    <3> DEFINE w == Advance(u, a)
    <3>1. Moves(u, w, a) /\ Asked(w.act[a]) /\ Same(r, w.act[a]) /\ w \in Under(a)
      BY <2>4, AdvanceMoves
    <3> HIDE DEF w
    <3>2. Moves(s, w, a) /\ w \in Tidy /\ Able(w.act[a])
      BY <2>5, <3>1, MovesTransitive, UnderParts
    <3>3. /\ Kin(p, w.act[a]) /\ (Awaited(p) => Awaited(w.act[a]))
          /\ ~internal /\ command = "start" => w.act[a].initialized
      BY <2>2, <2>8, <3>1, SameAble DEF Same, Kin
    <3> QED
      BY <1>1, <1>4, <1>9, <2>1, <2>8, <3>1, <3>2, <3>3 DEF p, w
  <2> QED
    BY <2>6, <2>7, <2>8
<1> QED
  BY <1>8, <1>9

\* A prerequisite came, or went.
LEMMA RunIfRunnableMoves ==
  ASSUME NEW a \in Activities, NEW s \in Under(a)
  PROVE  LET t == RunIfRunnable(s, a)
         IN Moves(s, t, a) /\ Asked(t.act[a]) /\ Same(s.act[a], t.act[a]) /\ t \in Under(a)
<1> DEFINE r == s.act[a]
<1>1. /\ s \in Tidy /\ Fit(r, At(s, a), a) /\ Able(r) /\ Moves(s, s, a)
  BY UnderParts
<1>2. CASE ~r.running /\ ~r.ready /\ IsRunnable(r)
  BY <1>1, <1>2, RequestRunActivityMoves DEF RunIfRunnable
<1>3. CASE ~(~r.running /\ ~r.ready /\ IsRunnable(r))
  BY <1>1, <1>3 DEF RunIfRunnable, Asked, Same
<1> QED
  BY <1>2, <1>3

LEMMA WithdrawMoves ==
  ASSUME NEW a \in Activities, NEW s \in Under(a)
  PROVE  LET t == WithdrawIfReady(SetAct(s, a, [s.act[a] EXCEPT !.requirement = "unmet"]), a)
         IN /\ Moves(s, t, a) /\ Asked(t.act[a]) /\ Same(s.act[a], t.act[a]) /\ t \in Under(a)
<1> DEFINE p == s.act[a]
           r == [p EXCEPT !.requirement = "unmet"]
           q == [r EXCEPT !.ready = FALSE]
           u == SetAct(s, a, r)
           v == SetAct(u, a, q)
           w == MoveTo(v, a, "scheduled")
           t == WithdrawIfReady(u, a)
<1>1. /\ s \in Tidy /\ p \in ActivityState /\ Fit(p, At(s, a), a) /\ Fit(p, {}, a) /\ Able(p)
  BY UnderParts
<1>2. r \in ActivityState
  BY <1>1, RequirementType
<1>3. q \in ActivityState
  BY <1>2, FlagType
<1>4. /\ r.life = p.life /\ r.initialized = p.initialized /\ r.scheduled = p.scheduled
      /\ r.ready = p.ready /\ r.running = p.running /\ r.ending = p.ending
      /\ r.requeue = p.requeue /\ r.restart = p.restart /\ r.terminate = p.terminate
      /\ r.extCommand = p.extCommand /\ r.intCommand = p.intCommand
      /\ r.sentCommand = p.sentCommand
      /\ r.subscriptions = p.subscriptions /\ r.adopters = p.adopters
      /\ r.persistCommands = p.persistCommands
      /\ r.trigger = p.trigger /\ r.schedule = p.schedule /\ r.requirement = "unmet"
      /\ r.callback = p.callback /\ r.power = p.power
  BY <1>1 DEF ActivityState
<1> HIDE DEF r
<1>5. /\ q.life = r.life /\ q.initialized = r.initialized /\ q.scheduled = r.scheduled
      /\ ~q.ready /\ q.running = r.running /\ q.ending = r.ending
      /\ q.requeue = r.requeue /\ q.restart = r.restart /\ q.terminate = r.terminate
      /\ q.extCommand = r.extCommand /\ q.intCommand = r.intCommand
      /\ q.sentCommand = r.sentCommand
      /\ q.subscriptions = r.subscriptions /\ q.adopters = r.adopters
      /\ q.persistCommands = r.persistCommands
      /\ q.trigger = r.trigger /\ q.schedule = r.schedule /\ q.requirement = r.requirement
      /\ q.callback = r.callback /\ q.power = r.power
  BY <1>2 DEF ActivityState
<1> HIDE DEF q, p
<1>6. Same(p, r) /\ Same(p, q) /\ Locks(p, r, a) /\ Locks(p, q, a)
  BY <1>4, <1>5 DEF Same, Locks
<1>7. Able(r) /\ Able(q)
  BY <1>1, <1>6, SameAble
<1>8. Asked(r) /\ Asked(q)
  BY <1>4, <1>5 DEF Asked, IsRunnable, PrerequisitesMet
<1>9. Shift(s, u, a) /\ u \in Tidy /\ u.act[a] = r /\ At(u, a) = At(s, a)
  BY <1>1, <1>2, SetActShift
<1>10. t = IF ~r.running /\ r.ready THEN w ELSE u
  BY <1>9 DEF WithdrawIfReady, InformActivityNotReady, q
<1> HIDE DEF u
<1>11. Shift(u, v, a) /\ v \in Tidy /\ v.act[a] = q
  BY <1>3, <1>9, SetActShift
<1> HIDE DEF v
<1>12. "scheduled" \in QueueName \ {"background", "backgroundInteractive"}
  BY QueueNames
<1>13. Shift(v, w, a) /\ w \in Tidy /\ w.act = v.act /\ At(w, a) = {"scheduled"}
  BY <1>11, <1>12, MoveToShift
<1> HIDE DEF w
<1>14. CASE ~r.running /\ r.ready
  <2>1. Flags(q, {}, a)
    BY <1>1, <1>4, <1>5, <1>14 DEF Fit, Flags, Off, Able
  <2>2. /\ UpdatesStand => Wanted(q, {})
        /\ StartsStand => Heard(q)
    BY <1>1, <1>4, <1>5 DEF Fit, Wanted, Heard
  <2>3. EndsStand => Kept(q, {})
    BY <1>1, <1>4, <1>5, <1>7 DEF Fit, Kept, Off, Able
  <2>4. Fit(q, {"scheduled"}, a)
    BY <1>7, <2>1, <2>2, <2>3, FitApart DEF Fit, Able
  <2>5. Shift(s, w, a)
    BY <1>9, <1>11, <1>13, ShiftTransitive
  <2> QED
    BY <1>6, <1>7, <1>8, <1>10, <1>11, <1>13, <1>14, <2>4, <2>5 DEF Moves, Under, p, t, r, u
<1>15. CASE r.running \/ ~r.ready
  <2> DEFINE at == At(s, a)
  <2>1. Flags(r, at, a) /\ at \cap ReadyQueues = {}
    BY <1>1, <1>4, <1>15 DEF Fit, Flags, Off, Able
  <2> HIDE DEF at
  <2>2. /\ UpdatesStand => Wanted(r, at)
        /\ StartsStand => Heard(r)
    BY <1>1, <1>4, <2>1 DEF Fit, Wanted, Heard
  <2>3. EndsStand => Kept(r, at)
    BY <1>1, <1>4, <1>7 DEF Fit, Kept, Off, Able, at
  <2>4. Fit(r, at, a)
    BY <2>1, <2>2, <2>3 DEF Fit
  <2> QED
    BY <1>6, <1>7, <1>8, <1>9, <1>10, <1>15, <2>4 DEF Moves, Under, p, t, r, u, at
<1> QED
  BY <1>14, <1>15

-----------------------------------------------------------------------------
(* Subscribers.                                                            *)

\* Nothing but its family and its name differ.
Even(p, r) ==
  /\ r.life = p.life /\ r.initialized = p.initialized /\ r.scheduled = p.scheduled
  /\ r.ready = p.ready /\ r.running = p.running /\ r.ending = p.ending
  /\ r.requeue = p.requeue /\ r.restart = p.restart /\ r.terminate = p.terminate
  /\ r.extCommand = p.extCommand /\ r.intCommand = p.intCommand
  /\ r.sentCommand = p.sentCommand
  /\ r.trigger = p.trigger /\ r.schedule = p.schedule /\ r.requirement = p.requirement
  /\ r.callback = p.callback /\ r.power = p.power

LEMMA EvenAlike ==
  ASSUME NEW p, NEW r, NEW at, NEW x, Fit(p, at, x), Even(p, r),
         StartsStand => r.adopters = p.adopters
  PROVE  Alike(p, r) /\ (Asked(p) => Asked(r))
<1>1. Flags(p, at, x)
  BY DEF Fit
<1>2. Alike(p, r)
  BY <1>1 DEF Even, Alike, Flags, Off, PrerequisitesMet
<1>3. Asked(p) => Asked(r)
  BY DEF Even, Asked, IsRunnable, ComputeNextExternalCommand, PrerequisitesMet
<1> QED
  BY <1>2, <1>3

LEMMA EvenMoves ==
  ASSUME NEW a \in Activities, NEW s \in Under(a), NEW r \in ActivityState,
         Even(s.act[a], r), StartsStand => r.adopters = s.act[a].adopters
  PROVE  LET t == SetAct(s, a, r)
         IN /\ Moves(s, t, a) /\ t \in Under(a) /\ t.act[a] = r /\ At(t, a) = At(s, a)
            /\ Asked(s.act[a]) => Asked(r)
<1>1. Fit(s.act[a], At(s, a), a)
  BY UnderParts
<1>2. Alike(s.act[a], r) /\ (Asked(s.act[a]) => Asked(r))
  BY <1>1, EvenAlike
<1> QED
  BY <1>2, AlikeMoves DEF Even

\* What holds of an Activity between two handlers.
Standing(r) ==
  /\ StartsStand => Asked(r)
  /\ EndsStand => Awaited(r)

LEMMA OrphanedMoves ==
  ASSUME NEW a \in Activities, NEW s \in Under(a), Standing(s.act[a])
  PROVE  LET t == Orphaned(s, a)
         IN Moves(s, t, a) /\ t \in Tidy /\ Standing(t.act[a])
<1>1. "cancel" \in ActivityCommand \ {"none"} /\ TRUE \in BOOLEAN
  BY DEF ActivityCommand, FinalCommand
<1> DEFINE t == SendCommand(s, a, "cancel", TRUE)
<1>2. /\ Moves(s, t, a) /\ t \in Tidy
      /\ StartsStand => Asked(t.act[a])
      /\ Awaited(s.act[a]) => Awaited(t.act[a])
  BY <1>1, SendCommandMoves
<1>3. Orphaned(s, a) \in {s, t}
  BY DEF Orphaned
<1>4. Moves(s, s, a) /\ s \in Tidy
  BY UnderParts
<1> QED
  BY <1>2, <1>3, <1>4 DEF Standing

LEMMA RemoveSubscriptionMoves ==
  ASSUME NEW a \in Activities, NEW s \in Under(a), Standing(s.act[a]), NEW b \in Subscribers
  PROVE  LET t == RemoveSubscription(s, a, b)
         IN Moves(s, t, a) /\ t \in Tidy /\ Standing(t.act[a])
<1> DEFINE r == s.act[a]
           waiting == Without(r.adopters, b)
           lost == r.parent = b
           subscriptions == r.subscriptions \ {b}
           told == r.told \ {b}
           releasedParent == IF r.releasedParent = b THEN None ELSE r.releasedParent
           parent == IF ~lost THEN r.parent
                     ELSE IF waiting = << >> THEN None ELSE Head(waiting)
           adopters == IF lost /\ waiting # << >> THEN Tail(waiting) ELSE waiting
           q == [r EXCEPT !.subscriptions = subscriptions, !.told = told,
                          !.releasedParent = releasedParent, !.parent = parent,
                          !.adopters = adopters]
           t == SetAct(s, a, q)
           result == RemoveSubscription(s, a, b)
<1>1. result = IF q.subscriptions = {} THEN EndActivity(t, a)
               ELSE IF lost /\ waiting = << >> THEN Orphaned(t, a)
               ELSE t
  BY DEF RemoveSubscription
<1> HIDE DEF result
<1>2. r \in ActivityState /\ (StartsStand => r.adopters = << >>) /\ Standing(r)
  BY UnderParts DEF Fit, Heard
<1>3. /\ r.subscriptions \subseteq Subscribers /\ r.told \subseteq Subscribers
      /\ r.parent \in Subscribers \cup {None}
      /\ r.releasedParent \in Subscribers \cup {None}
      /\ r.adopters \in Seq(Subscribers)
  BY <1>2 DEF ActivityState
<1> HIDE DEF r
<1>4. waiting \in Seq(Subscribers) /\ (StartsStand => waiting = << >>)
  <2>1. Without(<< >>, b) = << >>
    BY DEF Without
  <2> QED
    BY <1>2, <1>3, <2>1, WithoutType
<1> HIDE DEF waiting
<1>5. waiting # << >> => Head(waiting) \in Subscribers /\ Tail(waiting) \in Seq(Subscribers)
  BY <1>4, HeadTailProperties
<1>6. /\ subscriptions \in SUBSET Subscribers /\ told \in SUBSET Subscribers
      /\ releasedParent \in Subscribers \cup {None}
  BY <1>3
<1>7. /\ parent \in Subscribers \cup {None} /\ adopters \in Seq(Subscribers)
      /\ StartsStand => adopters = r.adopters
  BY <1>2, <1>3, <1>4, <1>5
<1> HIDE DEF subscriptions, told, releasedParent, parent, adopters
<1>8. q \in ActivityState
  BY <1>2, <1>6, <1>7, FamilyType
<1>9. Even(r, q) /\ q.adopters = adopters
  BY <1>2 DEF Even, ActivityState
<1> HIDE DEF q
<1>10. Moves(s, t, a) /\ t \in Under(a) /\ t.act[a] = q /\ (Asked(r) => Asked(q))
  BY <1>7, <1>8, <1>9, EvenMoves DEF r
<1> HIDE DEF t, lost
<1>11. CASE q.subscriptions = {}
  <2> DEFINE u == EndActivity(t, a)
  <2>1. Moves(t, u, a) /\ u \in Tidy /\ Settled(q, u.act[a])
    BY <1>10, EndActivityMoves
  <2> QED
    BY <1>1, <1>10, <1>11, <2>1, MovesTransitive DEF Settled, Standing, result
<1>12. CASE q.subscriptions # {}
  <2>1. Standing(q)
    BY <1>2, <1>10, <1>12 DEF Standing, Awaited, Due, Promises
  <2>2. LET u == Orphaned(t, a)
        IN Moves(t, u, a) /\ u \in Tidy /\ Standing(u.act[a])
    BY <1>10, <2>1, OrphanedMoves
  <2> QED
    BY <1>1, <1>10, <1>12, <2>1, <2>2, UnderParts, MovesTransitive DEF result
<1> QED
  BY <1>11, <1>12

\* An adopter subscribes, and adoption is among the calls that may put off a
\* start.
LEMMA AdoptMoves ==
  ASSUME NEW a \in Activities, NEW s \in Under(a), ~StartsStand, NEW b \in Subscribers,
         b \in s.act[a].subscriptions
  PROVE  LET t == Adopt(s, a, b)
         IN Moves(s, t, a) /\ t \in Tidy /\ Standing(t.act[a])
<1> DEFINE p == s.act[a]
           adopters == Append(p.adopters, b)
           r == [p EXCEPT !.adopters = adopters]
           q == IF r.parent # None THEN r ELSE DoAdopt(r)
           t == SetAct(s, a, q)
<1>1. Adopt(s, a, b) = t
  BY DEF Adopt
<1>2. /\ p \in ActivityState /\ b \in p.subscriptions /\ Flags(p, At(s, a), a)
  BY UnderParts DEF Fit
<1> HIDE DEF p
<1>3. adopters \in Seq(Subscribers) /\ adopters # << >>
  BY <1>2, AppendProperties DEF ActivityState
<1> HIDE DEF adopters
<1>4. /\ r \in ActivityState
  BY <1>2, <1>3 DEF ActivityState
<1>5. Even(p, r) /\ r.subscriptions = p.subscriptions /\ r.adopters # << >>
  BY <1>2, <1>3 DEF Even, ActivityState
<1> HIDE DEF r
<1>6. DoAdopt(r) \in ActivityState
  BY <1>4, <1>5, DoAdoptType
<1>7. LET d == DoAdopt(r)
      IN /\ d.life = r.life /\ d.initialized = r.initialized /\ d.scheduled = r.scheduled
         /\ d.ready = r.ready /\ d.running = r.running
         /\ d.requeue = r.requeue /\ d.restart = r.restart /\ d.terminate = r.terminate
         /\ d.extCommand = r.extCommand /\ d.intCommand = r.intCommand
         /\ d.sentCommand = r.sentCommand
         /\ d.trigger = r.trigger /\ d.schedule = r.schedule /\ d.requirement = r.requirement
         /\ d.callback = r.callback /\ d.power = r.power
         /\ d.subscriptions = r.subscriptions
  BY <1>4 DEF DoAdopt, ActivityState
<1>8. /\ q \in ActivityState
      /\ q.life = p.life /\ q.initialized = p.initialized /\ q.scheduled = p.scheduled
      /\ q.ready = p.ready /\ q.running = p.running
      /\ q.requeue = p.requeue /\ q.restart = p.restart /\ q.terminate = p.terminate
      /\ q.extCommand = p.extCommand /\ q.intCommand = p.intCommand
      /\ q.sentCommand = p.sentCommand
      /\ q.trigger = p.trigger /\ q.schedule = p.schedule /\ q.requirement = p.requirement
      /\ q.callback = p.callback /\ q.power = p.power
      /\ b \in q.subscriptions
  BY <1>2, <1>4, <1>5, <1>6, <1>7 DEF Even
<1> HIDE DEF q
<1>9. Alike(p, q)
  BY <1>2, <1>8 DEF Alike, Flags, Off, PrerequisitesMet
<1>10. Moves(s, t, a) /\ t \in Under(a) /\ t.act[a] = q
  BY <1>8, <1>9, AlikeMoves DEF p
<1>11. Standing(q)
  BY <1>8 DEF Standing, Awaited, Due, Promises
<1> QED
  BY <1>1, <1>10, <1>11, UnderParts DEF t

LEMMA ReleaseMoves ==
  ASSUME NEW a \in Activities, NEW s \in Under(a), Standing(s.act[a]),
         s.act[a].subscriptions # {}
  PROVE  LET t == Release(s, a)
         IN Moves(s, t, a) /\ t \in Tidy /\ Standing(t.act[a])
<1> DEFINE p == s.act[a]
           r == [p EXCEPT !.releasedParent = p.parent, !.parent = None, !.released = TRUE]
           q == IF r.adopters # << >> THEN DoAdopt(r) ELSE r
           t == SetAct(s, a, q)
<1>1. Release(s, a) = t
  BY DEF Release
<1>2. /\ p \in ActivityState /\ p.subscriptions # {} /\ Flags(p, At(s, a), a)
      /\ StartsStand => p.adopters = << >>
      /\ Standing(p)
  BY UnderParts DEF Fit, Heard
<1> HIDE DEF p
<1>3. p.parent \in Subscribers \cup {None}
  BY <1>2 DEF ActivityState
<1>4. r \in ActivityState
  BY <1>2, <1>3 DEF ActivityState
<1>5. Even(p, r) /\ r.subscriptions = p.subscriptions /\ r.adopters = p.adopters
  BY <1>2, <1>3 DEF Even, ActivityState
<1> HIDE DEF r
<1>6. r.adopters # << >> => DoAdopt(r) \in ActivityState
  BY <1>4, DoAdoptType
<1>7. LET d == DoAdopt(r)
      IN /\ d.life = r.life /\ d.initialized = r.initialized /\ d.scheduled = r.scheduled
         /\ d.ready = r.ready /\ d.running = r.running
         /\ d.requeue = r.requeue /\ d.restart = r.restart /\ d.terminate = r.terminate
         /\ d.extCommand = r.extCommand /\ d.intCommand = r.intCommand
         /\ d.sentCommand = r.sentCommand
         /\ d.trigger = r.trigger /\ d.schedule = r.schedule /\ d.requirement = r.requirement
         /\ d.callback = r.callback /\ d.power = r.power
         /\ d.subscriptions = r.subscriptions
  BY <1>4 DEF DoAdopt, ActivityState
<1>8. /\ q \in ActivityState
      /\ q.life = p.life /\ q.initialized = p.initialized /\ q.scheduled = p.scheduled
      /\ q.ready = p.ready /\ q.running = p.running
      /\ q.requeue = p.requeue /\ q.restart = p.restart /\ q.terminate = p.terminate
      /\ q.extCommand = p.extCommand /\ q.intCommand = p.intCommand
      /\ q.sentCommand = p.sentCommand
      /\ q.trigger = p.trigger /\ q.schedule = p.schedule /\ q.requirement = p.requirement
      /\ q.callback = p.callback /\ q.power = p.power
      /\ q.subscriptions = p.subscriptions
      /\ StartsStand => q.ending = p.ending /\ q.adopters = p.adopters
  BY <1>2, <1>4, <1>5, <1>6, <1>7 DEF Even
<1> HIDE DEF q
<1>9. Alike(p, q)
  BY <1>2, <1>8 DEF Alike, Flags, Off, PrerequisitesMet
<1>10. Moves(s, t, a) /\ t \in Under(a) /\ t.act[a] = q
  BY <1>8, <1>9, AlikeMoves DEF p
<1>11. Standing(q)
  <2>1. StartsStand => Asked(q)
    BY <1>2, <1>8 DEF Standing, Asked, IsRunnable, ComputeNextExternalCommand, PrerequisitesMet
  <2> QED
    BY <1>2, <1>8, <2>1 DEF Standing, Awaited, Due, Promises
<1> QED
  BY <1>1, <1>10, <1>11, UnderParts DEF t

LEMMA YieldActivityMoves ==
  ASSUME NEW a \in Activities, NEW s \in Under(a), s.act[a].initialized
  PROVE  LET t == YieldActivity(s, a)
         IN Moves(s, t, a) /\ t \in Tidy /\ Standing(t.act[a])
<1> DEFINE p == s.act[a]
           q == [p EXCEPT !.yielding = TRUE, !.requeue = TRUE]
           r == [q EXCEPT !.told = p.subscriptions]
           t == SetAct(s, a, r)
           u == EndActivity(t, a)
<1>1. YieldActivity(s, a) = u
  BY DEF YieldActivity
<1>2. p \in ActivityState /\ p.initialized /\ Flags(p, At(s, a), a)
  BY UnderParts DEF Fit
<1> HIDE DEF p
<1>3. q \in ActivityState
  BY <1>2, FlagType
<1>4. q.requeue /\ q.adopters = p.adopters
  BY <1>2 DEF Even, ActivityState
<1>5. /\ q.life = p.life /\ q.initialized = p.initialized /\ q.scheduled = p.scheduled
      /\ q.ready = p.ready /\ q.running = p.running /\ q.terminate = p.terminate
      /\ q.extCommand = p.extCommand /\ q.intCommand = p.intCommand
      /\ q.sentCommand = p.sentCommand /\ q.callback = p.callback
      /\ q.trigger = p.trigger /\ q.schedule = p.schedule /\ q.requirement = p.requirement
      /\ q.power = p.power
  BY <1>2 DEF ActivityState
<1> HIDE DEF q
<1>6. p.subscriptions \in SUBSET Subscribers
  BY <1>2 DEF ActivityState
<1>7. r \in ActivityState
  BY <1>3, <1>6, ToldType
<1>8. Even(q, r) /\ r.adopters = q.adopters
  BY <1>3 DEF Even, ActivityState
<1> HIDE DEF r
<1>9. Alike(p, r) /\ r.power = p.power /\ r.ready = p.ready /\ r.running = p.running
  BY <1>2, <1>4, <1>5, <1>8 DEF Even, Alike, Flags, Off, PrerequisitesMet
<1>10. Moves(s, t, a) /\ t \in Under(a)
  BY <1>7, <1>9, AlikeMoves DEF p
<1> HIDE DEF t
<1>11. Moves(t, u, a) /\ u \in Tidy /\ Asked(u.act[a]) /\ Awaited(u.act[a])
  BY <1>10, EndActivityMoves DEF Settled
<1> QED
  BY <1>1, <1>10, <1>11, MovesTransitive DEF Standing, u

-----------------------------------------------------------------------------
(* The calls that wait for the database.                                   *)

LEMMA FinishCreateActivityMoves ==
  ASSUME NEW a \in Activities, NEW s \in Under(a), NEW b \in Subscribers \cup {None},
         NEW start \in BOOLEAN, StartsStand => Asked(s.act[a]),
         EndsStand /\ Due(s.act[a]) => b # None \/ (start /\ s.act[a].callback # "none")
  PROVE  LET t == FinishCreateActivity(s, a, b, start)
             p == s.act[a]
             r == t.act[a]
         IN /\ Moves(s, t, a) /\ t \in Tidy /\ (StartsStand => Asked(r)) /\ (EndsStand => ~Due(r))
            /\ r.persistCommands = p.persistCommands
            /\ p.persistCommands # << >> => t \in Under(a)
<1> DEFINE p == s.act[a]
           r == IF b = None THEN p ELSE AddSubscription(p, b)
           q == IF b = None THEN r ELSE SetParent(r, b)
           u == SetAct(s, a, r)
           t == SetAct(s, a, q)
           w == SendCommand(t, a, "start", FALSE)
           result == FinishCreateActivity(s, a, b, start)
<1>1. result = IF b # None /\ r.parent # None THEN u ELSE IF start THEN w ELSE t
  BY DEF FinishCreateActivity
<1> HIDE DEF result
<1>2. /\ p \in ActivityState /\ (StartsStand => Asked(p))
      /\ EndsStand /\ Due(p) => b # None \/ (start /\ p.callback # "none")
  BY UnderParts
<1> HIDE DEF p
<1>3. r \in ActivityState
  BY <1>2, AddSubscriptionType
<1>4. /\ Even(p, r) /\ r.adopters = p.adopters /\ r.persistCommands = p.persistCommands
      /\ b # None => b \in r.subscriptions
      /\ b = None => r = p
  <2>1. CASE b = None
    BY <2>1 DEF Even
  <2>2. CASE b # None
    <3>1. r = [p EXCEPT !.subscriptions = p.subscriptions \cup {b}]
      BY <2>2 DEF AddSubscription
    <3> HIDE DEF r
    <3> QED
      BY <1>2, <2>2, <3>1 DEF Even, ActivityState
  <2> QED
    BY <2>1, <2>2
<1> HIDE DEF r
<1>5. /\ q \in ActivityState
      /\ Even(r, q) /\ q.adopters = r.adopters /\ q.persistCommands = r.persistCommands
      /\ b # None => b \in q.subscriptions
      /\ b = None => q = r
  <2>1. CASE b = None
    BY <1>3, <2>1 DEF Even
  <2>2. CASE b # None
    <3>1. b \in Subscribers /\ q = SetParent(r, b)
      BY <2>2
    <3>2. q = [r EXCEPT !.parent = b, !.released = FALSE]
      BY <3>1 DEF SetParent
    <3> HIDE DEF q
    <3>3. q \in ActivityState
      BY <1>3, <3>1, SetParentType
    <3> QED
      BY <1>3, <1>4, <2>2, <3>2, <3>3 DEF Even, ActivityState
  <2> QED
    BY <2>1, <2>2
<1> HIDE DEF q
<1>6. Even(p, q)
  BY <1>4, <1>5 DEF Even
<1>7. Moves(s, u, a) /\ u \in Under(a) /\ u.act[a] = r /\ (Asked(p) => Asked(r))
  BY <1>3, <1>4, EvenMoves DEF p
<1>8. Moves(s, t, a) /\ t \in Under(a) /\ t.act[a] = q /\ (Asked(p) => Asked(q))
  BY <1>4, <1>5, <1>6, EvenMoves DEF p
<1> HIDE DEF u, t
<1>9. u \in Tidy /\ t \in Tidy
  BY <1>7, <1>8, UnderParts
<1>10. CASE b # None /\ r.parent # None
  <2>1. EndsStand => ~Due(r)
    BY <1>4, <1>10 DEF Due
  <2> QED
    BY <1>1, <1>2, <1>4, <1>7, <1>9, <1>10, <2>1 DEF p, result
<1>11. CASE ~(b # None /\ r.parent # None) /\ ~start
  <2>1. EndsStand => ~Due(q)
    BY <1>2, <1>4, <1>5, <1>11 DEF Due
  <2> QED
    BY <1>1, <1>2, <1>4, <1>5, <1>8, <1>9, <1>11, <2>1 DEF p, result
<1>12. CASE ~(b # None /\ r.parent # None) /\ start
  <2>1. "start" \in ActivityCommand \ {"none"} /\ FALSE \in BOOLEAN /\ "start" # "pause"
    BY DEF ActivityCommand
  <2> DEFINE z == w.act[a]
  <2>2. /\ Moves(t, w, a) /\ w \in Tidy /\ Kin(q, z)
        /\ StartsStand /\ Asked(q) => Asked(z)
        /\ q.persistCommands # << >> => w \in Under(a)
        /\ z.initialized \/ z.ending
        /\ q.ending => z.ending
    BY <1>8, <2>1, SendCommandMoves
  <2>3. z.life = "live" => q.life = "live"
    <3>1. t \in ManagerState
      BY <1>8, UnderParts
    <3>2. Commanded(t, w, a, "start")
      BY <2>1, <3>1, ClientCommand
    <3> QED
      BY <1>8, <3>2 DEF Commanded, Keeps, Obeys
  <2> HIDE DEF w
  <2>4. EndsStand => ~Due(z)
    BY <1>2, <1>4, <1>5, <2>2, <2>3 DEF Due, Kin
  <2>5. Moves(s, w, a)
    BY <1>8, <2>2, MovesTransitive
  <2> QED
    BY <1>1, <1>2, <1>4, <1>5, <1>8, <1>12, <2>2, <2>4, <2>5 DEF Kin, p, result
<1> QED
  BY <1>10, <1>11, <1>12

LEMMA FinishCallMoves ==
  ASSUME NEW a \in Activities, NEW s \in Under(a), NEW command \in PersistCommand,
         StartsStand => Asked(s.act[a]), EndsStand /\ Due(s.act[a]) => Promises(command, s.act[a])
  PROVE  LET t == FinishCall(s, a, command)
             p == s.act[a]
             r == t.act[a]
         IN /\ Moves(s, t, a) /\ t \in Tidy /\ (StartsStand => Asked(r)) /\ (EndsStand => ~Due(r))
            /\ r.persistCommands = p.persistCommands
            /\ p.persistCommands # << >> => t \in Under(a)
<1> DEFINE p == s.act[a]
           r == [p EXCEPT !.named = FALSE]
           t == FinishCall(s, a, command)
           u == SetAct(s, a, r)
<1>1. /\ command.finish \in {"create", "end", "restart"}
      /\ command.sub \in Subscribers \cup {None}
      /\ command.start \in BOOLEAN
  BY DEF PersistCommand
<1>2. CASE command.finish = "create"
  <2>1. t = FinishCreateActivity(s, a, command.sub, command.start)
    BY <1>2 DEF FinishCall
  <2> HIDE DEF t
  <2>2. EndsStand /\ Due(p) => command.sub # None \/ (command.start /\ p.callback # "none")
    BY DEF Promises
  <2> QED
    BY <1>1, <2>1, <2>2, FinishCreateActivityMoves DEF t
<1>3. CASE command.finish = "end"
  <2>1. t = u
    BY <1>3 DEF FinishCall, FinishEnd
  <2>2. p \in ActivityState
    BY UnderParts
  <2>3. EndsStand => ~Due(p)
    BY <1>3 DEF Promises
  <2> HIDE DEF p, t
  <2>4. r \in ActivityState
    BY <2>2, FlagType
  <2>5. Even(p, r) /\ r.adopters = p.adopters
    BY <2>2 DEF Even, ActivityState
  <2>6. r.persistCommands = p.persistCommands /\ r.subscriptions = p.subscriptions
    BY <2>2 DEF ActivityState
  <2> HIDE DEF r
  <2>7. Moves(s, u, a) /\ u \in Under(a) /\ u.act[a] = r /\ (Asked(p) => Asked(r))
    BY <2>4, <2>5, EvenMoves DEF p
  <2> HIDE DEF u
  <2>8. u \in Tidy /\ (EndsStand => ~Due(r))
    BY <2>3, <2>5, <2>6, <2>7, UnderParts DEF Even, Due
  <2> QED
    BY <2>1, <2>6, <2>7, <2>8 DEF p, t
<1>4. CASE command.finish = "restart"
  <2>1. t = s
    BY <1>4 DEF FinishCall
  <2>2. EndsStand => ~Due(p)
    BY <1>4 DEF Promises
  <2> QED
    BY <2>1, <2>2, UnderParts
<1> QED
  BY <1>1, <1>2, <1>3, <1>4

\* The command at the head of the chain is done, and whatever it promised is
\* there.
LEMMA CompletePersistCommandMoves ==
  ASSUME NEW a \in Activities, NEW s \in Under(a), Standing(s.act[a]),
         s.act[a].persistCommands # << >>
  PROVE  LET t == CompletePersistCommand(s, a)
         IN Moves(s, t, a) /\ t \in Tidy /\ Standing(t.act[a])
<1> DEFINE p == s.act[a]
           command == Head(p.persistCommands)
           t == FinishCall(s, a, command)
           q == t.act[a]
           rest == Tail(q.persistCommands)
           r == [q EXCEPT !.persistCommands = rest]
           u == SetAct(t, a, r)
           v == EndActivity(u, a)
           result == CompletePersistCommand(s, a)
<1>1. result = IF r.ending /\ r.persistCommands = << >> THEN v ELSE u
  BY DEF CompletePersistCommand
<1> HIDE DEF result
<1>2. p \in ActivityState /\ p.persistCommands # << >> /\ Standing(p)
  BY UnderParts
<1>3. p.persistCommands \in Seq(PersistCommand)
  BY <1>2 DEF ActivityState
<1> HIDE DEF p
<1>4. command \in PersistCommand
  BY <1>2, <1>3, HeadTailProperties
<1>5. EndsStand /\ Due(p) => Promises(command, p)
  BY <1>2 DEF Standing, Awaited
<1> HIDE DEF command
<1>6. /\ Moves(s, t, a) /\ t \in Under(a) /\ (StartsStand => Asked(q)) /\ (EndsStand => ~Due(q))
      /\ q.persistCommands = p.persistCommands
  BY <1>2, <1>4, <1>5, FinishCallMoves DEF p, Standing
<1> HIDE DEF t
<1>7. q \in ActivityState /\ rest \in Seq(PersistCommand)
  BY <1>2, <1>3, <1>6, UnderParts, HeadTailProperties
<1> HIDE DEF rest
<1>8. r \in ActivityState
  BY <1>7 DEF ActivityState
<1>9. /\ Even(q, r) /\ r.adopters = q.adopters /\ r.subscriptions = q.subscriptions
  BY <1>7 DEF Even, ActivityState
<1> HIDE DEF r
<1>10. Moves(t, u, a) /\ u \in Under(a) /\ u.act[a] = r /\ (Asked(q) => Asked(r))
  BY <1>6, <1>8, <1>9, EvenMoves DEF q
<1> HIDE DEF u, q
<1>11. Moves(s, u, a)
  BY <1>6, <1>10, MovesTransitive
<1>12. u \in Tidy
  BY <1>10, UnderParts
<1>13. Standing(r)
  BY <1>6, <1>9, <1>10 DEF Standing, Awaited, Due, Even
<1>14. CASE r.ending /\ r.persistCommands = << >>
  <2>1. Moves(u, v, a) /\ v \in Tidy /\ Asked(v.act[a]) /\ Awaited(v.act[a])
    BY <1>10, EndActivityMoves DEF Settled
  <2> HIDE DEF v
  <2>2. Moves(s, v, a)
    BY <1>11, <2>1, MovesTransitive
  <2> QED
    BY <1>1, <1>14, <2>1, <2>2 DEF Standing, result
<1>15. CASE ~(r.ending /\ r.persistCommands = << >>)
  BY <1>1, <1>10, <1>11, <1>12, <1>13, <1>15 DEF result
<1> QED
  BY <1>14, <1>15

LEMMA FinishEndMoves ==
  ASSUME NEW a \in Activities, NEW s \in Under(a), Standing(s.act[a])
  PROVE  LET t == FinishEnd(s, a)
         IN Moves(s, t, a) /\ t \in Tidy /\ Standing(t.act[a])
<1> DEFINE p == s.act[a]
           r == [p EXCEPT !.named = FALSE]
           t == SetAct(s, a, r)
<1>1. p \in ActivityState /\ Standing(p)
  BY UnderParts
<1>2. t = FinishEnd(s, a)
  BY DEF FinishEnd
<1> HIDE DEF p
<1>3. r \in ActivityState
  BY <1>1, FlagType
<1>4. Even(p, r)
  BY <1>1 DEF Even, ActivityState
<1>5. r.adopters = p.adopters /\ r.subscriptions = p.subscriptions /\ r.persistCommands = p.persistCommands
  BY <1>1 DEF ActivityState
<1> HIDE DEF r
<1>6. Moves(s, t, a) /\ t \in Under(a) /\ t.act[a] = r /\ (Asked(p) => Asked(r))
  BY <1>3, <1>4, <1>5, EvenMoves DEF p
<1>7. Standing(r)
  BY <1>1, <1>4, <1>5, <1>6 DEF Standing, Awaited, Due, Promises, Even
<1> HIDE DEF t
<1> QED
  BY <1>2, <1>6, <1>7, UnderParts

LEMMA HookPersistCommandMoves ==
  ASSUME NEW a \in Activities, NEW s \in Under(a), NEW command \in PersistCommand,
         StartsStand => Asked(s.act[a]),
         EndsStand => Awaited(s.act[a]) \/ (s.act[a].persistCommands = << >> /\ Promises(command, s.act[a]))
  PROVE  LET t == HookPersistCommand(s, a, command)
         IN Moves(s, t, a) /\ t \in Tidy /\ Standing(t.act[a])
<1> DEFINE p == s.act[a]
           commands == Append(p.persistCommands, command)
           r == [p EXCEPT !.persistCommands = commands]
           t == SetAct(s, a, r)
<1>1. /\ p \in ActivityState /\ (StartsStand => Asked(p))
      /\ EndsStand => Awaited(p) \/ (p.persistCommands = << >> /\ Promises(command, p))
  BY UnderParts
<1>2. t = HookPersistCommand(s, a, command)
  BY DEF HookPersistCommand
<1> HIDE DEF p
<1>3. p.persistCommands \in Seq(PersistCommand)
  BY <1>1 DEF ActivityState
<1>4. /\ commands \in Seq(PersistCommand) /\ commands # << >>
      /\ Head(commands) = IF p.persistCommands = << >> THEN command ELSE Head(p.persistCommands)
  BY <1>3, AppendProperties, HeadTailAppend
<1> HIDE DEF commands
<1>5. r \in ActivityState
  BY <1>1, <1>4 DEF ActivityState
<1>6. Even(p, r)
  BY <1>1 DEF Even, ActivityState
<1>7. r.adopters = p.adopters /\ r.subscriptions = p.subscriptions /\ r.persistCommands = commands
  BY <1>1 DEF ActivityState
<1> HIDE DEF r
<1>8. Moves(s, t, a) /\ t \in Under(a) /\ t.act[a] = r /\ (Asked(p) => Asked(r))
  BY <1>5, <1>6, <1>7, EvenMoves DEF p
<1>9. Promises(Head(commands), p) => Promises(Head(commands), r)
  BY <1>6 DEF Promises, Even
<1>10. Due(r) => Due(p)
  BY <1>6, <1>7 DEF Due, Even
<1>11. EndsStand => Awaited(r)
  BY <1>1, <1>4, <1>7, <1>9, <1>10 DEF Awaited
<1> HIDE DEF t
<1> QED
  BY <1>1, <1>2, <1>8, <1>11, UnderParts DEF Standing

\* The call of an end waits for the database, or is finished at once.
LEMMA EndEnsureMoves ==
  ASSUME NEW a \in Activities, NEW s \in Under(a), Standing(s.act[a]),
         NEW command \in PersistCommand, command.finish \in {"end", "restart"}
  PROVE  LET t == EnsureCompletion(s, a, command)
         IN Moves(s, t, a) /\ t \in Tidy /\ Standing(t.act[a])
<1> DEFINE t == EnsureCompletion(s, a, command)
<1>1. CASE t = HookPersistCommand(s, a, command)
  BY <1>1, HookPersistCommandMoves DEF Standing
<1>2. CASE t = FinishCall(s, a, command) /\ command.finish = "end"
  <2>1. t = FinishEnd(s, a)
    BY <1>2 DEF FinishCall
  <2> QED
    BY <2>1, FinishEndMoves
<1>3. CASE t = FinishCall(s, a, command) /\ command.finish = "restart"
  <2>1. t = s
    BY <1>3 DEF FinishCall
  <2> QED
    BY <2>1, UnderParts
<1>4. t \in {HookPersistCommand(s, a, command), FinishCall(s, a, command)}
  BY DEF EnsureCompletion
<1> QED
  BY <1>1, <1>2, <1>3, <1>4

-----------------------------------------------------------------------------
(* The calls that end.                                                     *)

\* A client's final command to an Activity that is not to start over, or does
\* because the call says so, leaves it in use.
LEMMA FinalCommandMoves ==
  ASSUME NEW a \in Activities, NEW s \in Under(a), EndsStand => Awaited(s.act[a]),
         NEW command \in FinalCommand, ~AlreadyEnded(s.act[a], FALSE),
         s.act[a].terminate \/ s.act[a].restart
  PROVE  LET t == SendCommand(s, a, command, FALSE)
         IN Moves(s, t, a) /\ t \in Under(a) /\ Standing(t.act[a])
<1> DEFINE p == s.act[a]
           t == SendCommand(s, a, command, FALSE)
           r == t.act[a]
<1>1. /\ s \in ManagerState /\ p.extCommand \notin FinalCommand
      /\ p.terminate \/ p.restart
      /\ Able(p) /\ (EndsStand => Awaited(p))
  BY UnderParts DEF AlreadyEnded
<1>2. /\ command \in ActivityCommand \ {"none"} /\ FALSE \in BOOLEAN
      /\ command # "pause" /\ command # "start"
  BY DEF ActivityCommand, FinalCommand
<1> HIDE DEF p
<1>3. /\ Moves(s, t, a) /\ t \in Tidy /\ Kin(p, r)
      /\ StartsStand => Asked(r)
      /\ Awaited(p) => Awaited(r)
      /\ Able(r) \/ (Parted(p, r) /\ ~p.ending)
  BY <1>2, SendCommandMoves DEF p
<1>4. Obeys(p, r, command)
  BY <1>1, <1>2, ClientCommand DEF p
<1> HIDE DEF t
<1>5. Able(r)
  <2> SUFFICES ASSUME EndsStand, Parted(p, r), ~p.ending
               PROVE  Able(r)
    BY <1>3 DEF Able, Parted
  <2>1. p.life = "live" /\ Awaited(p)
    BY <1>1 DEF Able, Abides
  <2>2. p.subscriptions = {} /\ p.persistCommands = << >>
    BY <1>3 DEF Kin, Parted
  <2>3. p.callback # "none" /\ p.initialized
    BY <2>1, <2>2 DEF Awaited, Due
  <2>4. r.callback # "none" /\ r.initialized
    BY <1>3, <2>3 DEF Kin
  <2>5. r.terminate
    BY <1>1, <1>4, <2>4 DEF Obeys, Parted
  <2>6. r.extCommand \in FinalCommand
    BY <1>4, <2>5 DEF Obeys
  <2> QED
    BY <2>4, <2>5, <2>6 DEF Able, Abides, Parted
<1>6. t \in Under(a) /\ Standing(r)
  BY <1>1, <1>3, <1>5 DEF Under, Moves, Standing
<1> QED
  BY <1>3, <1>6 DEF t

LEMMA EndCallMoves ==
  ASSUME NEW a \in Activities, NEW s \in Under(a), Standing(s.act[a]),
         NEW command \in FinalCommand
  PROVE  LET t == EndCall(s, a, command)
         IN Moves(s, t, a) /\ t \in Tidy /\ Standing(t.act[a])
<1> DEFINE p == s.act[a]
           r == [p EXCEPT !.terminate = TRUE]
           t == SetAct(s, a, r)
           u == SendCommand(t, a, command, FALSE)
           end == [finish |-> "end", sub |-> None, start |-> FALSE]
           v == EnsureCompletion(u, a, end)
           result == EndCall(s, a, command)
<1>1. result = IF AlreadyEnded(p, FALSE) THEN t ELSE v
  BY DEF EndCall
<1>2. end \in PersistCommand /\ end.finish \in {"end", "restart"}
  BY DEF PersistCommand
<1> HIDE DEF result, end
<1>3. p \in ActivityState /\ Standing(p) /\ Flags(p, At(s, a), a)
  BY UnderParts DEF Fit
<1> HIDE DEF p
<1>4. r \in ActivityState
  BY <1>3, FlagType
<1>5. r.terminate
  BY <1>3 DEF ActivityState
<1>6. /\ r.life = p.life /\ r.initialized = p.initialized /\ r.scheduled = p.scheduled
      /\ r.ready = p.ready /\ r.running = p.running /\ r.ending = p.ending
      /\ r.requeue = p.requeue
      /\ r.extCommand = p.extCommand /\ r.intCommand = p.intCommand
      /\ r.sentCommand = p.sentCommand /\ r.adopters = p.adopters
      /\ r.subscriptions = p.subscriptions /\ r.persistCommands = p.persistCommands
      /\ r.trigger = p.trigger /\ r.schedule = p.schedule /\ r.requirement = p.requirement
      /\ r.callback = p.callback /\ r.power = p.power
  BY <1>3 DEF ActivityState
<1> HIDE DEF r
<1>7. Alike(p, r)
  BY <1>3, <1>5, <1>6 DEF Alike, Flags, Off, PrerequisitesMet
<1>8. Moves(s, t, a) /\ t \in Under(a) /\ t.act[a] = r
  BY <1>4, <1>6, <1>7, AlikeMoves DEF p
<1>9. Standing(r)
  BY <1>3, <1>6 DEF Standing, Asked, Awaited, Due, Promises, IsRunnable,
                    ComputeNextExternalCommand, PrerequisitesMet
<1> HIDE DEF t
<1>10. CASE AlreadyEnded(p, FALSE)
  BY <1>1, <1>8, <1>9, <1>10, UnderParts DEF result
<1>11. CASE ~AlreadyEnded(p, FALSE)
  <2>1. ~AlreadyEnded(r, FALSE)
    BY <1>6, <1>11 DEF AlreadyEnded
  <2>2. Moves(t, u, a) /\ u \in Under(a) /\ Standing(u.act[a])
    BY <1>5, <1>8, <1>9, <2>1, FinalCommandMoves DEF Standing
  <2> HIDE DEF u
  <2>3. Moves(u, v, a) /\ v \in Tidy /\ Standing(v.act[a])
    BY <1>2, <2>2, EndEnsureMoves
  <2> HIDE DEF v
  <2>4. Moves(s, v, a)
    BY <1>8, <2>2, <2>3, MovesTransitive
  <2> QED
    BY <1>1, <1>11, <2>3, <2>4 DEF result
<1> QED
  BY <1>10, <1>11

-----------------------------------------------------------------------------
(* What it waits for changes.                                              *)

\* Nothing differs but what it waits for and its callback.
Rest(p, r) ==
  /\ r.life = p.life /\ r.initialized = p.initialized /\ r.scheduled = p.scheduled
  /\ r.ready = p.ready /\ r.running = p.running /\ r.ending = p.ending
  /\ r.requeue = p.requeue /\ r.restart = p.restart /\ r.terminate = p.terminate
  /\ r.extCommand = p.extCommand /\ r.intCommand = p.intCommand
  /\ r.sentCommand = p.sentCommand
  /\ r.subscriptions = p.subscriptions /\ r.adopters = p.adopters
  /\ r.persistCommands = p.persistCommands /\ r.power = p.power

LEMMA RestMoves ==
  ASSUME NEW a \in Activities, NEW s \in Under(a), NEW r \in ActivityState,
         Rest(s.act[a], r),
         r.callback = "calling" => s.act[a].callback = "calling",
         r.callback = "none" => s.act[a].callback = "none",
         r.trigger = "armed" => s.act[a].trigger = "armed",
         r.schedule = "queued" => s.act[a].schedule = "queued",
         UpdatesStand => (PrerequisitesMet(s.act[a]) => PrerequisitesMet(r))
  PROVE  LET t == SetAct(s, a, r)
             p == s.act[a]
         IN /\ Moves(s, t, a) /\ t \in Under(a) /\ t.act[a] = r
            /\ Awaited(p) => Awaited(r)
            /\ Asked(p) /\ (PrerequisitesMet(r) => PrerequisitesMet(p)) => Asked(r)
<1> DEFINE p == s.act[a]
<1>1. Flags(p, At(s, a), a)
  BY UnderParts DEF Fit
<1>2. Alike(p, r)
  BY <1>1 DEF Alike, Rest, Flags, Off
<1>3. Awaited(p) => Awaited(r)
  BY DEF Awaited, Due, Promises, Rest
<1>4. Asked(p) /\ (PrerequisitesMet(r) => PrerequisitesMet(p)) => Asked(r)
  BY DEF Asked, IsRunnable, ComputeNextExternalCommand, Rest
<1> QED
  BY <1>2, <1>3, <1>4, AlikeMoves DEF Rest

LEMMA RestFields ==
  ASSUME NEW p \in ActivityState
  PROVE  /\ \A v : LET r == [p EXCEPT !.trigger = v]
                   IN /\ Rest(p, r) /\ r.callback = p.callback
                      /\ r.trigger = v /\ r.schedule = p.schedule
                      /\ r.requirement = p.requirement
         /\ \A v : LET r == [p EXCEPT !.schedule = v]
                   IN /\ Rest(p, r) /\ r.callback = p.callback
                      /\ r.trigger = p.trigger /\ r.schedule = v
                      /\ r.requirement = p.requirement
         /\ \A v : LET r == [p EXCEPT !.requirement = v]
                   IN /\ Rest(p, r) /\ r.callback = p.callback
                      /\ r.trigger = p.trigger /\ r.schedule = p.schedule
                      /\ r.requirement = v
         /\ \A v : LET r == [p EXCEPT !.callback = v]
                   IN /\ Rest(p, r) /\ r.callback = v
                      /\ r.trigger = p.trigger /\ r.schedule = p.schedule
                      /\ r.requirement = p.requirement
BY DEF Rest, ActivityState

\* What a restarting complete changes. Without a trigger or a schedule that it
\* had to wait for the Activity may run, and nobody asks.
LEMMA UpdateActivityMoves ==
  ASSUME NEW a \in Activities, NEW s \in Under(a), NEW update \in Updates
  PROVE  LET t == UpdateActivity(s, a, update)
             p == s.act[a]
             r == t.act[a]
         IN /\ Moves(s, t, a) /\ t \in Under(a)
            /\ Awaited(p) => Awaited(r)
            /\ Asked(p) /\ update \notin {"noTrigger", "noSchedule"} => Asked(r)
<1> DEFINE p == s.act[a]
           t == UpdateActivity(s, a, update)
           Set(q) == SetAct(s, a, q)
<1>1. p \in ActivityState /\ Moves(s, s, a)
  BY UnderParts
<1>2. update \in UpdateName
  BY EnvironmentAssumption
<1>3. CASE update = "nothing"
  BY <1>1, <1>3 DEF UpdateActivity
<1>4. CASE update = "trigger"
  <2> DEFINE r == [p EXCEPT !.trigger = "idle"]
  <2>1. t = Set(r)
    BY <1>4 DEF UpdateActivity
  <2>2. r \in ActivityState
    BY <1>1, TriggerType
  <2>3. Rest(p, r) /\ r.callback = p.callback /\ r.trigger = "idle" /\ r.schedule = p.schedule
    BY <1>1, RestFields
  <2> HIDE DEF r
  <2>4. ~UpdatesStand /\ ~PrerequisitesMet(r)
    BY <1>4, <2>3 DEF UpdatesStand, PrerequisitesMet
  <2> QED
    BY <2>1, <2>2, <2>3, <2>4, RestMoves
<1>5. CASE update = "noTrigger"
  <2> DEFINE r == [p EXCEPT !.trigger = "none"]
  <2>1. t = Set(r)
    BY <1>5 DEF UpdateActivity
  <2>2. r \in ActivityState
    BY <1>1, TriggerType
  <2>3. /\ Rest(p, r) /\ r.callback = p.callback /\ r.trigger = "none" /\ r.schedule = p.schedule
        /\ r.requirement = p.requirement
    BY <1>1, RestFields
  <2> HIDE DEF r
  <2>4. PrerequisitesMet(p) => PrerequisitesMet(r)
    BY <2>3 DEF PrerequisitesMet
  <2> QED
    BY <1>5, <2>1, <2>2, <2>3, <2>4, RestMoves
<1>6. CASE update = "schedule"
  <2> DEFINE r == [p EXCEPT !.schedule = "idle"]
  <2>1. t = Set(r)
    BY <1>6 DEF UpdateActivity
  <2>2. r \in ActivityState
    BY <1>1, ScheduleType
  <2>3. Rest(p, r) /\ r.callback = p.callback /\ r.trigger = p.trigger /\ r.schedule = "idle"
    BY <1>1, RestFields
  <2> HIDE DEF r
  <2>4. ~UpdatesStand /\ ~PrerequisitesMet(r)
    BY <1>6, <2>3 DEF UpdatesStand, PrerequisitesMet
  <2> QED
    BY <2>1, <2>2, <2>3, <2>4, RestMoves
<1>7. CASE update = "noSchedule"
  <2> DEFINE r == [p EXCEPT !.schedule = "none"]
  <2>1. t = Set(r)
    BY <1>7 DEF UpdateActivity
  <2>2. r \in ActivityState
    BY <1>1, ScheduleType
  <2>3. /\ Rest(p, r) /\ r.callback = p.callback /\ r.trigger = p.trigger /\ r.schedule = "none"
        /\ r.requirement = p.requirement
    BY <1>1, RestFields
  <2> HIDE DEF r
  <2>4. PrerequisitesMet(p) => PrerequisitesMet(r)
    BY <2>3 DEF PrerequisitesMet
  <2> QED
    BY <1>7, <2>1, <2>2, <2>3, <2>4, RestMoves
<1>8. CASE update = "callback"
  <2> DEFINE r == [p EXCEPT !.callback = "idle"]
  <2>1. t = Set(r)
    BY <1>8 DEF UpdateActivity
  <2>2. r \in ActivityState
    BY <1>1, CallbackType
  <2>3. /\ Rest(p, r) /\ r.callback = "idle" /\ r.trigger = p.trigger /\ r.schedule = p.schedule
        /\ r.requirement = p.requirement
    BY <1>1, RestFields
  <2> HIDE DEF r
  <2>4. PrerequisitesMet(p) = PrerequisitesMet(r)
    BY <2>3 DEF PrerequisitesMet
  <2> QED
    BY <2>1, <2>2, <2>3, <2>4, RestMoves
<1>9. CASE update = "requirement"
  <2>1. t = WithdrawIfReady(Set([p EXCEPT !.requirement = "unmet"]), a)
    BY <1>9 DEF UpdateActivity
  <2> QED
    BY <2>1, WithdrawMoves, SameAble
<1>10. CASE update = "noRequirement"
  <2> DEFINE r == [p EXCEPT !.requirement = "none"]
             u == Set(r)
             v == RunIfRunnable(u, a)
  <2>1. t = v
    BY <1>10 DEF UpdateActivity
  <2> HIDE DEF t
  <2>2. r \in ActivityState
    BY <1>1, RequirementType
  <2>3. /\ Rest(p, r) /\ r.callback = p.callback /\ r.trigger = p.trigger /\ r.schedule = p.schedule
        /\ r.requirement = "none"
    BY <1>1, RestFields
  <2> HIDE DEF r
  <2>4. PrerequisitesMet(p) => PrerequisitesMet(r)
    BY <2>3 DEF PrerequisitesMet
  <2>5. Moves(s, u, a) /\ u \in Under(a) /\ u.act[a] = r /\ (Awaited(p) => Awaited(r))
    BY <2>2, <2>3, <2>4, RestMoves
  <2> HIDE DEF u, p
  <2>6. Moves(u, v, a) /\ Asked(v.act[a]) /\ Same(r, v.act[a]) /\ v \in Under(a)
    BY <2>5, RunIfRunnableMoves
  <2> HIDE DEF v
  <2>7. Moves(s, v, a) /\ (Awaited(p) => Awaited(v.act[a]))
    BY <2>5, <2>6, MovesTransitive, SameAble
  <2> QED
    BY <2>1, <2>6, <2>7 DEF p, t
<1> QED
  BY <1>2, <1>3, <1>4, <1>5, <1>6, <1>7, <1>8, <1>9, <1>10 DEF UpdateName

\* What it waited for may have come.
LEMMA ArrivedMoves ==
  ASSUME NEW a \in Activities, NEW s \in Under(a), NEW r \in ActivityState,
         Standing(s.act[a]), Rest(s.act[a], r), r.callback = s.act[a].callback,
         r.trigger = "armed" => s.act[a].trigger = "armed",
         r.schedule = "queued" => s.act[a].schedule = "queued",
         PrerequisitesMet(s.act[a]) => PrerequisitesMet(r)
  PROVE  LET t == RunIfRunnable(SetAct(s, a, r), a)
         IN Moves(s, t, a) /\ t \in Tidy /\ Standing(t.act[a])
<1> DEFINE u == SetAct(s, a, r)
           t == RunIfRunnable(u, a)
<1>1. /\ Moves(s, u, a) /\ u \in Under(a) /\ u.act[a] = r
      /\ Awaited(s.act[a]) => Awaited(r)
  BY RestMoves
<1> HIDE DEF u
<1>2. Moves(u, t, a) /\ Asked(t.act[a]) /\ Same(r, t.act[a]) /\ t \in Under(a)
  BY <1>1, RunIfRunnableMoves
<1> HIDE DEF t
<1>3. Moves(s, t, a) /\ t \in Tidy
  BY <1>1, <1>2, MovesTransitive, UnderParts
<1>4. Standing(t.act[a])
  BY <1>1, <1>2, SameAble DEF Standing
<1> QED
  BY <1>3, <1>4 DEF t, u

LEMMA RestartFields ==
  ASSUME NEW p \in ActivityState
  PROVE  LET r == [p EXCEPT !.restart = TRUE]
         IN /\ r \in ActivityState /\ r.restart
            /\ r.life = p.life /\ r.initialized = p.initialized /\ r.scheduled = p.scheduled
            /\ r.ready = p.ready /\ r.running = p.running /\ r.ending = p.ending
            /\ r.requeue = p.requeue /\ r.terminate = p.terminate
            /\ r.extCommand = p.extCommand /\ r.intCommand = p.intCommand
            /\ r.sentCommand = p.sentCommand /\ r.adopters = p.adopters
            /\ r.subscriptions = p.subscriptions /\ r.persistCommands = p.persistCommands
            /\ r.trigger = p.trigger /\ r.schedule = p.schedule /\ r.requirement = p.requirement
            /\ r.callback = p.callback /\ r.power = p.power
<1> DEFINE r == [p EXCEPT !.restart = TRUE]
<1>1. r \in ActivityState
  BY FlagType
<1> QED
  BY <1>1, ZenonT(40) DEF ActivityState

\* complete with restart.
LEMMA CompleteAndRestartMoves ==
  ASSUME NEW a \in Activities, NEW s \in Under(a), Standing(s.act[a]),
         NEW update \in Updates
  PROVE  LET u == UpdateActivity(s, a, update)
             t == SetAct(u, a, [u.act[a] EXCEPT !.restart = TRUE])
             restart == [finish |-> "restart", sub |-> None, start |-> FALSE]
             v == IF AlreadyEnded(t.act[a], FALSE) THEN t
                  ELSE EnsureCompletion(SendCommand(t, a, "complete", FALSE), a, restart)
         IN Moves(s, v, a) /\ v \in Tidy /\ Standing(v.act[a])
<1> DEFINE u == UpdateActivity(s, a, update)
           q == u.act[a]
           r == [q EXCEPT !.restart = TRUE]
           t == SetAct(u, a, r)
           restart == [finish |-> "restart", sub |-> None, start |-> FALSE]
           w == SendCommand(t, a, "complete", FALSE)
           v == EnsureCompletion(w, a, restart)
<1>1. /\ Moves(s, u, a) /\ u \in Under(a)
      /\ EndsStand => Awaited(q)
  BY UpdateActivityMoves DEF Standing
<1>2. restart \in PersistCommand /\ restart.finish \in {"end", "restart"}
  BY DEF PersistCommand
<1> HIDE DEF u, restart
<1>3. q \in ActivityState /\ Flags(q, At(u, a), a)
  BY <1>1, UnderParts DEF Fit
<1> HIDE DEF q
<1>4. /\ r \in ActivityState /\ r.restart
      /\ r.life = q.life /\ r.initialized = q.initialized /\ r.scheduled = q.scheduled
      /\ r.ready = q.ready /\ r.running = q.running /\ r.ending = q.ending
      /\ r.requeue = q.requeue /\ r.terminate = q.terminate
      /\ r.extCommand = q.extCommand /\ r.intCommand = q.intCommand
      /\ r.sentCommand = q.sentCommand /\ r.adopters = q.adopters
      /\ r.subscriptions = q.subscriptions /\ r.persistCommands = q.persistCommands
      /\ r.trigger = q.trigger /\ r.schedule = q.schedule /\ r.requirement = q.requirement
      /\ r.callback = q.callback /\ r.power = q.power
  BY <1>3, RestartFields
<1> HIDE DEF r
<1>5. Alike(q, r)
  BY <1>3, <1>4 DEF Alike, Flags, Off, PrerequisitesMet
<1>6. Moves(u, t, a) /\ t \in Under(a) /\ t.act[a] = r
  BY <1>1, <1>4, <1>5, AlikeMoves DEF q
<1>7. EndsStand => Awaited(r)
  BY <1>1, <1>4 DEF Awaited, Due, Promises
<1> HIDE DEF t
<1>8. Moves(s, t, a)
  BY <1>1, <1>6, MovesTransitive
<1>9. CASE AlreadyEnded(r, FALSE)
  <2>1. Asked(r)
    BY <1>9, EndedAsked
  <2> QED
    BY <1>6, <1>7, <1>8, <1>9, <2>1, UnderParts DEF Standing, t, r, q, u
<1>10. CASE ~AlreadyEnded(r, FALSE)
  <2>1. "complete" \in FinalCommand
    BY DEF FinalCommand
  <2>2. Moves(t, w, a) /\ w \in Under(a) /\ Standing(w.act[a])
    BY <1>4, <1>6, <1>7, <1>10, <2>1, FinalCommandMoves
  <2> HIDE DEF w
  <2>3. Moves(w, v, a) /\ v \in Tidy /\ Standing(v.act[a])
    BY <1>2, <2>2, EndEnsureMoves
  <2> HIDE DEF v
  <2>4. Moves(s, v, a)
    BY <1>8, <2>2, <2>3, MovesTransitive
  <2> QED
    BY <1>6, <1>10, <2>3, <2>4 DEF v, w, t, r, q, u, restart
<1> QED
  BY <1>9, <1>10

\* A refused complete takes back that the Activity is to end for good.
LEMMA RefusedMoves ==
  ASSUME NEW a \in Activities, NEW s \in Under(a), ~EndsStand, NEW restart \in BOOLEAN
  PROVE  LET r == [s.act[a] EXCEPT !.restart = restart, !.terminate = FALSE]
             t == SetAct(s, a, r)
         IN Moves(s, t, a) /\ t \in Tidy /\ t.act[a] = r /\ (Asked(s.act[a]) => Asked(r))
<1> DEFINE p == s.act[a]
           q == [p EXCEPT !.restart = restart]
           r == [p EXCEPT !.restart = restart, !.terminate = FALSE]
           t == SetAct(s, a, r)
<1>1. p \in ActivityState /\ Flags(p, At(s, a), a)
  BY UnderParts DEF Fit
<1> HIDE DEF p
<1>2. q \in ActivityState /\ r = [q EXCEPT !.terminate = FALSE]
  BY <1>1, FlagType
<1>3. r \in ActivityState
  BY <1>2, FlagType
<1>4. /\ r.life = p.life /\ r.initialized = p.initialized /\ r.scheduled = p.scheduled
      /\ r.ready = p.ready /\ r.running = p.running /\ r.ending = p.ending
      /\ r.requeue = p.requeue
      /\ r.extCommand = p.extCommand /\ r.intCommand = p.intCommand
      /\ r.sentCommand = p.sentCommand /\ r.adopters = p.adopters
      /\ r.trigger = p.trigger /\ r.schedule = p.schedule /\ r.requirement = p.requirement
      /\ r.callback = p.callback /\ r.power = p.power
  BY <1>1 DEF ActivityState
<1> HIDE DEF r, q
<1>5. Alike(p, r)
  BY <1>1, <1>4 DEF Alike, Flags, Off, PrerequisitesMet
<1>6. Moves(s, t, a) /\ t \in Under(a) /\ t.act[a] = r
  BY <1>3, <1>4, <1>5, AlikeMoves DEF p
<1>7. Asked(p) => Asked(r)
  BY <1>4 DEF Asked, IsRunnable, ComputeNextExternalCommand, PrerequisitesMet
<1> HIDE DEF t
<1> QED
  BY <1>6, <1>7, UnderParts DEF t, r, p

-----------------------------------------------------------------------------
(* The Manager as a whole.                                                 *)

\* The invariant: every Activity is on one queue at most, fit to be there, and
\* stands.
Sound(s) ==
  /\ s \in Tidy
  /\ \A x \in Activities : Fit(s.act[x], At(s, x), x) /\ Standing(s.act[x])

\* The steps of the power of one Activity, and when its callback is called.
Serves(p, r, x) ==
  x \in Powered =>
    /\ \/ r.power = p.power
       \/ p.power = "unlocked" /\ r.power \in {"locking", "unlocking"}
       \/ p.power = "locking" /\ r.power = "locked"
       \/ p.power \in {"locking", "locked"} /\ r.power = "unlocking"
       \/ p.power = "unlocking" /\ r.power \in {"unlocked", "locking"}
    /\ p.callback # "calling" /\ r.callback = "calling" => r.power = "locked"

Follows(s, t) == Sound(t) /\ \A x \in Activities : Serves(s.act[x], t.act[x], x)

Members(s, q) == {x \in Activities : On(s, x, q)}

\* The background Activities that ran before and run on.
Lasting(s, t) == Cardinality(Members(s, "background") \cap Members(t, "background"))

\* Those that newly run in a class are within its limit, but for one of set A that
\* runs in the other class.
Limited(s, t, A) ==
  LET busy == GetRunningBackgroundActivitiesCount(t)
      n == Len(t.queue["backgroundInteractive"]) + Lasting(s, t)
  IN /\ Joined(s, t, "background") =>
          \/ t.level = 0
          \/ busy <= t.level
          \/ busy - 1 <= t.level /\ \E x \in A : On(t, x, "backgroundInteractive")
     /\ Joined(s, t, "backgroundInteractive") =>
          \/ InteractiveLevel = 0
          \/ n <= InteractiveLevel
          \/ n - 1 <= InteractiveLevel /\ \E x \in A : On(t, x, "background")

LEMMA MembersCount ==
  ASSUME NEW s \in Tidy, NEW q \in QueueName
  PROVE  /\ IsFiniteSet(Members(s, q)) /\ Cardinality(Members(s, q)) = Len(s.queue[q])
         /\ Members(s, q) = ToSet(s.queue[q])
<1> DEFINE list == s.queue[q]
<1>1. list \in Seq(Activities) /\ Len(list) \in Nat /\ DOMAIN list = 1..Len(list)
  BY QueueType, LenProperties DEF Tidy
<1>2. \A i, j \in 1..Len(list) : list[i] = list[j] => i = j
  BY DEF Tidy, Hooked, Once
<1>3. \A i \in 1..Len(list) : list[i] \in Activities
  BY <1>1, ElementOfSeq
<1>4. Members(s, q) = ToSet(list)
  BY <1>1, <1>3 DEF Members, On, Contains, ToSet
<1> HIDE DEF list
<1>5. Cardinality(ToSet(list)) = Len(list)
  BY <1>1, <1>2, DistinctCount
<1>6. IsFiniteSet(ToSet(list))
  <2>1. ToSet(list) = {list[i] : i \in 1..Len(list)}
    BY <1>1 DEF ToSet
  <2> DEFINE f == [i \in 1..Len(list) |-> list[i]]
  <2>2. f \in Bijection(1..Len(list), ToSet(list))
    BY <1>2, <2>1 DEF Bijection, Injection, Surjection, IsInjective
  <2> QED
    BY <1>1, <2>2, FS_NatBijection DEF ExistsBijection
<1> QED
  BY <1>4, <1>5, <1>6 DEF list

LEMMA LastingCount ==
  ASSUME NEW s \in Tidy, NEW t \in Tidy, NEW a
  PROVE  /\ Lasting(s, t) \in Nat
         /\ Lasting(s, t) <= Beside(s, a) \/ On(t, a, "background")
         /\ Lasting(s, t) - 1 <= Beside(s, a)
<1> DEFINE was == Members(s, "background")
           both == was \cap Members(t, "background")
           b == Len(s.queue["background"])
<1>1. IsFiniteSet(was) /\ Cardinality(was) = b
  BY MembersCount, QueueNames
<1>2. /\ b \in Nat
      /\ Beside(s, a) = IF On(s, a, "background") THEN b - 1 ELSE b
  BY Slots
<1>3. Lasting(s, t) = Cardinality(both)
  BY DEF Lasting
<1>4. IsFiniteSet(both) /\ Cardinality(both) <= b
  BY <1>1, FS_Subset
<1>5. Cardinality(both) \in Nat
  BY <1>4, FS_CardinalityType
<1>6. ASSUME On(s, a, "background"), ~On(t, a, "background")
      PROVE  Cardinality(both) <= b - 1
  <2>1. a \in was
    <3>1. a \in Activities
      BY <1>6, QueueType, QueueNames, ElementOfSeq DEF Tidy, On, Contains
    <3> QED
      BY <1>6, <3>1 DEF Members
  <2>2. both \in SUBSET (was \ {a})
    BY <1>6 DEF Members
  <2>3. IsFiniteSet(was \ {a}) /\ Cardinality(was \ {a}) = b - 1
    BY <1>1, <2>1, FS_RemoveElement
  <2> QED
    BY <2>2, <2>3, FS_Subset
<1> HIDE DEF was, both, b
<1> QED
  BY <1>2, <1>3, <1>4, <1>5, <1>6

LEMMA AdmitsLimited ==
  ASSUME NEW s \in Tidy, NEW t \in Tidy, NEW a, Admits(s, t, a)
  PROVE  Limited(s, t, {a})
<1> DEFINE b == Len(t.queue["background"])
           j == Len(t.queue["backgroundInteractive"])
           busy == GetRunningBackgroundActivitiesCount(t)
           n == j + Lasting(s, t)
<1>1. /\ b \in Nat /\ j \in Nat /\ t.level \in Nat /\ InteractiveLevel \in Nat
      /\ busy = b + j
      /\ Others(t, a) = IF On(t, a, "background") \/ On(t, a, "backgroundInteractive")
                        THEN b + j - 1 ELSE b + j
  BY Slots
<1>2. /\ Lasting(s, t) \in Nat
      /\ Lasting(s, t) <= Beside(s, a) \/ On(t, a, "background")
      /\ Lasting(s, t) - 1 <= Beside(s, a)
  BY LastingCount
<1>3. Beside(s, a) \in Int
  BY BesideType
<1>4. ASSUME Joined(s, t, "background")
      PROVE  \/ t.level = 0
             \/ busy <= t.level
             \/ busy - 1 <= t.level /\ On(t, a, "backgroundInteractive")
  <2>1. \/ t.level = 0
        \/ /\ Others(t, a) <= t.level
           /\ On(t, a, "background") => Others(t, a) + 1 <= t.level
    BY <1>4 DEF Admits, Snug
  <2> HIDE DEF b, j, busy
  <2> QED
    BY <1>1, <2>1
<1>5. ASSUME Joined(s, t, "backgroundInteractive")
      PROVE  \/ InteractiveLevel = 0
             \/ n <= InteractiveLevel
             \/ n - 1 <= InteractiveLevel /\ On(t, a, "background")
  <2>1. InteractiveLevel = 0 \/ j + Beside(s, a) <= InteractiveLevel
    BY <1>5 DEF Admits
  <2> HIDE DEF b, j, busy
  <2> QED
    BY <1>1, <1>2, <1>3, <2>1 DEF n
<1> QED
  BY <1>4, <1>5 DEF Limited

LEMMA LimitedMore ==
  ASSUME NEW s, NEW t, NEW A, NEW B, A \subseteq B, Limited(s, t, A)
  PROVE  Limited(s, t, B)
BY DEF Limited

\* Where no Activity is handled, none is excused.
LEMMA CheckReadyQueueLimited ==
  ASSUME NEW s \in Tidy
  PROVE  Limited(s, CheckReadyQueue(s), {})
<1> DEFINE t == CheckReadyQueue(s)
<1>1. PICK a : a \notin Activities
  BY NoSetContainsEverything
<1>2. Shift(s, t, a) /\ t \in Tidy
  BY CheckReadyQueueShift
<1> HIDE DEF t
<1>3. Limited(s, t, {a})
  BY <1>2, AdmitsLimited DEF Shift
<1>4. \A q \in QueueName : ~On(t, a, q)
  BY <1>1, <1>2, QueueType, ElementOfSeq DEF Tidy, On, Contains
<1>5. Limited(s, t, {})
  BY <1>3, <1>4, QueueNames DEF Limited
<1> QED
  BY <1>5 DEF t

LEMMA LocksServes ==
  ASSUME NEW p, NEW r, NEW x, Locks(p, r, x)
  PROVE  Serves(p, r, x)
BY DEF Locks, Serves

\* What a handler does to the others leaves them sound.
LEMMA PassedSound ==
  ASSUME NEW s \in Tidy, NEW t, NEW x \in Activities, Passed(s, t, x),
         Fit(s.act[x], At(s, x), x), Standing(s.act[x])
  PROVE  Fit(t.act[x], At(t, x), x) /\ Standing(t.act[x]) /\ Locks(s.act[x], t.act[x], x)
<1> DEFINE p == s.act[x]
           at == At(s, x)
<1>1. p \in ActivityState /\ Fit(p, at, x) /\ Standing(p)
  BY TidyParts
<1>2. \/ t.act[x] = p /\ At(t, x) = at
      \/ /\ at \cap ReadyQueues # {}
         /\ t.act[x] = RunActivity(p)
         /\ \E q \in RunningQueues : At(t, x) = {q}
  BY PassedAt DEF ReadyQueues, RunningQueues
<1> HIDE DEF p, at
<1>3. CASE t.act[x] = p /\ At(t, x) = at
  BY <1>1, <1>3 DEF Locks, p
<1>4. ASSUME at \cap ReadyQueues # {}, t.act[x] = RunActivity(p),
             NEW q \in RunningQueues, At(t, x) = {q}
      PROVE  Fit(t.act[x], At(t, x), x) /\ Standing(t.act[x]) /\ Locks(p, t.act[x], x)
  <2>1. p.ready /\ ~p.running
    BY <1>1, <1>4 DEF Fit, Flags
  <2>2. EndsStand => p.life = "live"
    BY <1>1, <1>4 DEF Fit, Kept
  <2> DEFINE r == RunActivity(p)
  <2>3. Fit(r, {q}, x) /\ Asked(r) /\ Locks(p, r, x) /\ Same(p, r)
    BY <1>1, <2>1, <2>2, RunFit
  <2> HIDE DEF r
  <2>4. Standing(r)
    BY <1>1, <2>3, SameAble DEF Standing
  <2> QED
    BY <1>4, <2>3, <2>4 DEF r
<1> QED
  BY <1>2, <1>3, <1>4 DEF p

LEMMA ShiftFollows ==
  ASSUME NEW s, NEW a \in Activities, NEW t, Sound(s), Shift(s, t, a),
         Fit(t.act[a], At(t, a), a), Standing(t.act[a]), Serves(s.act[a], t.act[a], a)
  PROVE  t \in ManagerState /\ Follows(s, t) /\ Limited(s, t, {a})
<1>1. t \in Tidy /\ s \in Tidy
  BY DEF Shift
<1>2. ASSUME NEW x \in Activities
      PROVE  Fit(t.act[x], At(t, x), x) /\ Standing(t.act[x]) /\ Serves(s.act[x], t.act[x], x)
  <2>1. CASE x # a
    <3>1. Passed(s, t, x)
      BY <2>1 DEF Shift
    <3> QED
      BY <1>1, <3>1, PassedSound, LocksServes DEF Sound
  <2> QED
    BY <2>1
<1>3. Limited(s, t, {a})
  BY AdmitsLimited DEF Shift
<1> QED
  BY <1>1, <1>2, <1>3 DEF Follows, Sound, Tidy

\* The end of a handler of a.
LEMMA ReapFollows ==
  ASSUME NEW s, NEW a \in Activities, NEW t, Sound(s), Shift(s, t, a),
         Fit(t.act[a], At(t, a), a), Standing(t.act[a]), Serves(s.act[a], t.act[a], a)
  PROVE  LET u == Reap(t, a)
         IN u \in ManagerState /\ Follows(s, u) /\ Limited(s, u, {a})
<1> DEFINE u == Reap(t, a)
<1>1. t \in Tidy /\ u \in {t, Unlink(t, a)}
  BY DEF Reap, Shift
<1>2. Shift(t, u, a) /\ u.act = t.act /\ At(u, a) \in {At(t, a), {}}
  BY <1>1, UnlinkShift, ShiftSame
<1> HIDE DEF u
<1>3. Shift(s, u, a)
  BY <1>2, ShiftTransitive
<1>4. Fit(u.act[a], At(u, a), a)
  BY <1>2, FitApart
<1> QED
  BY <1>2, <1>3, <1>4, ShiftFollows DEF u

LEMMA HandleFollows ==
  ASSUME Sound(Now), NEW a \in Activities, NEW t, Handle(t, a),
         Moves(Now, t, a), Standing(t.act[a])
  PROVE  \E u \in ManagerState : Become(u) /\ Follows(Now, u) /\ Limited(Now, u, {a})
<1>1. Serves(Now.act[a], t.act[a], a)
  BY LocksServes DEF Moves
<1>2. LET u == Reap(t, a) IN u \in ManagerState /\ Follows(Now, u) /\ Limited(Now, u, {a})
  BY <1>1, ReapFollows DEF Moves
<1> QED
  BY <1>2 DEF Handle

\* A call or a notification finds an Activity that may be handled.
LEMMA UnderNow ==
  ASSUME Sound(Now), NEW a \in Activities
  PROVE  /\ Now \in Tidy /\ Now \in ManagerState /\ Now.act[a] = act[a]
         /\ act[a] \in ActivityState
         /\ Fit(act[a], At(Now, a), a) /\ Flags(act[a], At(Now, a), a) /\ Standing(act[a])
         /\ Exists(act[a]) => Now \in Under(a)
         /\ CanLookup(act[a]) => Now \in Under(a)
<1>1. Now \in Tidy /\ Now.act[a] = act[a]
  BY DEF Sound, Now
<1>2. Fit(act[a], At(Now, a), a) /\ Standing(act[a])
  BY <1>1 DEF Sound
<1>3. Exists(act[a]) => Able(act[a])
  BY <1>2 DEF Exists, Able, Abides, Fit, Kept
<1>4. CanLookup(act[a]) => Exists(act[a])
  BY DEF CanLookup, Exists
<1>5. Flags(act[a], At(Now, a), a)
  BY <1>2 DEF Fit
<1> QED
  BY <1>1, <1>2, <1>3, <1>4, <1>5, TidyParts DEF Under

\* create.
LEMMA CreateMoves ==
  ASSUME NEW a \in Activities, NEW s \in Tidy, Fit(s.act[a], At(s, a), a),
         s.act[a].life = "new",
         NEW b \in Subscribers \cup {None}, NEW start \in BOOLEAN,
         NEW requirement \in {"none", "met", "unmet"},
         b # None \/ (start /\ s.act[a].callback # "none")
  PROVE  LET r == [s.act[a] EXCEPT !.life = "live", !.named = TRUE,
                                   !.requirement = requirement]
             create == [finish |-> "create", sub |-> b, start |-> start]
             t == EnsureCompletion(SetAct(s, a, r), a, create)
         IN Moves(s, t, a) /\ t \in Tidy /\ Standing(t.act[a])
<1> DEFINE p == s.act[a]
           q == [p EXCEPT !.life = "live", !.named = TRUE]
           r == [p EXCEPT !.life = "live", !.named = TRUE, !.requirement = requirement]
           create == [finish |-> "create", sub |-> b, start |-> start]
           u == SetAct(s, a, r)
           t == EnsureCompletion(u, a, create)
<1>1. p \in ActivityState /\ Fit(p, At(s, a), a) /\ p.life = "new"
  BY TidyParts
<1>2. create \in PersistCommand /\ create.finish = "create" /\ create.sub = b /\ create.start = start
  BY DEF PersistCommand
<1>3. b # None \/ (start /\ p.callback # "none")
  OBVIOUS
<1> HIDE DEF create, p
<1>4. /\ At(s, a) = {} /\ p.persistCommands = << >> /\ p.extCommand = "none"
      /\ ~p.initialized /\ ~p.scheduled /\ ~p.requeue /\ ~p.ready /\ ~p.running
      /\ p.callback # "calling" /\ Off(p) /\ p.sentCommand # "start"
      /\ (p.power = "none") = (a \notin Powered)
      /\ StartsStand => Heard(p)
  BY <1>1 DEF Fit, Flags
<1>5. q \in ActivityState /\ r = [q EXCEPT !.requirement = requirement]
  BY <1>1 DEF ActivityState
<1>6. r \in ActivityState
  BY <1>5, RequirementType
<1>7. /\ r.life = "live" /\ r.initialized = p.initialized /\ r.scheduled = p.scheduled
      /\ r.ready = p.ready /\ r.running = p.running /\ r.requeue = p.requeue
      /\ r.extCommand = p.extCommand /\ r.intCommand = p.intCommand
      /\ r.sentCommand = p.sentCommand /\ r.adopters = p.adopters
      /\ r.persistCommands = p.persistCommands
      /\ r.callback = p.callback /\ r.power = p.power
  BY <1>1 DEF ActivityState
<1> HIDE DEF r, q
<1>8. Flags(r, {}, a) /\ Able(r) /\ Locks(p, r, a)
  BY <1>4, <1>7 DEF Flags, Able, Abides, Off, Locks
<1>9. Fit(r, {}, a)
  BY <1>4, <1>7, <1>8 DEF Fit, Wanted, Heard, Kept, ReadyQueues
<1>10. Moves(s, u, a) /\ u \in Under(a) /\ u.act[a] = r
  <2>1. Fit(r, At(s, a), a) /\ Locks(s.act[a], r, a)
    BY <1>4, <1>8, <1>9 DEF p
  <2> QED
    BY <1>6, <1>8, <2>1, SetActMoves
<1>11. Asked(r) /\ Promises(create, r)
  BY <1>2, <1>3, <1>4, <1>7
     DEF Asked, IsRunnable, ComputeNextExternalCommand, Promises
<1> HIDE DEF u
<1>12. CASE a \in Persistent
  <2>1. t = HookPersistCommand(u, a, create)
    BY <1>12 DEF EnsureCompletion
  <2> HIDE DEF t
  <2>2. Moves(u, t, a) /\ t \in Tidy /\ Standing(t.act[a])
    BY <1>2, <1>4, <1>7, <1>10, <1>11, <2>1, HookPersistCommandMoves
  <2> QED
    BY <1>10, <2>2, MovesTransitive DEF t, u, r, p, create
<1>13. CASE a \notin Persistent
  <2>1. t = FinishCall(u, a, create)
    BY <1>4, <1>7, <1>10, <1>13 DEF EnsureCompletion
  <2> HIDE DEF t
  <2>2. /\ Moves(u, t, a) /\ t \in Tidy /\ (StartsStand => Asked(t.act[a]))
        /\ EndsStand => ~Due(t.act[a])
    BY <1>2, <1>10, <1>11, <2>1, FinishCallMoves
  <2>3. Moves(s, t, a) /\ Standing(t.act[a])
    BY <1>10, <2>2, MovesTransitive DEF Standing, Awaited
  <2> QED
    BY <2>2, <2>3 DEF t, u, r, p, create
<1> QED
  BY <1>12, <1>13

\* join, and the subscription of an adopter.
LEMMA JoinMoves ==
  ASSUME NEW a \in Activities, NEW s \in Under(a), Standing(s.act[a]), NEW b \in Subscribers
  PROVE  LET r == AddSubscription(s.act[a], b)
             t == SetAct(s, a, r)
         IN /\ Moves(s, t, a) /\ t \in Under(a) /\ Standing(t.act[a])
            /\ b \in t.act[a].subscriptions
<1> DEFINE p == s.act[a]
           r == AddSubscription(p, b)
           t == SetAct(s, a, r)
<1>1. p \in ActivityState /\ Standing(p)
  BY UnderParts
<1> HIDE DEF p
<1>2. r \in ActivityState
  BY <1>1, AddSubscriptionType
<1>3. r = [p EXCEPT !.subscriptions = p.subscriptions \cup {b}]
  BY DEF AddSubscription
<1> HIDE DEF r
<1>4. Even(p, r) /\ r.adopters = p.adopters /\ b \in r.subscriptions
  BY <1>1, <1>3 DEF Even, ActivityState
<1>5. Moves(s, t, a) /\ t \in Under(a) /\ t.act[a] = r /\ (Asked(p) => Asked(r))
  BY <1>2, <1>4, EvenMoves DEF p
<1>6. Standing(r)
  BY <1>1, <1>4, <1>5 DEF Standing, Awaited, Due
<1> HIDE DEF t
<1> QED
  BY <1>4, <1>5, <1>6 DEF t, r, p

LEMMA ClientFollows ==
  ASSUME Sound(Now), FamilySubscribes, NEW a \in Activities, ClientCall(a)
  PROVE  \E u \in ManagerState : Become(u) /\ Follows(Now, u) /\ Limited(Now, u, {a})
<1> DEFINE Goal == \E u \in ManagerState : Become(u) /\ Follows(Now, u) /\ Limited(Now, u, {a})
<1>1.   \/ \E b \in Subscribers \cup {None}, start \in BOOLEAN,
              requirement \in {"none", "met", "unmet"} :
             CreateActivity(a, b, start, requirement)
        \/ \E b \in Subscribers : JoinActivity(a, b)
        \/ \E b \in Subscribers : AdoptActivity(a, b)
        \/ ReleaseCall(a)
        \/ StartActivity(a)
        \/ PauseActivity(a)
        \/ StopActivity(a)
        \/ CancelActivity(a)
        \/ CompleteActivity(a)
        \/ \E update \in Updates : CompleteAndRestart(a, update)
        \/ RefusedComplete(a)
        \/ \E update \in Updates : RefusedCompleteAndRestart(a, update)
        \/ \E b \in Subscribers : LeaveWhenTold(a, b)
        \/ \E b \in Subscribers : LeaveUntold(a, b)
  BY DEF ClientCall
<1>2. /\ Now \in Tidy /\ Now \in ManagerState /\ Now.act[a] = act[a]
      /\ act[a] \in ActivityState
      /\ Fit(act[a], At(Now, a), a) /\ Flags(act[a], At(Now, a), a) /\ Standing(act[a])
      /\ Exists(act[a]) => Now \in Under(a)
      /\ CanLookup(act[a]) => Now \in Under(a)
  BY UnderNow
<1>3. ASSUME NEW t, Handle(t, a), Moves(Now, t, a), Standing(t.act[a])
      PROVE  Goal
  BY <1>3, HandleFollows
<1> SUFFICES Goal
  OBVIOUS
<1>4. /\ {"start", "pause", "cancel"} \subseteq ActivityCommand \ {"none"}
      /\ "stop" \in FinalCommand /\ "cancel" \in FinalCommand /\ "complete" \in FinalCommand
      /\ TRUE \in BOOLEAN /\ FALSE \in BOOLEAN /\ "start" # "pause"
  BY DEF ActivityCommand, FinalCommand
<1> HIDE DEF Goal
<1>5. ASSUME NEW b \in Subscribers \cup {None}, NEW start \in BOOLEAN,
             NEW requirement \in {"none", "met", "unmet"},
             CreateActivity(a, b, start, requirement)
      PROVE  Goal
  <2> DEFINE r == [act[a] EXCEPT !.life = "live", !.named = TRUE, !.requirement = requirement]
             create == [finish |-> "create", sub |-> b, start |-> start]
             t == EnsureCompletion(SetAct(Now, a, r), a, create)
  <2>1. /\ Handle(t, a) /\ act[a].life = "new"
        /\ b # None \/ (start /\ act[a].callback # "none")
    BY <1>5 DEF CreateActivity
  <2>2. Moves(Now, t, a) /\ Standing(t.act[a])
    BY <1>2, <2>1, CreateMoves, ZenonT(40)
  <2> QED
    BY <1>3, <2>1, <2>2
<1>6. ASSUME NEW b \in Subscribers, JoinActivity(a, b)
      PROVE  Goal
  <2> DEFINE t == SetAct(Now, a, AddSubscription(act[a], b))
  <2>1. Handle(t, a) /\ CanLookup(act[a])
    BY <1>6 DEF JoinActivity
  <2>2. Moves(Now, t, a) /\ Standing(t.act[a])
    BY <1>2, <2>1, JoinMoves
  <2> QED
    BY <1>3, <2>1, <2>2
<1>7. ASSUME NEW b \in Subscribers, AdoptActivity(a, b)
      PROVE  Goal
  <2> DEFINE s == SetAct(Now, a, AddSubscription(act[a], b))
             t == Adopt(s, a, b)
  <2>1. Handle(t, a) /\ CanLookup(act[a]) /\ ~StartsStand
    BY <1>7 DEF AdoptActivity, StartsStand
  <2>2. Moves(Now, s, a) /\ s \in Under(a) /\ b \in s.act[a].subscriptions
    BY <1>2, <2>1, JoinMoves
  <2> HIDE DEF s
  <2>3. Moves(s, t, a) /\ Standing(t.act[a])
    BY <2>1, <2>2, AdoptMoves
  <2> QED
    BY <1>3, <2>1, <2>2, <2>3, MovesTransitive
<1>8. CASE ReleaseCall(a)
  <2> DEFINE t == Release(Now, a)
  <2>1. Handle(t, a) /\ CanLookup(act[a]) /\ act[a].parent # None
    BY <1>8 DEF ReleaseCall
  <2>2. act[a].subscriptions # {}
    BY <2>1 DEF FamilySubscribes
  <2>3. Moves(Now, t, a) /\ Standing(t.act[a])
    BY <1>2, <2>1, <2>2, ReleaseMoves
  <2> QED
    BY <1>3, <2>1, <2>3
<1>9. CASE StartActivity(a)
  <2> DEFINE t == SendCommand(Now, a, "start", FALSE)
  <2>1. Handle(t, a) /\ CanLookup(act[a])
    BY <1>9 DEF StartActivity
  <2>2. Moves(Now, t, a) /\ Standing(t.act[a])
    BY <1>2, <1>4, <2>1, SendCommandMoves DEF Standing
  <2> QED
    BY <1>3, <2>1, <2>2
<1>10. CASE PauseActivity(a)
  <2> DEFINE t == SendCommand(Now, a, "pause", FALSE)
  <2>1. Handle(t, a) /\ CanLookup(act[a]) /\ ~StartsStand
    BY <1>10 DEF PauseActivity, StartsStand
  <2>2. Moves(Now, t, a) /\ Standing(t.act[a])
    BY <1>2, <1>4, <2>1, SendCommandMoves DEF Standing
  <2> QED
    BY <1>3, <2>1, <2>2
<1>11. ASSUME NEW command \in FinalCommand, CanLookup(act[a]), Handle(EndCall(Now, a, command), a)
       PROVE  Goal
  <2> DEFINE t == EndCall(Now, a, command)
  <2>1. Moves(Now, t, a) /\ Standing(t.act[a])
    BY <1>2, <1>11, EndCallMoves
  <2> QED
    BY <1>3, <1>11, <2>1
<1>12. CASE StopActivity(a) \/ CancelActivity(a) \/ CompleteActivity(a)
  BY <1>4, <1>11, <1>12 DEF StopActivity, CancelActivity, CompleteActivity
<1>13. ASSUME NEW update \in Updates, CompleteAndRestart(a, update)
       PROVE  Goal
  <2> DEFINE s == UpdateActivity(Now, a, update)
             r == SetAct(s, a, [s.act[a] EXCEPT !.restart = TRUE])
             restart == [finish |-> "restart", sub |-> None, start |-> FALSE]
             t == IF AlreadyEnded(r.act[a], FALSE) THEN r
                  ELSE EnsureCompletion(SendCommand(r, a, "complete", FALSE), a, restart)
  <2>1. Handle(t, a) /\ CanLookup(act[a])
    BY <1>13 DEF CompleteAndRestart
  <2>2. Moves(Now, t, a) /\ Standing(t.act[a])
    BY <1>2, <2>1, CompleteAndRestartMoves
  <2> QED
    BY <1>3, <2>1, <2>2
<1>14. CASE RefusedComplete(a)
  <2> DEFINE r == [act[a] EXCEPT !.terminate = FALSE]
             same == act[a].restart
             q == [Now.act[a] EXCEPT !.restart = same, !.terminate = FALSE]
             t == SetAct(Now, a, r)
  <2>1. Handle(t, a) /\ CanLookup(act[a]) /\ ~EndsStand
    BY <1>14 DEF RefusedComplete, EndsStand
  <2>2. same \in BOOLEAN /\ r = q
    BY <1>2 DEF ActivityState
  <2> HIDE DEF r, same
  <2>3. Moves(Now, t, a) /\ t.act[a] = r /\ (Asked(act[a]) => Asked(r))
    <3>1. LET u == SetAct(Now, a, q)
          IN Moves(Now, u, a) /\ u.act[a] = q /\ (Asked(Now.act[a]) => Asked(q))
      BY <1>2, <2>1, <2>2, RefusedMoves
    <3> HIDE DEF q
    <3> QED
      BY <1>2, <2>2, <3>1
  <2> QED
    BY <1>2, <1>3, <2>1, <2>3 DEF Standing
<1>15. ASSUME NEW update \in Updates, RefusedCompleteAndRestart(a, update)
       PROVE  Goal
  <2> DEFINE s == UpdateActivity(Now, a, update)
             r == [s.act[a] EXCEPT !.restart = TRUE, !.terminate = FALSE]
             t == SetAct(s, a, r)
  <2>1. Handle(t, a) /\ CanLookup(act[a]) /\ ~EndsStand
    BY <1>15 DEF RefusedCompleteAndRestart, EndsStand
  <2>2. StartsStand => update \notin {"noTrigger", "noSchedule"}
    BY <1>15 DEF RefusedCompleteAndRestart, StartsStand
  <2>3. /\ Moves(Now, s, a) /\ s \in Under(a)
        /\ StartsStand => Asked(s.act[a])
    BY <1>2, <2>1, <2>2, UpdateActivityMoves DEF Standing
  <2> HIDE DEF s
  <2>4. Moves(s, t, a) /\ t.act[a] = r /\ (Asked(s.act[a]) => Asked(r))
    BY <1>4, <2>1, <2>3, RefusedMoves
  <2>5. Moves(Now, t, a) /\ Standing(t.act[a])
    BY <2>1, <2>3, <2>4, MovesTransitive DEF Standing
  <2> QED
    BY <1>3, <2>1, <2>5
<1>16. ASSUME NEW b \in Subscribers, LeaveWhenTold(a, b) \/ LeaveUntold(a, b)
       PROVE  Goal
  <2> DEFINE t == RemoveSubscription(Now, a, b)
  <2>1. Handle(t, a) /\ Exists(act[a])
    BY <1>16 DEF LeaveWhenTold, LeaveUntold, Leave
  <2>2. Moves(Now, t, a) /\ Standing(t.act[a])
    BY <1>2, <2>1, RemoveSubscriptionMoves
  <2> QED
    BY <1>3, <2>1, <2>2
<1> QED
  BY <1>1, <1>5, <1>6, <1>7, <1>8, <1>9, <1>10, <1>12, <1>13, <1>14, <1>15, <1>16

\* The power of a is on: the one step of a power that no handler takes.
LEMMA LockedFollows ==
  ASSUME Sound(Now), NEW a \in Activities, PowerLockedNotification(a)
  PROVE  \E u \in ManagerState : Become(u) /\ Follows(Now, u) /\ Limited(Now, u, {a})
<1> DEFINE p == act[a]
           q == [p EXCEPT !.power = "locked"]
           r == IF q.ending THEN q ELSE DoRunActivity(q)
           t == SetAct(Now, a, r)
           at == At(Now, a)
<1>1. /\ Now \in Tidy /\ Now.act[a] = p /\ p \in ActivityState
      /\ Fit(p, at, a) /\ Standing(p)
  BY UnderNow
<1>2. p.power = "locking" /\ Handle(t, a)
  BY DEF PowerLockedNotification
<1> HIDE DEF p, at
<1>3. q \in ActivityState
  BY <1>1, PowerType
<1>4. q.power = "locked"
  BY <1>1 DEF ActivityState
<1>5. /\ q.life = p.life /\ q.initialized = p.initialized /\ q.scheduled = p.scheduled
      /\ q.ready = p.ready /\ q.running = p.running /\ q.ending = p.ending
      /\ q.requeue = p.requeue /\ q.terminate = p.terminate
      /\ q.extCommand = p.extCommand /\ q.intCommand = p.intCommand
      /\ q.sentCommand = p.sentCommand /\ q.adopters = p.adopters
      /\ q.subscriptions = p.subscriptions /\ q.persistCommands = p.persistCommands
      /\ q.trigger = p.trigger /\ q.schedule = p.schedule /\ q.requirement = p.requirement
      /\ q.callback = p.callback
  BY <1>1 DEF ActivityState
<1> HIDE DEF q
<1>6. LET d == DoRunActivity(q)
      IN /\ d \in ActivityState
         /\ d.life = q.life /\ d.initialized = q.initialized /\ d.scheduled = q.scheduled
         /\ d.ready = q.ready /\ d.running = q.running /\ d.ending = q.ending
         /\ d.requeue = q.requeue /\ d.terminate = q.terminate /\ d.power = q.power
         /\ d.extCommand = q.extCommand /\ d.intCommand = q.intCommand
         /\ d.adopters = q.adopters
         /\ d.subscriptions = q.subscriptions /\ d.persistCommands = q.persistCommands
         /\ d.trigger = q.trigger /\ d.schedule = q.schedule /\ d.requirement = q.requirement
         /\ (d.callback = "none") = (q.callback = "none")
  <2>1. DoRunActivity(q) \in ActivityState
    BY <1>3, DoRunActivityType
  <2> QED
    BY <1>3, <2>1 DEF DoRunActivity, BroadcastCommand, ActivityState, FinalCommand
<1>7. /\ r \in ActivityState
      /\ r.life = p.life /\ r.initialized = p.initialized /\ r.scheduled = p.scheduled
      /\ r.ready = p.ready /\ r.running = p.running /\ r.ending = p.ending
      /\ r.requeue = p.requeue /\ r.terminate = p.terminate /\ r.power = "locked"
      /\ r.extCommand = p.extCommand /\ r.intCommand = p.intCommand
      /\ r.adopters = p.adopters
      /\ r.subscriptions = p.subscriptions /\ r.persistCommands = p.persistCommands
      /\ r.trigger = p.trigger /\ r.schedule = p.schedule /\ r.requirement = p.requirement
      /\ (r.callback = "none") = (p.callback = "none")
  BY <1>3, <1>4, <1>5, <1>6
<1> HIDE DEF r
<1>8. Flags(p, at, a) /\ p.running /\ p.scheduled /\ p.initialized /\ p.extCommand # "none"
  BY <1>1, <1>2 DEF Fit, Flags, Off
<1>9. Flags(r, at, a)
  BY <1>2, <1>7, <1>8 DEF Flags, Off
<1>10. /\ UpdatesStand => Wanted(r, at)
       /\ StartsStand => Heard(r)
       /\ EndsStand => Kept(r, at)
  BY <1>1, <1>2, <1>7 DEF Fit, Wanted, Heard, Kept, Abides, Exists, PrerequisitesMet, Off
<1>11. Standing(r)
  BY <1>1, <1>7, <1>8 DEF Standing, Asked, Awaited, Due, Promises
<1>12. Serves(p, r, a)
  BY <1>2, <1>7 DEF Serves
<1>13. Shift(Now, t, a) /\ t.act[a] = r /\ At(t, a) = at
  BY <1>1, <1>7, SetActShift DEF at
<1> HIDE DEF t
<1>14. LET u == Reap(t, a) IN u \in ManagerState /\ Follows(Now, u) /\ Limited(Now, u, {a})
  BY <1>1, <1>9, <1>10, <1>11, <1>12, <1>13, ReapFollows DEF Fit
<1> QED
  BY <1>2, <1>14 DEF Handle

\* The power of a is off: the end of a goes on.
LEMMA UnlockedFollows ==
  ASSUME Sound(Now), NEW a \in Activities, PowerUnlockedNotification(a)
  PROVE  \E u \in ManagerState : Become(u) /\ Follows(Now, u) /\ Limited(Now, u, {a})
<1> DEFINE p == act[a]
           q == [p EXCEPT !.power = "unlocked"]
           s == SetAct(Now, a, q)
           t == IF p.ending THEN EndActivity(s, a) ELSE s
           at == At(Now, a)
<1>1. p.power = "unlocking" /\ Handle(t, a) /\ Exists(p)
  BY DEF PowerUnlockedNotification
<1>2. /\ Now \in Tidy /\ Now.act[a] = p /\ p \in ActivityState
      /\ Fit(p, at, a) /\ Flags(p, at, a) /\ Standing(p) /\ Able(p)
  BY <1>1, UnderNow, UnderParts
<1> HIDE DEF p, at
<1>3. q \in ActivityState
  BY <1>2, PowerType
<1>4. q.power = "unlocked"
  BY <1>2 DEF ActivityState
<1>5. /\ q.life = p.life /\ q.initialized = p.initialized /\ q.scheduled = p.scheduled
      /\ q.ready = p.ready /\ q.running = p.running /\ q.ending = p.ending
      /\ q.requeue = p.requeue /\ q.terminate = p.terminate
      /\ q.extCommand = p.extCommand /\ q.intCommand = p.intCommand
      /\ q.sentCommand = p.sentCommand /\ q.adopters = p.adopters
      /\ q.subscriptions = p.subscriptions /\ q.persistCommands = p.persistCommands
      /\ q.trigger = p.trigger /\ q.schedule = p.schedule /\ q.requirement = p.requirement
      /\ q.callback = p.callback
  BY <1>2 DEF ActivityState
<1> HIDE DEF q
<1>6. Alike(p, q)
  BY <1>1, <1>2, <1>4, <1>5 DEF Alike, Flags, Off, PrerequisitesMet
<1>7. Fit(q, at, a) /\ Able(q)
  BY <1>2, <1>5, <1>6, AlikeFit
<1>8. Standing(q)
  BY <1>2, <1>5 DEF Standing, Asked, Awaited, Due, Promises, IsRunnable,
                    ComputeNextExternalCommand, PrerequisitesMet
<1>9. Shift(Now, s, a) /\ s \in Tidy /\ s.act[a] = q /\ At(s, a) = at
  BY <1>2, <1>3, SetActShift DEF at
<1> HIDE DEF s
<1>10. s \in Under(a)
  BY <1>7, <1>9 DEF Under
<1>11. /\ Shift(s, t, a) /\ Fit(t.act[a], At(t, a), a) /\ Standing(t.act[a])
       /\ Locks(q, t.act[a], a)
  <2>1. CASE p.ending
    <3>1. LET e == EndActivity(s, a)
          IN Moves(s, e, a) /\ Asked(e.act[a]) /\ Awaited(e.act[a])
      BY <1>10, EndActivityMoves DEF Settled
    <3> QED
      BY <1>9, <2>1, <3>1 DEF Moves, Standing
  <2>2. CASE ~p.ending
    BY <1>7, <1>8, <1>9, <2>2, ShiftSame DEF Locks
  <2> QED
    BY <2>1, <2>2
<1> HIDE DEF t
<1>12. Serves(p, t.act[a], a)
  BY <1>1, <1>4, <1>5, <1>11 DEF Serves, Locks
<1>13. Shift(Now, t, a)
  BY <1>9, <1>11, ShiftTransitive
<1>14. LET u == Reap(t, a) IN u \in ManagerState /\ Follows(Now, u) /\ Limited(Now, u, {a})
  BY <1>2, <1>11, <1>12, <1>13, ReapFollows
<1> QED
  BY <1>1, <1>14 DEF Handle

\* The callback has failed: the run ends, and is to be repeated; or the Activity
\* is cancelled.
LEMMA CallbackFailsMoves ==
  ASSUME NEW a \in Activities, NEW s \in Under(a), Standing(s.act[a]),
         s.act[a].callback = "calling"
  PROVE  /\ LET r == [s.act[a] EXCEPT !.callback = "idle", !.requeue = TRUE]
                t == EndActivity(SetAct(s, a, r), a)
            IN Moves(s, t, a) /\ Standing(t.act[a])
         /\ LET r == [s.act[a] EXCEPT !.callback = "idle", !.terminate = TRUE]
                t == SendCommand(SetAct(s, a, r), a, "cancel", TRUE)
            IN Moves(s, t, a) /\ Standing(t.act[a])
<1> DEFINE p == s.act[a]
           quiet == [p EXCEPT !.callback = "idle"]
           q == [p EXCEPT !.callback = "idle", !.requeue = TRUE]
           r == [p EXCEPT !.callback = "idle", !.terminate = TRUE]
           u == SetAct(s, a, q)
           v == SetAct(s, a, r)
           e == EndActivity(u, a)
           c == SendCommand(v, a, "cancel", TRUE)
<1>1. /\ p \in ActivityState /\ Flags(p, At(s, a), a) /\ Standing(p)
      /\ p.callback = "calling"
  BY UnderParts DEF Fit
<1>2. p.initialized
  BY <1>1 DEF Flags
<1> HIDE DEF p
<1>3. /\ quiet \in ActivityState
      /\ q = [quiet EXCEPT !.requeue = TRUE] /\ r = [quiet EXCEPT !.terminate = TRUE]
  BY <1>1, CallbackType
<1>4. q \in ActivityState /\ r \in ActivityState
  BY <1>3, FlagType
<1>5. /\ q.life = p.life /\ q.initialized = p.initialized /\ q.scheduled = p.scheduled
      /\ q.ready = p.ready /\ q.running = p.running /\ q.terminate = p.terminate
      /\ q.extCommand = p.extCommand /\ q.intCommand = p.intCommand
      /\ q.sentCommand = p.sentCommand /\ q.adopters = p.adopters
      /\ q.trigger = p.trigger /\ q.schedule = p.schedule /\ q.requirement = p.requirement
      /\ q.callback = "idle" /\ q.power = p.power
  BY <1>1 DEF ActivityState
<1>6. /\ r.life = p.life /\ r.initialized = p.initialized /\ r.scheduled = p.scheduled
      /\ r.ready = p.ready /\ r.running = p.running /\ r.ending = p.ending
      /\ r.requeue = p.requeue
      /\ r.extCommand = p.extCommand /\ r.intCommand = p.intCommand
      /\ r.sentCommand = p.sentCommand /\ r.adopters = p.adopters
      /\ r.subscriptions = p.subscriptions /\ r.persistCommands = p.persistCommands
      /\ r.trigger = p.trigger /\ r.schedule = p.schedule /\ r.requirement = p.requirement
      /\ r.callback = "idle" /\ r.power = p.power
  BY <1>1 DEF ActivityState
<1>7. r.terminate
  BY <1>1 DEF ActivityState
<1> HIDE DEF q, r, quiet
<1>8. Alike(p, q)
  BY <1>1, <1>2, <1>5 DEF Alike, Flags, Off, PrerequisitesMet
<1>9. Alike(p, r)
  BY <1>1, <1>6, <1>7 DEF Alike, Flags, Off, PrerequisitesMet
<1>10. Standing(r)
  BY <1>1, <1>2, <1>6 DEF Standing, Asked, Awaited, Due, IsRunnable,
                          ComputeNextExternalCommand, PrerequisitesMet
<1>11. Moves(s, u, a) /\ u \in Under(a) /\ u.act[a] = q
  BY <1>4, <1>5, <1>8, AlikeMoves DEF p
<1>12. Moves(s, v, a) /\ v \in Under(a) /\ v.act[a] = r
  BY <1>4, <1>6, <1>9, AlikeMoves DEF p
<1> HIDE DEF u, v
<1>13. Moves(u, e, a) /\ Asked(e.act[a]) /\ Awaited(e.act[a])
  BY <1>11, EndActivityMoves DEF Settled
<1>14. "cancel" \in ActivityCommand \ {"none"} /\ TRUE \in BOOLEAN
  BY DEF ActivityCommand, FinalCommand
<1>15. /\ Moves(v, c, a)
       /\ StartsStand => Asked(c.act[a])
       /\ Awaited(r) => Awaited(c.act[a])
  BY <1>12, <1>14, SendCommandMoves
<1> HIDE DEF e, c
<1>16. Moves(s, e, a) /\ Standing(e.act[a])
  BY <1>11, <1>13, MovesTransitive DEF Standing
<1>17. Moves(s, c, a) /\ Standing(c.act[a])
  BY <1>10, <1>12, <1>15, MovesTransitive DEF Standing
<1> QED
  BY <1>16, <1>17 DEF e, c, u, v, q, r, p

LEMMA ReplyFollows ==
  ASSUME Sound(Now), NEW a \in Activities, ReplyTo(a)
  PROVE  \E u \in ManagerState : Become(u) /\ Follows(Now, u) /\ Limited(Now, u, {a})
<1> DEFINE Goal == \E u \in ManagerState : Become(u) /\ Follows(Now, u) /\ Limited(Now, u, {a})
<1>1.   \/ CallbackSucceeds(a)
        \/ CallbackFailsTransiently(a)
        \/ CallbackFailsPermanently(a)
        \/ TriggerFires(a)
        \/ ScheduleComesDue(a)
        \/ RequirementMet(a)
        \/ RequirementUnmet(a)
        \/ PowerLockedNotification(a)
        \/ PowerUnlockedNotification(a)
        \/ PersistCommandCompletes(a)
  BY DEF ReplyTo
<1> DEFINE p == act[a]
<1>2. /\ Now \in Tidy /\ Now \in ManagerState /\ Now.act[a] = p
      /\ p \in ActivityState
      /\ Fit(p, At(Now, a), a) /\ Flags(p, At(Now, a), a) /\ Standing(p)
      /\ Exists(p) => Now \in Under(a)
  BY UnderNow
<1>3. ASSUME NEW t, Handle(t, a), Moves(Now, t, a), Standing(t.act[a])
      PROVE  Goal
  BY <1>3, HandleFollows
<1> SUFFICES Goal
  OBVIOUS
<1>4. CASE PowerLockedNotification(a) \/ PowerUnlockedNotification(a)
  BY <1>4, LockedFollows, UnlockedFollows
<1> HIDE DEF Goal
<1>5. CASE CallbackSucceeds(a)
  <2> DEFINE r == [p EXCEPT !.callback = "idle"]
             t == SetAct(Now, a, r)
  <2>1. Handle(t, a) /\ Exists(p) /\ p.callback = "calling"
    BY <1>5 DEF CallbackSucceeds
  <2>2. r \in ActivityState
    BY <1>2, CallbackType
  <2>3. /\ Rest(p, r) /\ r.callback = "idle" /\ r.trigger = p.trigger /\ r.schedule = p.schedule
        /\ r.requirement = p.requirement
    BY <1>2, RestFields
  <2> HIDE DEF r, p
  <2>4. PrerequisitesMet(p) = PrerequisitesMet(r)
    BY <2>3 DEF PrerequisitesMet
  <2>5. /\ Moves(Now, t, a) /\ t.act[a] = r
        /\ Awaited(p) => Awaited(r)
        /\ Asked(p) => Asked(r)
    BY <1>2, <2>1, <2>2, <2>3, <2>4, RestMoves
  <2> QED
    BY <1>2, <1>3, <2>1, <2>5 DEF Standing
<1>6. CASE CallbackFailsTransiently(a)
  <2> DEFINE r == [p EXCEPT !.callback = "idle", !.requeue = TRUE]
             t == EndActivity(SetAct(Now, a, r), a)
  <2>1. Handle(t, a) /\ Exists(p) /\ p.callback = "calling"
    BY <1>6 DEF CallbackFailsTransiently
  <2>2. Moves(Now, t, a) /\ Standing(t.act[a])
    BY <1>2, <2>1, CallbackFailsMoves
  <2> QED
    BY <1>3, <2>1, <2>2
<1>7. CASE CallbackFailsPermanently(a)
  <2> DEFINE r == [p EXCEPT !.callback = "idle", !.terminate = TRUE]
             t == SendCommand(SetAct(Now, a, r), a, "cancel", TRUE)
  <2>1. Handle(t, a) /\ Exists(p) /\ p.callback = "calling"
    BY <1>7 DEF CallbackFailsPermanently
  <2>2. Moves(Now, t, a) /\ Standing(t.act[a])
    BY <1>2, <2>1, CallbackFailsMoves
  <2> QED
    BY <1>3, <2>1, <2>2
<1>8. CASE TriggerFires(a)
  <2> DEFINE r == [p EXCEPT !.trigger = "fired"]
             t == RunIfRunnable(SetAct(Now, a, r), a)
  <2>1. Handle(t, a) /\ Exists(p)
    BY <1>8 DEF TriggerFires
  <2>2. r \in ActivityState
    BY <1>2, TriggerType
  <2>3. /\ Rest(p, r) /\ r.callback = p.callback /\ r.trigger = "fired" /\ r.schedule = p.schedule
        /\ r.requirement = p.requirement
    BY <1>2, RestFields
  <2> HIDE DEF r, p
  <2>4. PrerequisitesMet(p) => PrerequisitesMet(r)
    BY <2>3 DEF PrerequisitesMet
  <2>5. Moves(Now, t, a) /\ Standing(t.act[a])
    BY <1>2, <2>1, <2>2, <2>3, <2>4, ArrivedMoves
  <2> QED
    BY <1>3, <2>1, <2>5
<1>9. CASE ScheduleComesDue(a)
  <2> DEFINE r == [p EXCEPT !.schedule = "due"]
             t == RunIfRunnable(SetAct(Now, a, r), a)
  <2>1. Handle(t, a) /\ Exists(p)
    BY <1>9 DEF ScheduleComesDue
  <2>2. r \in ActivityState
    BY <1>2, ScheduleType
  <2>3. /\ Rest(p, r) /\ r.callback = p.callback /\ r.trigger = p.trigger /\ r.schedule = "due"
        /\ r.requirement = p.requirement
    BY <1>2, RestFields
  <2> HIDE DEF r, p
  <2>4. PrerequisitesMet(p) => PrerequisitesMet(r)
    BY <2>3 DEF PrerequisitesMet
  <2>5. Moves(Now, t, a) /\ Standing(t.act[a])
    BY <1>2, <2>1, <2>2, <2>3, <2>4, ArrivedMoves
  <2> QED
    BY <1>3, <2>1, <2>5
<1>10. CASE RequirementMet(a)
  <2> DEFINE r == [p EXCEPT !.requirement = "met"]
             t == RunIfRunnable(SetAct(Now, a, r), a)
  <2>1. Handle(t, a) /\ Exists(p)
    BY <1>10 DEF RequirementMet
  <2>2. r \in ActivityState
    BY <1>2, RequirementType
  <2>3. /\ Rest(p, r) /\ r.callback = p.callback /\ r.trigger = p.trigger /\ r.schedule = p.schedule
        /\ r.requirement = "met"
    BY <1>2, RestFields
  <2> HIDE DEF r, p
  <2>4. PrerequisitesMet(p) => PrerequisitesMet(r)
    BY <2>3 DEF PrerequisitesMet
  <2>5. Moves(Now, t, a) /\ Standing(t.act[a])
    BY <1>2, <2>1, <2>2, <2>3, <2>4, ArrivedMoves
  <2> QED
    BY <1>3, <2>1, <2>5
<1>11. CASE RequirementUnmet(a)
  <2> DEFINE t == WithdrawIfReady(SetAct(Now, a, [p EXCEPT !.requirement = "unmet"]), a)
  <2>1. Handle(t, a) /\ Exists(p)
    BY <1>11 DEF RequirementUnmet
  <2>2. Moves(Now, t, a) /\ Asked(t.act[a]) /\ Same(p, t.act[a])
    BY <1>2, <2>1, WithdrawMoves
  <2> HIDE DEF t, p
  <2>3. Standing(t.act[a])
    BY <1>2, <2>2, SameAble DEF Standing
  <2> QED
    BY <1>3, <2>1, <2>2, <2>3
<1>12. CASE PersistCommandCompletes(a)
  <2> DEFINE t == CompletePersistCommand(Now, a)
  <2>1. Handle(t, a) /\ p.persistCommands # << >>
    BY <1>12 DEF PersistCommandCompletes
  <2>2. Exists(p)
    BY <1>2, <2>1 DEF Exists, Flags, ActivityState
  <2>3. Moves(Now, t, a) /\ Standing(t.act[a])
    BY <1>2, <2>1, <2>2, CompletePersistCommandMoves
  <2> QED
    BY <1>3, <2>1, <2>3
<1> QED
  BY <1>1, <1>4, <1>5, <1>6, <1>7, <1>8, <1>9, <1>10, <1>11, <1>12

-----------------------------------------------------------------------------
(* The Manager's own steps, and the developer's.                           *)

LEMMA PassedFollows ==
  ASSUME NEW s, NEW t \in Tidy, Sound(s), \A x \in Activities : Passed(s, t, x)
  PROVE  t \in ManagerState /\ Follows(s, t)
BY PassedSound, LocksServes DEF Follows, Sound, Tidy

\* Only the timer, the level or the enable bits change.
LEMMA AsideFollows ==
  ASSUME NEW s, NEW t \in ManagerState, Sound(s), t.act = s.act, t.queue = s.queue
  PROVE  Follows(s, t) /\ Limited(s, t, {})
<1>1. s \in Tidy /\ s \in ManagerState
  BY DEF Sound, Tidy
<1>2. t \in Tidy /\ \A x \in Activities : Passed(s, t, x)
  BY <1>1 DEF Tidy, Hooked, On, Passed, Stayed
<1>3. Follows(s, t)
  BY <1>2, PassedFollows
<1>4. Limited(s, t, {})
  BY DEF Limited, Joined, On
<1> QED
  BY <1>3, <1>4

\* Admission after a change of the queues that keeps every Activity sound.
LEMMA AdmitFollows ==
  ASSUME NEW s, NEW u, Sound(s), Sound(u), u.act = s.act
  PROVE  LET t == CheckReadyQueue(u)
         IN t \in ManagerState /\ t \in Tidy /\ Follows(s, t)
<1> DEFINE t == CheckReadyQueue(u)
<1>1. u \in Tidy /\ u \in ManagerState /\ Hooked(u)
  BY DEF Sound, Tidy
<1>2. /\ t \in ManagerState /\ Hooked(t)
      /\ \A x \in Activities : Passed(u, t, x)
  BY <1>1, CheckReadyQueuePlaces DEF Passed
<1> HIDE DEF t
<1>3. t \in Tidy
  BY <1>2 DEF Tidy
<1>4. Follows(u, t)
  BY <1>2, <1>3, PassedFollows
<1> QED
  BY <1>2, <1>3, <1>4 DEF Follows, t

LEMMA EvictFollows ==
  ASSUME Sound(Now), NEW a \in Activities, On(Now, a, "background")
  PROVE  LET t == EvictBackgroundActivity(Now, a)
         IN t \in ManagerState /\ Follows(Now, t) /\ Limited(Now, t, {})
<1> DEFINE u == MoveTo(Now, a, "longBackground")
           t == CheckReadyQueue(u)
           p == act[a]
<1>1. /\ Now \in Tidy /\ Now.act[a] = p
      /\ Fit(p, At(Now, a), a) /\ Standing(p)
  BY UnderNow
<1>2. "longBackground" \in QueueName \ {"background", "backgroundInteractive"}
  BY QueueNames
<1>3. Shift(Now, u, a) /\ u.act = Now.act /\ At(u, a) = {"longBackground"} /\ u \in Tidy
  BY <1>1, <1>2, MoveToShift
<1>4. EvictBackgroundActivity(Now, a) = t
  BY DEF EvictBackgroundActivity
<1>5. "background" \in At(Now, a)
  BY QueueNames DEF At
<1> HIDE DEF t, u, p
<1>6. Flags(p, {"longBackground"}, a)
  BY <1>1, <1>5 DEF Fit, Flags, ReadyQueues, RunningQueues
<1>7. /\ UpdatesStand => Wanted(p, {"longBackground"})
      /\ StartsStand => Heard(p)
  BY <1>1 DEF Fit, Wanted, ReadyQueues
<1>8. EndsStand => Kept(p, {"longBackground"})
  BY <1>1, <1>5 DEF Fit, Kept, ReadyQueues, RunningQueues
<1>9. Fit(u.act[a], At(u, a), a)
  BY <1>1, <1>3, <1>6, <1>7, <1>8 DEF Fit
<1>10. Follows(Now, u)
  <2>1. Standing(u.act[a]) /\ Serves(Now.act[a], u.act[a], a)
    BY <1>1, <1>3 DEF Serves
  <2> QED
    BY <1>3, <1>9, <2>1, ShiftFollows
<1>11. t \in ManagerState /\ t \in Tidy /\ Follows(Now, t)
  BY <1>3, <1>10, AdmitFollows DEF Follows, t
<1>12. Shift(u, t, a) /\ Passed(u, t, a)
  BY <1>3, CheckReadyQueueShift DEF t
<1>13. ~On(t, a, "background") /\ ~On(t, a, "backgroundInteractive")
  <2>1. \A q \in QueueName : On(u, a, q) <=> q = "longBackground"
    BY <1>2, <1>3 DEF At
  <2> QED
    BY <1>12, <2>1, QueueNames DEF Passed, Stayed, Admitted
<1>14. Limited(Now, t, {a})
  BY <1>1, <1>3, <1>11, <1>12, ShiftTransitive, AdmitsLimited DEF Shift
<1>15. Limited(Now, t, {})
  BY <1>13, <1>14 DEF Limited
<1> QED
  BY <1>4, <1>11, <1>15

LEMMA EvictAllFollows ==
  ASSUME Sound(Now)
  PROVE  LET t == EvictAllBackgroundActivities(Now)
         IN t \in ManagerState /\ Follows(Now, t) /\ Limited(Now, t, {})
<1> DEFINE long == Now.queue["longBackground"]
           background == Now.queue["background"]
           list == long \o background
           none == << >>
           moved == [Now.queue EXCEPT !["longBackground"] = list, !["background"] = none]
           u == [Now EXCEPT !.queue = moved]
<1>1. Now \in Tidy /\ Now \in ManagerState /\ Hooked(Now)
  BY DEF Sound, Tidy
<1>2. EvictAllBackgroundActivities(Now) = CheckReadyQueue(u)
  BY DEF EvictAllBackgroundActivities, Now
<1>3. long \in Seq(Activities) /\ background \in Seq(Activities)
  BY <1>1, QueueNames DEF ManagerState
<1>4. list \in Seq(Activities) /\ none \in Seq(Activities)
  BY <1>3, ConcatProperties, EmptySeq
<1>5. /\ \A x : Contains(list, x) <=> Contains(long, x) \/ Contains(background, x)
      /\ Once(long) /\ Once(background) /\ (\A x : ~(Contains(long, x) /\ Contains(background, x)))
           => Once(list)
  BY <1>3, ConcatOnce
<1>6. /\ moved \in [QueueName -> Seq(Activities)]
      /\ moved["longBackground"] = list
      /\ moved["background"] = none
      /\ \A q \in QueueName \ {"longBackground", "background"} : moved[q] = Now.queue[q]
  <2> HIDE DEF list, none
  <2>1. Now.queue \in [QueueName -> Seq(Activities)]
    BY <1>1 DEF ManagerState
  <2> QED
    BY <2>1, <1>4, QueueNames
<1> HIDE DEF moved, list, none
<1>7. /\ u \in ManagerState /\ u.act = Now.act /\ u.level = Now.level
      /\ u.queue = moved
  BY <1>1, <1>6 DEF ManagerState
<1> HIDE DEF u
<1>8. /\ \A x : Contains(u.queue["longBackground"], x) <=> Contains(long, x) \/ Contains(background, x)
      /\ \A x : ~Contains(u.queue["background"], x)
      /\ Once(u.queue["background"])
  <2>1. Len(none) = 0
    BY EmptySeq DEF none
  <2>2. (\A x : ~Contains(none, x)) /\ Once(none)
    BY <2>1 DEF Contains, Once
  <2>3. u.queue["longBackground"] = list /\ u.queue["background"] = none
    BY <1>7, <1>6
  <2> HIDE DEF long, background
  <2> QED
    BY <1>5, <2>2, <2>3
<1>9. \A x \in Activities, q \in QueueName :
        On(u, x, q) <=> IF q = "longBackground" THEN On(Now, x, q) \/ On(Now, x, "background")
                        ELSE q # "background" /\ On(Now, x, q)
  BY <1>7, <1>8, <1>6 DEF On
<1>10. Once(u.queue["longBackground"])
  <2>1. ASSUME NEW x, Contains(long, x), Contains(background, x)
        PROVE  FALSE
    <3>1. x \in Activities
      BY <1>3, <2>1, ElementOfSeq DEF Contains
    <3> QED
      BY <1>1, <2>1, <3>1, QueueNames DEF Hooked, On
  <2>2. Once(long) /\ Once(background)
    BY <1>1, QueueNames DEF Hooked
  <2>3. u.queue["longBackground"] = list
    BY <1>7, <1>6
  <2> HIDE DEF long, background
  <2> QED
    BY <1>5, <2>1, <2>2, <2>3
<1>11. Hooked(u)
  <2>1. \A q \in QueueName : Once(u.queue[q])
    BY <1>1, <1>7, <1>8, <1>10, <1>6 DEF Hooked
  <2>2. \A x \in Activities : \A p, q \in QueueName : On(u, x, p) /\ On(u, x, q) => p = q
    BY <1>1, <1>9, QueueNames DEF Hooked
  <2> QED
    BY <2>1, <2>2 DEF Hooked
<1>12. ASSUME NEW x \in Activities
       PROVE  Fit(u.act[x], At(u, x), x) /\ Standing(u.act[x])
  <2> DEFINE p == Now.act[x]
             at == At(Now, x)
             new == At(u, x)
  <2>1. Fit(p, at, x) /\ Standing(p)
    BY DEF Sound
  <2>2. new = at \/ ("background" \in at /\ new = {"longBackground"})
    <3>1. CASE On(Now, x, "background")
      <4>1. \A q \in QueueName : On(Now, x, q) => q = "background"
        BY <1>1, <3>1, QueueNames DEF Hooked
      <4>2. new = {"longBackground"}
        BY <1>9, <3>1, <4>1, QueueNames DEF At
      <4> QED
        BY <3>1, <4>2, QueueNames DEF At
    <3>2. CASE ~On(Now, x, "background")
      BY <1>9, <3>2, QueueNames DEF At
    <3> QED
      BY <3>1, <3>2
  <2> HIDE DEF p, at, new
  <2>3. Fit(p, new, x)
    <3>1. CASE new = at
      BY <2>1, <3>1
    <3>2. CASE "background" \in at /\ new = {"longBackground"}
      <4>1. Flags(p, new, x)
        BY <2>1, <3>2 DEF Fit, Flags, ReadyQueues, RunningQueues
      <4>2. /\ UpdatesStand => Wanted(p, new)
            /\ StartsStand => Heard(p)
        BY <2>1, <3>2 DEF Fit, Wanted, ReadyQueues
      <4>3. EndsStand => Kept(p, new)
        BY <2>1, <3>2 DEF Fit, Kept, ReadyQueues, RunningQueues
      <4> QED
        BY <4>1, <4>2, <4>3 DEF Fit
    <3> QED
      BY <2>2, <3>1, <3>2
  <2> QED
    BY <1>7, <2>1, <2>3 DEF p, new
<1>13. Sound(u)
  BY <1>7, <1>11, <1>12 DEF Sound, Tidy
<1> DEFINE t == CheckReadyQueue(u)
<1>14. t \in ManagerState /\ t \in Tidy /\ Follows(Now, t)
  BY <1>7, <1>13, AdmitFollows
<1>15. Limited(u, t, {}) /\ \A x \in Activities : Passed(u, t, x)
  BY <1>13, CheckReadyQueueLimited, CheckReadyQueueShift DEF Sound
<1> HIDE DEF t
<1>16. \A x \in Activities :
         /\ ~On(u, x, "background")
         /\ On(u, x, "backgroundInteractive") <=> On(Now, x, "backgroundInteractive")
         /\ On(Now, x, "background") => ~On(t, x, "background")
  <2> SUFFICES ASSUME NEW x \in Activities
               PROVE  /\ ~On(u, x, "background")
                      /\ On(u, x, "backgroundInteractive") <=> On(Now, x, "backgroundInteractive")
                      /\ On(Now, x, "background") => ~On(t, x, "background")
    OBVIOUS
  <2>1. /\ ~On(u, x, "background")
        /\ On(u, x, "backgroundInteractive") <=> On(Now, x, "backgroundInteractive")
        /\ On(Now, x, "background") => On(u, x, "longBackground")
    BY <1>9, QueueNames
  <2>2. On(u, x, "longBackground") => ~On(u, x, "ready") /\ ~On(u, x, "readyInteractive")
    BY <1>11, QueueNames DEF Hooked
  <2> QED
    BY <1>15, <2>1, <2>2, QueueNames DEF Passed, Stayed, Admitted
<1>17. Lasting(Now, t) = Lasting(u, t)
  <2>1. /\ Members(Now, "background") \cap Members(t, "background") = {}
        /\ Members(u, "background") \cap Members(t, "background") = {}
    BY <1>16 DEF Members
  <2> QED
    BY <2>1 DEF Lasting
<1>18. /\ Joined(Now, t, "background") => Joined(u, t, "background")
       /\ Joined(Now, t, "backgroundInteractive") => Joined(u, t, "backgroundInteractive")
  BY <1>16 DEF Joined
<1>19. Limited(Now, t, {})
  BY <1>15, <1>17, <1>18 DEF Limited
<1> QED
  BY <1>2, <1>14, <1>19 DEF t

\* A developer runs one that waits, whatever the limits.
LEMMA RunFollows ==
  ASSUME Sound(Now), NEW a \in Activities, Run(a)
  PROVE  LET u == RunReadyBackgroundActivity(Now, a)
         IN u \in ManagerState /\ Follows(Now, u)
<1> DEFINE to == IF \E i \in 1..Len(Now.queue["ready"]) : Now.queue["ready"][i] = a
                 THEN "background" ELSE "backgroundInteractive"
           p == act[a]
           t == MoveTo(Now, a, to)
           r == RunActivity(p)
           u == SetAct(t, a, r)
<1>1. /\ Now \in Tidy /\ Now \in ManagerState /\ Now.act[a] = p /\ p \in ActivityState
      /\ Fit(p, At(Now, a), a) /\ Standing(p)
  BY UnderNow
<1>2. RunReadyBackgroundActivity(Now, a) = u
  BY <1>1 DEF RunReadyBackgroundActivity
<1>3. At(Now, a) \cap ReadyQueues # {}
  BY QueueNames DEF Run, Now, At, On, Contains, ReadyQueues
<1>4. to \in QueueName /\ to \in RunningQueues
  BY QueueNames DEF RunningQueues
<1> HIDE DEF to, p
<1>5. p.ready /\ ~p.running /\ (EndsStand => p.life = "live")
  BY <1>1, <1>3 DEF Fit, Flags, Kept
<1>6. /\ t \in ManagerState /\ Hooked(t) /\ t.act = Now.act
      /\ \A x \in Activities, q \in QueueName :
           On(t, x, q) <=> IF x = a THEN q = to ELSE On(Now, x, q)
  BY <1>1, <1>4, MoveToPlaces DEF Tidy
<1> HIDE DEF t
<1>7. t \in Tidy /\ At(t, a) = {to} /\ \A x \in Activities \ {a} : Passed(Now, t, x)
  BY <1>4, <1>6 DEF Tidy, At, Passed, Stayed
<1>8. /\ r \in ActivityState /\ Fit(r, {to}, a) /\ Asked(r) /\ Locks(p, r, a) /\ Same(p, r)
  BY <1>1, <1>4, <1>5, RunFit
<1> HIDE DEF r
<1>9. Shift(t, u, a) /\ u \in Tidy /\ u.act[a] = r /\ At(u, a) = {to}
  BY <1>7, <1>8, SetActShift
<1> HIDE DEF u
<1>10. Standing(r) /\ Serves(p, r, a)
  BY <1>1, <1>8, SameAble, LocksServes DEF Standing
<1>11. ASSUME NEW x \in Activities
       PROVE  /\ Fit(u.act[x], At(u, x), x) /\ Standing(u.act[x])
              /\ Serves(Now.act[x], u.act[x], x)
  <2>1. CASE x = a
    BY <1>1, <1>8, <1>9, <1>10, <2>1
  <2>2. CASE x # a
    <3>1. Passed(Now, t, x) /\ Passed(t, u, x)
      BY <1>7, <1>9, <2>2 DEF Shift
    <3>2. Passed(Now, u, x)
      BY <3>1, PassedTransitive
    <3> QED
      BY <1>1, <3>2, PassedSound, LocksServes DEF Sound
  <2> QED
    BY <2>1, <2>2
<1> QED
  BY <1>2, <1>9, <1>11 DEF Follows, Sound, Tidy

LEMMA RunAllFollows ==
  ASSUME Sound(Now)
  PROVE  LET u == RunAllReadyActivities(Now)
         IN u \in ManagerState /\ Follows(Now, u)
<1> DEFINE n == Len(Now.queue["readyInteractive"])
           t == RunFirst(Now, n, "readyInteractive", "backgroundInteractive")
           m == Len(t.queue["ready"])
           u == RunFirst(t, m, "ready", "background")
<1>1. Now \in Tidy /\ Now \in ManagerState /\ Hooked(Now)
  BY DEF Sound, Tidy
<1>2. RunAllReadyActivities(Now) = u
  BY DEF RunAllReadyActivities
<1>3. n \in 0..Len(Now.queue["readyInteractive"])
  BY <1>1, BusySum, QueueNames
<1>4. /\ t \in ManagerState /\ Hooked(t)
      /\ \A x \in Activities : Stayed(Now, t, x)
                            \/ Admitted(Now, t, x, "readyInteractive", "backgroundInteractive")
  BY <1>1, <1>3, QueueNames, RunFirstPlaces
<1> HIDE DEF t
<1>5. m \in 0..Len(t.queue["ready"])
  BY <1>4, BusySum, QueueNames
<1>6. /\ u \in ManagerState /\ Hooked(u)
      /\ \A x \in Activities : Stayed(t, u, x) \/ Admitted(t, u, x, "ready", "background")
  BY <1>4, <1>5, QueueNames, RunFirstPlaces
<1> HIDE DEF u
<1>7. \A x \in Activities : Passed(Now, t, x) /\ Passed(t, u, x)
  BY <1>4, <1>6 DEF Passed
<1>8. \A x \in Activities : Passed(Now, u, x)
  BY <1>7, PassedTransitive
<1>9. u \in Tidy
  BY <1>6 DEF Tidy
<1> QED
  BY <1>2, <1>8, <1>9, PassedFollows

LEMMA SetConcurrencyFollows ==
  ASSUME Sound(Now), NEW n \in Levels
  PROVE  LET u == SetBackgroundConcurrencyLevel(Now, n)
         IN u \in ManagerState /\ Follows(Now, u) /\ Limited(Now, u, {})
<1> DEFINE t == [Now EXCEPT !.level = n]
           u == CheckReadyQueue(t)
<1>1. Now \in ManagerState
  BY DEF Sound, Tidy
<1>2. t \in ManagerState /\ t.act = Now.act /\ t.queue = Now.queue
  BY <1>1 DEF ManagerState
<1>3. SetBackgroundConcurrencyLevel(Now, n) = u
  BY DEF SetBackgroundConcurrencyLevel
<1> HIDE DEF t
<1>4. Sound(t)
  BY <1>2, AsideFollows DEF Follows
<1>5. u \in ManagerState /\ Follows(Now, u) /\ Limited(t, u, {})
  BY <1>2, <1>4, AdmitFollows, CheckReadyQueueLimited DEF Sound
<1> HIDE DEF u
<1>6. Limited(Now, u, {})
  BY <1>2, <1>5 DEF Limited, Joined, Lasting, Members, On
<1> QED
  BY <1>3, <1>5, <1>6

LEMMA DevelopFollows ==
  ASSUME Sound(Now), Develop
  PROVE  \E u \in ManagerState :
           /\ Become(u) /\ Follows(Now, u)
           /\ Limited(Now, u, {}) \/ RunAll \/ \E a \in Activities : Run(a)
<1>1. CASE \E n \in Levels : SetConcurrency(n)
  BY <1>1, SetConcurrencyFollows DEF SetConcurrency
<1>2. ASSUME NEW a \in Activities, Evict(a)
      PROVE  \E u \in ManagerState : Become(u) /\ Follows(Now, u) /\ Limited(Now, u, {})
  <2>1. On(Now, a, "background")
    BY <1>2 DEF Evict, On, Contains, Now
  <2> QED
    BY <1>2, <2>1, EvictFollows DEF Evict
<1>3. CASE EvictAll
  BY <1>3, EvictAllFollows DEF EvictAll
<1>4. ASSUME NEW a \in Activities, Run(a)
      PROVE  \E u \in ManagerState : Become(u) /\ Follows(Now, u)
  BY <1>4, RunFollows DEF Run
<1>5. CASE RunAll
  BY <1>5, RunAllFollows DEF RunAll
<1> QED
  BY <1>1, <1>2, <1>3, <1>4, <1>5 DEF Develop

\* The level of concurrency stands, too.
LEMMA AsideShift ==
  ASSUME NEW s \in Tidy, NEW t \in ManagerState, NEW a,
         t.act = s.act, t.queue = s.queue, t.level = s.level
  PROVE  Shift(s, t, a) /\ At(t, a) = At(s, a)
<1>1. t \in Tidy /\ \A x \in Activities : Passed(s, t, x)
  BY DEF Tidy, Hooked, On, Passed, Stayed
<1>2. Admits(s, t, a)
  BY <1>1, AloneAdmits DEF On
<1>3. At(t, a) = At(s, a)
  BY DEF At, On
<1> QED
  BY <1>1, <1>2, <1>3 DEF Shift

\* The yield timeout asks a running Activity to make room.
LEMMA YieldTimeoutFollows ==
  ASSUME Sound(Now), InteractiveYieldTimeout
  PROVE  \E u \in ManagerState : Become(u) /\ Follows(Now, u) /\ Limited(Now, u, {Victim})
<1> DEFINE first == CHOOSE i \in Candidates : \A j \in Candidates : i <= j
           a == queue["backgroundInteractive"][first]
           s == YieldActivity(Now, a)
           t == [s EXCEPT !.yieldTimer = TRUE]
           off == [Now EXCEPT !.yieldTimer = FALSE]
<1>1. Now \in Tidy /\ Now \in ManagerState /\ TypeOK
  BY DEF Sound, Tidy, TypeOK
<1>9. a = Victim
  BY DEF Victim
<1>2. off \in ManagerState /\ off.act = Now.act /\ off.queue = Now.queue
  BY <1>1 DEF ManagerState
<1>3. \/ Become(off)
      \/ Become(Now)
      \/ Candidates # {} /\ Handle(t, a)
  BY DEF InteractiveYieldTimeout, Victim
<1>4. Candidates # {} =>
        first \in 1..Len(queue["backgroundInteractive"]) /\ a \in Activities
  BY <1>1, FirstCandidate
<1>5. Candidates # {} => On(Now, a, "backgroundInteractive")
  BY <1>4 DEF On, Contains, Now
<1> HIDE DEF first, a, off
<1>6. CASE Become(off)
  BY <1>2, <1>6, AsideFollows, LimitedMore
<1>7. CASE Become(Now)
  BY <1>1, <1>7, AsideFollows, LimitedMore
<1>8. CASE Candidates # {} /\ Handle(t, a)
  <2>1. a \in Activities /\ "backgroundInteractive" \in At(Now, a)
    BY <1>4, <1>5, <1>8, QueueNames DEF At
  <2>2. /\ Now.act[a] = act[a] /\ Fit(act[a], At(Now, a), a) /\ Standing(act[a])
    BY <2>1, UnderNow
  <2>3. At(Now, a) \cap RunningQueues # {}
    BY <2>1 DEF RunningQueues
  <2>4. act[a].initialized /\ act[a].life # "new" /\ (EndsStand => act[a].life = "live")
    BY <2>2, <2>3 DEF Fit, Flags, Kept
  <2>5. Now \in Under(a)
    BY <1>1, <2>2, <2>4 DEF Under, Able, Abides
  <2>6. Moves(Now, s, a) /\ s \in Tidy /\ Standing(s.act[a])
    BY <2>1, <2>2, <2>4, <2>5, YieldActivityMoves
  <2> HIDE DEF s
  <2>7. t \in ManagerState /\ t.act = s.act /\ t.queue = s.queue /\ t.level = s.level
    BY <2>6 DEF Tidy, ManagerState
  <2> HIDE DEF t
  <2>8. Shift(s, t, a) /\ At(t, a) = At(s, a)
    BY <2>6, <2>7, AsideShift
  <2>9. Shift(Now, t, a)
    BY <2>6, <2>8, ShiftTransitive DEF Moves
  <2>10. Moves(Now, t, a)
    BY <2>6, <2>7, <2>8, <2>9 DEF Moves
  <2> QED
    BY <1>8, <1>9, <2>1, <2>6, <2>7, <2>10, HandleFollows
<1> QED
  BY <1>3, <1>6, <1>7, <1>8

\* Enable schedules the next one that waits for it.
LEMMA ScheduleNextFollows ==
  ASSUME Sound(Now), ScheduleNextActivity
  PROVE  \E u \in ManagerState :
           Become(u) /\ Follows(Now, u) /\ Limited(Now, u, {Head(queue["initialized"])})
<1> DEFINE a == Head(queue["initialized"])
           s == MoveTo(Now, a, "scheduled")
           t == ScheduleActivity(s, a)
<1>1. Now \in Tidy /\ Now \in ManagerState
  BY DEF Sound, Tidy
<1>2. queue["initialized"] \in Seq(Activities) /\ queue["initialized"] # << >>
  BY <1>1, QueueNames DEF ScheduleNextActivity, Scheduling, Now, ManagerState
<1>3. a \in Activities /\ On(Now, a, "initialized")
  <2>1. 1 \in 1..Len(queue["initialized"]) /\ queue["initialized"][1] = a
    BY <1>2, HeadTailProperties, LenProperties, EmptySeq
  <2> QED
    BY <1>2, <2>1, ElementOfSeq DEF On, Contains, Now
<1>4. Handle(t, a)
  BY DEF ScheduleNextActivity
<1> HIDE DEF a
<1>5. "initialized" \in At(Now, a)
  BY <1>3, QueueNames DEF At
<1>6. Now.act[a] = act[a] /\ Fit(act[a], At(Now, a), a) /\ Standing(act[a])
  BY <1>3, UnderNow
<1>7. /\ act[a].initialized /\ ~act[a].scheduled /\ act[a].life # "new"
      /\ EndsStand => act[a].life = "live"
  BY <1>5, <1>6 DEF Fit, Flags, Kept
<1>8. "scheduled" \in QueueName \ {"background", "backgroundInteractive"}
  BY QueueNames
<1>9. Shift(Now, s, a) /\ s \in Tidy /\ s.act = Now.act /\ At(s, a) = {"scheduled"}
  BY <1>1, <1>3, <1>8, MoveToShift
<1>10. Fit(act[a], {}, a) /\ Fit(act[a], {"scheduled"}, a)
  BY <1>6, <1>7, FitApart
<1> HIDE DEF s
<1>11. Moves(s, t, a) /\ Asked(t.act[a]) /\ Same(s.act[a], t.act[a]) /\ t \in Under(a)
  BY <1>3, <1>6, <1>7, <1>9, <1>10, ScheduleActivityMoves
<1>12. Standing(t.act[a])
  BY <1>6, <1>9, <1>11, SameAble DEF Standing
<1>13. Moves(Now, t, a)
  <2>1. Shift(Now, t, a)
    BY <1>9, <1>11, ShiftTransitive DEF Moves
  <2> QED
    BY <1>9, <1>11, <2>1 DEF Moves
<1>14. \E u \in ManagerState : Become(u) /\ Follows(Now, u) /\ Limited(Now, u, {a})
  BY <1>3, <1>4, <1>12, <1>13, HandleFollows
<1> QED
  BY <1>14 DEF a

LEMMA EnableFollows ==
  ASSUME Sound(Now), NEW bit \in EnableBits, Enable(bit) \/ Disable(bit)
  PROVE  \E u \in ManagerState : Become(u) /\ Follows(Now, u) /\ Limited(Now, u, {})
<1> DEFINE more == [Now EXCEPT !.enabled = @ \cup {bit}]
           less == [Now EXCEPT !.enabled = @ \ {bit}]
<1>1. Now \in ManagerState
  BY DEF Sound, Tidy
<1>2. /\ more \in ManagerState /\ more.act = Now.act /\ more.queue = Now.queue
      /\ less \in ManagerState /\ less.act = Now.act /\ less.queue = Now.queue
  BY <1>1 DEF ManagerState
<1>3. Become(more) \/ Become(less)
  BY DEF Enable, Disable
<1> HIDE DEF more, less
<1> QED
  BY <1>2, <1>3, AsideFollows

-----------------------------------------------------------------------------
(* The specification.                                                      *)

\* Whoever the step is a handler of.
Handled == {a \in Activities : HandlerOf(a)}

\* Every step keeps the Activities sound, uses power as a lock and keeps to the
\* limits, unless it is a developer's Run.
LEMMA NextFollows ==
  ASSUME Sound(Now), FamilySubscribes, Next
  PROVE  \E u \in ManagerState :
           /\ Become(u) /\ Follows(Now, u)
           /\ Limited(Now, u, Handled) \/ RunAll \/ \E a \in Activities : Run(a)
<1> DEFINE Goal(A) ==
             \E u \in ManagerState : Become(u) /\ Follows(Now, u) /\ Limited(Now, u, A)
<1>1. ASSUME NEW a, HandlerOf(a), Goal({a})
      PROVE  Goal(Handled)
  <2>1. PICK u \in ManagerState : Become(u) /\ Follows(Now, u) /\ Limited(Now, u, {a})
    BY <1>1
  <2>2. Limited(Now, u, Handled)
    <3>1. CASE a \in Activities
      BY <1>1, <2>1, <3>1, LimitedMore DEF Handled
    <3>2. CASE a \notin Activities
      <4>1. \A q \in QueueName : ~On(u, a, q)
        BY <2>1, <3>2, QueueType, ElementOfSeq DEF On, Contains
      <4> QED
        BY <2>1, <4>1, QueueNames DEF Limited
    <3> QED
      BY <3>1, <3>2
  <2> QED
    BY <2>1, <2>2
<1>2. ASSUME Goal({})
      PROVE  Goal(Handled)
  BY <1>2, LimitedMore
<1>3. CASE ScheduleNextActivity
  <2> PICK a : a = Head(queue["initialized"])
    OBVIOUS
  <2>1. HandlerOf(a) /\ Goal({a})
    BY <1>3, ScheduleNextFollows DEF HandlerOf
  <2>2. Goal(Handled)
    <3> HIDE DEF Goal
    <3> QED
      BY <1>1, <2>1
  <2> QED
    BY <2>2
<1>4. ASSUME NEW a \in Activities, ClientCall(a) \/ ReplyTo(a)
      PROVE  Goal(Handled)
  <2>1. HandlerOf(a) /\ Goal({a})
    BY <1>4, ClientFollows, ReplyFollows DEF HandlerOf
  <2>2. Goal(Handled)
    <3> HIDE DEF Goal
    <3> QED
      BY <1>1, <2>1
  <2> QED
    BY <2>2
<1>5. CASE InteractiveYieldTimeout
  <2> PICK a : a = Victim
    OBVIOUS
  <2>1. HandlerOf(a) /\ Goal({a})
    BY <1>5, YieldTimeoutFollows DEF HandlerOf
  <2>2. Goal(Handled)
    <3> HIDE DEF Goal
    <3> QED
      BY <1>1, <2>1
  <2> QED
    BY <2>2
<1>6. CASE \E bit \in EnableBits : Enable(bit) \/ Disable(bit)
  <2>1. Goal({})
    BY <1>6, EnableFollows
  <2> QED
    BY <1>2, <2>1
<1>7. CASE Develop
  BY <1>7, DevelopFollows, LimitedMore
<1> QED
  BY <1>3, <1>4, <1>5, <1>6, <1>7 DEF Next, Client, Reply

LEMMA BecomeNow ==
  ASSUME NEW u \in ManagerState, Become(u)
  PROVE  Now' = u
BY DEF Now, Become, ManagerState

\* A new Activity, on no queue.
LEMMA InitSound ==
  ASSUME Init
  PROVE  Sound(Now)
<1>1. /\ Now.act = [a \in Activities |-> NewActivity(a)]
      /\ Now.queue = [q \in QueueName |-> << >>]
  BY DEF Init, Now
<1>2. Now \in ManagerState
  <2>1. act \in [Activities -> ActivityState]
    BY NewActivityType DEF Init
  <2>2. queue \in [QueueName -> Seq(Activities)]
    BY EmptySeq DEF Init
  <2>3. yieldTimer \in BOOLEAN /\ level \in Levels /\ enabled \in SUBSET EnableBits
    BY LevelsAssumption, EnvironmentAssumption DEF Init
  <2> QED
    BY <2>1, <2>2, <2>3 DEF Now, ManagerState
<1>3. \A q \in QueueName : Len(Now.queue[q]) = 0
  BY <1>1, EmptySeq
<1>4. \A i : i \notin 1..0
  OBVIOUS
<1>5. \A q \in QueueName : Once(Now.queue[q])
  BY <1>3, <1>4 DEF Once
<1>6. \A q \in QueueName : \A x : ~On(Now, x, q)
  BY <1>3, <1>4 DEF On, Contains
<1>7. Now \in Tidy
  BY <1>2, <1>5, <1>6 DEF Hooked, Tidy
<1>8. ASSUME NEW x \in Activities
      PROVE  Fit(Now.act[x], At(Now, x), x) /\ Standing(Now.act[x])
  <2> DEFINE r == NewActivity(x)
  <2>1. At(Now, x) = {} /\ Now.act[x] = r
    BY <1>1, <1>6 DEF At
  <2>2. /\ r.life = "new" /\ ~r.initialized /\ ~r.scheduled /\ ~r.ready /\ ~r.running
        /\ ~r.requeue /\ r.extCommand = "none" /\ r.intCommand = "none"
        /\ r.sentCommand = "none" /\ r.persistCommands = << >> /\ r.adopters = << >>
        /\ r.power = IF x \in Powered THEN "unlocked" ELSE "none"
        /\ r.callback # "calling"
    BY DEF NewActivity
  <2> HIDE DEF r
  <2>3. Flags(r, {}, x)
    BY <2>2 DEF Flags, Off
  <2>4. Wanted(r, {}) /\ Heard(r) /\ Kept(r, {})
    BY <2>2 DEF Wanted, Heard, Kept, Off
  <2>5. Standing(r)
    BY <2>2 DEF Standing, Asked, IsRunnable, Awaited, Due
  <2> QED
    BY <2>1, <2>3, <2>4, <2>5 DEF Fit
<1> QED
  BY <1>7, <1>8 DEF Sound

LEMMA NextSound ==
  ASSUME Sound(Now), FamilySubscribes, [Next]_vars
  PROVE  Sound(Now)'
<1>1. CASE Next
  <2>1. PICK u \in ManagerState : Become(u) /\ Follows(Now, u)
    BY <1>1, NextFollows
  <2>2. Now' = u /\ Sound(u)
    BY <2>1, BecomeNow DEF Follows
  <2> QED
    BY <2>2
<1>2. CASE UNCHANGED vars
  <2>1. Now' = Now
    BY <1>2 DEF vars, Now
  <2> QED
    BY <2>1
<1> QED
  BY <1>1, <1>2

LEMMA StaysSound == Spec => []Sound(Now)
<1>1. Init => Sound(Now)
  BY InitSound
<1>2. Sound(Now) /\ FamilySubscribes /\ [Next]_vars => Sound(Now)'
  BY NextSound
<1> QED
  BY <1>1, <1>2, FamilySubscribed, PTL DEF Spec

\* The record and the queues of an Activity.
LEMMA SoundParts ==
  ASSUME Sound(Now), NEW a \in Activities
  PROVE  /\ Fit(act[a], At(Now, a), a) /\ Standing(act[a])
         /\ \A q \in QueueName : \A i \in 1..Len(queue[q]) :
              queue[q][i] = a => q \in At(Now, a)
BY UnderNow DEF At, On, Contains, Now

-----------------------------------------------------------------------------
(* The theorems.                                                           *)

\* The Activities that newly run on a queue, and what LimitRespected counts.
LEMMA EnteredCount ==
  ASSUME NEW u \in ManagerState, Sound(Now), Sound(u), Become(u)
  PROVE  /\ \A q \in {"background", "backgroundInteractive"} :
              /\ Entered(q) # {} => Joined(Now, u, q)
              /\ \A x \in Activities : On(u, x, q) => x \in ToSet(queue'[q])
         /\ Busy' = GetRunningBackgroundActivitiesCount(u)
         /\ Busy' - Cardinality(Entered("background"))
              = Len(u.queue["backgroundInteractive"]) + Lasting(Now, u)
<1>1. Now \in Tidy /\ u \in Tidy /\ queue' = u.queue /\ queue = Now.queue
  BY DEF Sound, Become, Now
<1>2. \A q \in QueueName : /\ ToSet(queue[q]) = Members(Now, q)
                          /\ ToSet(queue'[q]) = Members(u, q)
  BY <1>1, MembersCount
<1>3. Busy' = GetRunningBackgroundActivitiesCount(u)
  <2>1. Now' = u
    BY BecomeNow
  <2> QED
    BY <2>1 DEF Busy
<1> DEFINE is == Members(u, "background")
           was == Members(Now, "background")
<1>4. Entered("background") = is \ was
  BY <1>2, QueueNames DEF Entered
<1>5. IsFiniteSet(is) /\ Cardinality(is) = Len(u.queue["background"])
  BY <1>1, MembersCount, QueueNames
<1>6. Cardinality(is \ was) = Cardinality(is) - Cardinality(is \cap was)
  BY <1>5, FS_Difference
<1>7. is \cap was = was \cap is
  OBVIOUS
<1>8. Lasting(Now, u) = Cardinality(was \cap is) /\ Lasting(Now, u) \in Nat
  BY <1>1, LastingCount DEF Lasting
<1>9. /\ Len(u.queue["background"]) \in Nat /\ Len(u.queue["backgroundInteractive"]) \in Nat
      /\ GetRunningBackgroundActivitiesCount(u)
           = Len(u.queue["background"]) + Len(u.queue["backgroundInteractive"])
  BY BusySum, QueueNames
<1>10. Cardinality(Entered("background")) = Len(u.queue["background"]) - Lasting(Now, u)
  BY <1>4, <1>5, <1>6, <1>7, <1>8
<1>11. Busy' - Cardinality(Entered("background"))
         = Len(u.queue["backgroundInteractive"]) + Lasting(Now, u)
  <2> DEFINE b == Len(u.queue["background"])
             j == Len(u.queue["backgroundInteractive"])
             k == Lasting(Now, u)
             e == Cardinality(Entered("background"))
  <2>1. b \in Nat /\ j \in Nat /\ k \in Nat /\ Busy' = b + j /\ e = b - k
    BY <1>3, <1>8, <1>9, <1>10
  <2> HIDE DEF b, j, k, e
  <2>2. Busy' - e = j + k
    BY <2>1
  <2> QED
    BY <2>2 DEF b, j, k, e
<1>12. ASSUME NEW q \in {"background", "backgroundInteractive"}
       PROVE  /\ Entered(q) # {} => Joined(Now, u, q)
              /\ \A x \in Activities : On(u, x, q) => x \in ToSet(queue'[q])
  <2>1. q \in QueueName
    BY QueueNames
  <2> QED
    BY <1>2, <2>1 DEF Entered, Joined, Members
<1> QED
  BY <1>3, <1>11, <1>12

\* Nobody is let into a slot past the limit of its class, for any number of
\* Activities and any limits, whatever handler runs CheckReadyQueue and however
\* often: only a developer's Run and RunAll go past them, and the Activity whose
\* handler let another in and that then starts over.
THEOREM SlotsLimited == Spec => LimitRespected
<1> DEFINE Inside ==
             /\ Entered("background") # {} =>
                  Within(Busy', level', "backgroundInteractive")
             /\ Entered("backgroundInteractive") # {} =>
                  Within(Busy' - Cardinality(Entered("background")), InteractiveLevel,
                         "background")
           Goal == Inside \/ RunAll \/ \E a \in Activities : Run(a)
<1>1. ASSUME Sound(Now), FamilySubscribes, Next
      PROVE  Goal
  <2>1. PICK u \in ManagerState :
          /\ Become(u) /\ Follows(Now, u)
          /\ Limited(Now, u, Handled) \/ RunAll \/ \E a \in Activities : Run(a)
    BY <1>1, NextFollows
  <2>2. /\ \A q \in {"background", "backgroundInteractive"} :
             /\ Entered(q) # {} => Joined(Now, u, q)
             /\ \A x \in Activities : On(u, x, q) => x \in ToSet(queue'[q])
        /\ Busy' = GetRunningBackgroundActivitiesCount(u)
        /\ Busy' - Cardinality(Entered("background"))
             = Len(u.queue["backgroundInteractive"]) + Lasting(Now, u)
    BY <1>1, <2>1, EnteredCount DEF Follows
  <2>3. level' = u.level
    BY <2>1 DEF Become
  <2>4. ASSUME Limited(Now, u, Handled)
        PROVE  Inside
    <3>1. ASSUME NEW q \in {"background", "backgroundInteractive"},
                 \E x \in Handled : On(u, x, q)
          PROVE  \E a \in ToSet(queue'[q]) : HandlerOf(a)
      BY <2>2, <3>1 DEF Handled
    <3>2. Entered("background") # {} => Within(Busy', level', "backgroundInteractive")
      BY <2>2, <2>3, <2>4, <3>1 DEF Limited, Within
    <3>3. Entered("backgroundInteractive") # {} =>
            Within(Busy' - Cardinality(Entered("background")), InteractiveLevel, "background")
      BY <2>2, <2>4, <3>1 DEF Limited, Within
    <3> QED
      BY <3>2, <3>3
  <2> QED
    BY <2>1, <2>4
<1>2. Sound(Now) /\ FamilySubscribes /\ [Next]_vars => [Goal]_vars
  <2> HIDE DEF Goal
  <2> QED
    BY <1>1
<1> QED
  BY <1>2, StaysSound, FamilySubscribed, PTL DEF Spec, LimitRespected

\* Every Activity uses its power as the lock it is (PowerLock), whatever calls,
\* replies and departures cross: RunActivity begins only what EndActivity's
\* notification gave back, EndActivity ends only what was begun, and the callback
\* is not called before the lock is on.
THEOREM PowerUsedAsLock == Spec => PowerIsALock
<1> DEFINE Used(a) ==
             /\ \/ [Lock(a)!Next]_(act[a].power)
                \/ act[a].power = "unlocking" /\ act'[a].power = "locking"
                \/ act[a].power = "unlocked" /\ act'[a].power = "unlocking"
             /\ act[a].callback # "calling" /\ act'[a].callback = "calling" =>
                  act'[a].power = "locked"
<1>1. ASSUME Sound(Now), FamilySubscribes, Next, NEW a \in Powered
      PROVE  Used(a)
  <2>1. PICK u \in ManagerState : Become(u) /\ Follows(Now, u)
    BY <1>1, NextFollows
  <2>2. a \in Activities /\ act'[a] = u.act[a] /\ Now.act[a] = act[a]
    BY <2>1, SpecificationsAssumption DEF Become, Now
  <2>3. Serves(act[a], act'[a], a)
    BY <2>1, <2>2 DEF Follows
  <2>4. \/ act'[a].power = act[a].power
        \/ Lock(a)!Next
        \/ act[a].power = "unlocking" /\ act'[a].power = "locking"
        \/ act[a].power = "unlocked" /\ act'[a].power = "unlocking"
    BY <1>1, <2>3
       DEF Serves, Lock!Next, Lock!Begin, Lock!Locked, Lock!End, Lock!Unlocked
  <2> QED
    BY <1>1, <2>3, <2>4 DEF Serves
<1>2. Sound(Now) /\ FamilySubscribes /\ [Next]_vars => [\A a \in Powered : Used(a)]_vars
  <2> HIDE DEF Used
  <2> QED
    BY <1>1
<1> QED
  BY <1>2, StaysSound, FamilySubscribed, PTL DEF Spec, PowerIsALock

\* An Activity in line for a slot has its trigger fired, its schedule due and its
\* requirements met, if no complete may set a new trigger or schedule on it: the
\* Requirement's callbacks withdraw one that lost a requirement, and every other
\* handler that undoes a prerequisite takes the Activity out of line first.
THEOREM LineWanted ==
  ASSUME UpdatesStand
  PROVE  Spec => []QueuedIsStillWanted
<1>1. ASSUME Sound(Now)
      PROVE  QueuedIsStillWanted
  <2> SUFFICES ASSUME NEW q \in {"ready", "readyInteractive"},
                      NEW i \in 1..Len(queue[q])
               PROVE  PrerequisitesMet(act[queue[q][i]])
    BY DEF QueuedIsStillWanted
  <2> DEFINE a == queue[q][i]
  <2>1. q \in QueueName /\ queue[q] \in Seq(Activities)
    BY <1>1, QueueNames DEF Sound, Tidy, ManagerState, Now
  <2>2. a \in Activities
    BY <2>1, ElementOfSeq
  <2>3. q \in At(Now, a) /\ Fit(act[a], At(Now, a), a)
    BY <1>1, <2>1, <2>2, SoundParts
  <2> QED
    BY <2>3 DEF Fit, Wanted, ReadyQueues
<1> QED
  BY <1>1, StaysSound, PTL

\* No start is lost: whichever of the commands, prerequisites and ends of earlier
\* runs comes last, its handler asks for the run, if clients neither pause nor
\* adopt, and none is refused a complete that takes the trigger or the schedule
\* away. (With these the code loses starts; the README says how.)
THEOREM StartsHeard ==
  ASSUME StartsStand
  PROVE  Spec => []NoLostStart
<1>1. Sound(Now) => NoLostStart
  BY SoundParts DEF NoLostStart, Standing, Asked
<1> QED
  BY <1>1, StaysSound, PTL

\* Power is asked for, held or being given back only by a live Activity that runs,
\* if no complete is refused: Activity::ReleaseActivity is reached only after the
\* notification of the unlock, and no release or restart overtakes it.
THEOREM PowerGivenBack ==
  ASSUME EndsStand
  PROVE  Spec => []NoLeakedPower
<1>1. Sound(Now) => NoLeakedPower
  <2> SUFFICES ASSUME Sound(Now), NEW a \in Activities,
                      act[a].power \in {"locking", "locked", "unlocking"}
               PROVE  Live(a) /\ act[a].running
    BY DEF NoLeakedPower
  <2>1. Fit(act[a], At(Now, a), a) /\ ~Off(act[a])
    BY SoundParts DEF Off
  <2> QED
    BY <2>1 DEF Fit, Flags, Kept, Live
<1> QED
  BY <1>1, StaysSound, PTL

\* Under the same assumption an Activity that was released has no trigger armed and
\* no schedule queued, and is neither in line nor on a running queue, until its
\* last subscriber and persist command go and the object is destroyed.
THEOREM ReleasedAtRest ==
  ASSUME EndsStand
  PROVE  Spec => []ReleasedIsQuiet
<1>1. Sound(Now) => ReleasedIsQuiet
  <2> SUFFICES ASSUME Sound(Now), NEW a \in Activities, act[a].life = "released"
               PROVE  /\ act[a].trigger # "armed"
                      /\ act[a].schedule # "queued"
                      /\ Places(a) \subseteq {"scheduled"} \X Nat
    BY DEF ReleasedIsQuiet
  <2>1. Fit(act[a], At(Now, a), a) /\ At(Now, a) \subseteq QueueName
    BY SoundParts DEF At
  <2>2. act[a].trigger # "armed" /\ act[a].schedule # "queued"
    BY <2>1 DEF Fit, Kept
  <2>3. At(Now, a) \subseteq {"scheduled"}
    BY <2>1 DEF Fit, Flags, Kept, QueueName, ReadyQueues, RunningQueues
  <2>4. ASSUME NEW q \in QueueName, NEW i \in 1..Len(queue[q]), queue[q][i] = a
        PROVE  <<q, i>> \in {"scheduled"} \X Nat
    <3>1. Len(queue[q]) \in Nat
      BY QueueType DEF Sound, Tidy, Now
    <3>2. q = "scheduled"
      BY <2>3, <2>4, SoundParts
    <3> QED
      BY <3>1, <3>2
  <2>5. Places(a) \subseteq {"scheduled"} \X Nat
    BY <2>4 DEF Places
  <2> QED
    BY <2>2, <2>5
<1> QED
  BY <1>1, StaysSound, PTL
=============================================================================
