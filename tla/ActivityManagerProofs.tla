------------------------- MODULE ActivityManagerProofs -------------------------
(***************************************************************************)
(* Theorems about ActivityManager, for every value of its constants: the   *)
(* state is always what its declarations say, and a cancel, stop or        *)
(* complete that was accepted stands. Before them, what the operations it  *)
(* is built from preserve: one lemma for each operation on the type of the *)
(* state, and one on what it leaves alone.                                 *)
(*                                                                         *)
(* Then the family of an Activity: its parent, the parent it was released  *)
(* by and those who wait to adopt it are subscribers of it. And what the   *)
(* operations on the run queues do: an Activity is on one queue at most,   *)
(* admission moves whom it runs from a ready queue to its background queue,*)
(* and leaves no slot idle. The theorems about the queues are in RunProofs.*)
(***************************************************************************)
EXTENDS ActivityManager, FiniteSetTheorems, SequenceTheorems, WellFoundedInduction, TLAPS

-----------------------------------------------------------------------------
(* Lists.                                                                  *)

\* Taking a member off a list leaves a list of the same things.
LEMMA WithoutType ==
  ASSUME NEW S, NEW list \in Seq(S), NEW e
  PROVE  Without(list, e) \in Seq(S)
<1>1. CASE \E i \in 1..Len(list) : list[i] = e
  <2> DEFINE i == CHOOSE i \in 1..Len(list) : list[i] = e
  <2>1. i \in 1..Len(list)
    BY <1>1
  <2>2. i - 1 \in Int /\ i + 1 \in Int /\ Len(list) \in Int
    BY <2>1
  <2> HIDE DEF i
  <2>3. /\ \A j \in 1..(i - 1) : list[j] \in S
        /\ \A j \in (i + 1)..Len(list) : list[j] \in S
    BY <2>1, LenProperties
  <2>4. SubSeq(list, 1, i - 1) \in Seq(S)
    BY <2>2, <2>3, SubSeqProperties
  <2>5. SubSeq(list, i + 1, Len(list)) \in Seq(S)
    BY <2>2, <2>3, SubSeqProperties
  <2>6. Without(list, e) = SubSeq(list, 1, i - 1) \o SubSeq(list, i + 1, Len(list))
    BY <1>1 DEF Without, RemoveAt, i
  <2> QED
    BY <2>4, <2>5, <2>6, ConcatProperties
<1> QED
  BY <1>1 DEF Without

-----------------------------------------------------------------------------
(* Operations on one Activity.                                             *)

LEMMA NewActivityType ==
  ASSUME NEW a \in Activities
  PROVE  NewActivity(a) \in ActivityState
<1>1. << >> \in Seq(Subscribers) /\ << >> \in Seq(PersistCommand)
  BY EmptySeq
<1> QED
  BY <1>1 DEF NewActivity, ActivityState, ActivityCommand

\* A record with one field changed.
LEMMA FlagType ==
  ASSUME NEW r \in ActivityState, NEW v \in BOOLEAN
  PROVE  /\ [r EXCEPT !.named = v] \in ActivityState
         /\ [r EXCEPT !.initialized = v] \in ActivityState
         /\ [r EXCEPT !.scheduled = v] \in ActivityState
         /\ [r EXCEPT !.ready = v] \in ActivityState
         /\ [r EXCEPT !.running = v] \in ActivityState
         /\ [r EXCEPT !.ending = v] \in ActivityState
         /\ [r EXCEPT !.terminate = v] \in ActivityState
         /\ [r EXCEPT !.restart = v] \in ActivityState
         /\ [r EXCEPT !.requeue = v] \in ActivityState
         /\ [r EXCEPT !.yielding = v] \in ActivityState
         /\ [r EXCEPT !.released = v] \in ActivityState
<1>1. [r EXCEPT !.named = v] \in ActivityState
  BY DEF ActivityState
<1>2. [r EXCEPT !.initialized = v] \in ActivityState
  BY DEF ActivityState
<1>3. [r EXCEPT !.scheduled = v] \in ActivityState
  BY DEF ActivityState
<1>4. [r EXCEPT !.ready = v] \in ActivityState
  BY DEF ActivityState
<1>5. [r EXCEPT !.running = v] \in ActivityState
  BY DEF ActivityState
<1>6. [r EXCEPT !.ending = v] \in ActivityState
  BY DEF ActivityState
<1>7. [r EXCEPT !.terminate = v] \in ActivityState
  BY DEF ActivityState
<1>8. [r EXCEPT !.restart = v] \in ActivityState
  BY DEF ActivityState
<1>9. [r EXCEPT !.requeue = v] \in ActivityState
  BY DEF ActivityState
<1>10. [r EXCEPT !.yielding = v] \in ActivityState
  BY DEF ActivityState
<1>11. [r EXCEPT !.released = v] \in ActivityState
  BY DEF ActivityState
<1> QED
  BY <1>1, <1>2, <1>3, <1>4, <1>5, <1>6, <1>7, <1>8, <1>9, <1>10, <1>11

LEMMA CommandType ==
  ASSUME NEW r \in ActivityState, NEW command \in ActivityCommand
  PROVE  /\ [r EXCEPT !.intCommand = command] \in ActivityState
         /\ [r EXCEPT !.extCommand = command] \in ActivityState
         /\ [r EXCEPT !.sentCommand = command] \in ActivityState
BY DEF ActivityState

LEMMA CallbackType ==
  ASSUME NEW r \in ActivityState, NEW v \in {"none", "idle", "calling"}
  PROVE  [r EXCEPT !.callback = v] \in ActivityState
BY DEF ActivityState

LEMMA PowerType ==
  ASSUME NEW r \in ActivityState,
         NEW v \in {"none", "unlocked", "locking", "locked", "unlocking"}
  PROVE  [r EXCEPT !.power = v] \in ActivityState
BY DEF ActivityState

LEMMA ToldType ==
  ASSUME NEW r \in ActivityState, NEW told \in SUBSET Subscribers
  PROVE  [r EXCEPT !.told = told] \in ActivityState
BY DEF ActivityState

LEMMA TriggerType ==
  ASSUME NEW r \in ActivityState, NEW v \in {"none", "idle", "armed", "fired"}
  PROVE  [r EXCEPT !.trigger = v] \in ActivityState
BY DEF ActivityState

LEMMA ScheduleType ==
  ASSUME NEW r \in ActivityState, NEW v \in {"none", "idle", "queued", "due"}
  PROVE  [r EXCEPT !.schedule = v] \in ActivityState
BY DEF ActivityState

LEMMA FamilyType ==
  ASSUME NEW r \in ActivityState,
         NEW subscriptions \in SUBSET Subscribers, NEW told \in SUBSET Subscribers,
         NEW parent \in Subscribers \cup {None},
         NEW releasedParent \in Subscribers \cup {None},
         NEW adopters \in Seq(Subscribers)
  PROVE  [r EXCEPT !.subscriptions = subscriptions, !.told = told,
                   !.releasedParent = releasedParent, !.parent = parent,
                   !.adopters = adopters] \in ActivityState
BY DEF ActivityState

LEMMA PersistCommandsType ==
  ASSUME NEW r \in ActivityState, NEW commands \in Seq(PersistCommand)
  PROVE  [r EXCEPT !.persistCommands = commands] \in ActivityState
BY DEF ActivityState

LEMMA AddSubscriptionType ==
  ASSUME NEW r \in ActivityState, NEW b \in Subscribers
  PROVE  AddSubscription(r, b) \in ActivityState
BY DEF AddSubscription, ActivityState

LEMMA SetParentType ==
  ASSUME NEW r \in ActivityState, NEW b \in Subscribers
  PROVE  SetParent(r, b) \in ActivityState
BY DEF SetParent, ActivityState

LEMMA BroadcastCommandType ==
  ASSUME NEW r \in ActivityState, NEW command \in ActivityCommand
  PROVE  BroadcastCommand(r, command) \in ActivityState
BY DEF BroadcastCommand, ActivityState

LEMMA DoRunActivityType ==
  ASSUME NEW r \in ActivityState
  PROVE  DoRunActivity(r) \in ActivityState
<1> DEFINE q == BroadcastCommand(r, "start")
           c == IF q.callback = "none" THEN "none" ELSE "calling"
<1>1. q \in ActivityState
  BY BroadcastCommandType DEF ActivityCommand
<1>2. c \in {"none", "idle", "calling"}
  OBVIOUS
<1> HIDE DEF q, c
<1>3. [q EXCEPT !.callback = c] \in ActivityState
  BY <1>1, <1>2, CallbackType
<1> QED
  BY <1>3 DEF DoRunActivity, q, c

LEMMA RunActivityType ==
  ASSUME NEW r \in ActivityState
  PROVE  RunActivity(r) \in ActivityState
<1> DEFINE q == [r EXCEPT !.running = TRUE]
<1>1. q \in ActivityState
  BY DEF ActivityState
<1> HIDE DEF q
<1>2. [q EXCEPT !.power = "locking"] \in ActivityState
  BY <1>1, PowerType
<1> QED
  BY <1>1, <1>2, DoRunActivityType DEF RunActivity, q

LEMMA DoAdoptType ==
  ASSUME NEW r \in ActivityState, r.adopters # << >>
  PROVE  DoAdopt(r) \in ActivityState
<1>1. Head(r.adopters) \in Subscribers /\ Tail(r.adopters) \in Seq(Subscribers)
  BY HeadTailProperties DEF ActivityState
<1> QED
  BY <1>1 DEF DoAdopt, ActivityState

LEMMA NextCommandType ==
  ASSUME NEW r \in ActivityState
  PROVE  ComputeNextExternalCommand(r) \in ActivityCommand
BY DEF ComputeNextExternalCommand, ActivityCommand, FinalCommand

LEMMA DisarmType ==
  ASSUME NEW r \in ActivityState
  PROVE  Disarm(r) \in ActivityState
<1> DEFINE trigger  == IF r.trigger = "armed" THEN "idle" ELSE r.trigger
           schedule == IF r.schedule = "queued" THEN "idle" ELSE r.schedule
<1>1. /\ trigger \in {"none", "idle", "armed", "fired"}
      /\ schedule \in {"none", "idle", "queued", "due"}
  BY DEF ActivityState
<1> HIDE DEF trigger, schedule
<1>2. [r EXCEPT !.trigger = trigger, !.schedule = schedule] \in ActivityState
  BY <1>1, TriggerType, ScheduleType
<1> QED
  BY <1>2 DEF Disarm, trigger, schedule

-----------------------------------------------------------------------------
(* The parts of the state.                                                 *)

LEMMA ActType ==
  ASSUME NEW s \in ManagerState, NEW a \in Activities
  PROVE  s.act[a] \in ActivityState
BY DEF ManagerState

LEMMA QueueType ==
  ASSUME NEW s \in ManagerState, NEW q \in QueueName
  PROVE  s.queue[q] \in Seq(Activities) /\ Len(s.queue[q]) \in Nat
BY LenProperties DEF ManagerState

LEMMA SetActType ==
  ASSUME NEW s \in ManagerState, NEW a \in Activities, NEW r \in ActivityState
  PROVE  SetAct(s, a, r) \in ManagerState
BY DEF SetAct, ManagerState

LEMMA UnlinkType ==
  ASSUME NEW s \in ManagerState, NEW a \in Activities
  PROVE  Unlink(s, a) \in ManagerState
<1>1. \A q \in QueueName : Without(s.queue[q], a) \in Seq(Activities)
  BY QueueType, WithoutType
<1> QED
  BY <1>1 DEF Unlink, ManagerState

LEMMA MoveToType ==
  ASSUME NEW s \in ManagerState, NEW a \in Activities, NEW q \in QueueName
  PROVE  MoveTo(s, a, q) \in ManagerState
<1>1. Unlink(s, a) \in ManagerState
  BY UnlinkType
<1>2. Append(Unlink(s, a).queue[q], a) \in Seq(Activities)
  BY <1>1, QueueType, AppendProperties
<1> QED
  BY <1>1, <1>2 DEF MoveTo, ManagerState

-----------------------------------------------------------------------------
(* Admission.                                                              *)

LEMMA RoomType ==
  ASSUME NEW limit \in Nat, NEW count \in Nat, NEW waiting \in Nat
  PROVE  Room(limit, count, waiting) \in 0..waiting
BY DEF Room

LEMMA BusyType ==
  ASSUME NEW s \in ManagerState
  PROVE  GetRunningBackgroundActivitiesCount(s) \in Nat
<1>1. "background" \in QueueName /\ "backgroundInteractive" \in QueueName
  BY DEF QueueName
<1> DEFINE x == Len(s.queue["background"])
           y == Len(s.queue["backgroundInteractive"])
<1>2. x \in Nat /\ y \in Nat
  BY <1>1, QueueType
<1> HIDE DEF x, y
<1>3. x + y \in Nat
  BY <1>2
<1> QED
  BY <1>3 DEF x, y, GetRunningBackgroundActivitiesCount

LEMMA RunFirstType ==
  ASSUME NEW s \in ManagerState,
         NEW from \in QueueName, NEW to \in QueueName,
         NEW n \in 0..Len(s.queue[from])
  PROVE  RunFirst(s, n, from, to) \in ManagerState
<1> DEFINE first == SubSeq(s.queue[from], 1, n)
           rest  == SubSeq(s.queue[from], n + 1, Len(s.queue[from]))
           runs  == [a \in Activities |->
                       IF \E i \in 1..n : first[i] = a THEN RunActivity(s.act[a])
                       ELSE s.act[a]]
           line  == [s.queue EXCEPT ![from] = rest]
<1>1. s.queue[from] \in Seq(Activities) /\ Len(s.queue[from]) \in Nat
  BY QueueType
<1>2. n \in Int /\ n + 1 \in Int /\ Len(s.queue[from]) \in Int
  BY <1>1
<1>3. /\ \A i \in 1..n : s.queue[from][i] \in Activities
      /\ \A i \in (n + 1)..Len(s.queue[from]) : s.queue[from][i] \in Activities
  BY <1>1, ElementOfSeq
<1>4. first \in Seq(Activities)
  BY <1>2, <1>3, SubSeqProperties
<1>5. rest \in Seq(Activities)
  BY <1>2, <1>3, SubSeqProperties
<1>6. line \in [QueueName -> Seq(Activities)]
  BY <1>5 DEF ManagerState
<1>7. s.queue[to] \o first \in Seq(Activities)
  BY <1>4, QueueType, ConcatProperties
<1>8. runs \in [Activities -> ActivityState]
  BY ActType, RunActivityType
<1> HIDE DEF first, rest, runs
<1>9. [line EXCEPT ![to] = s.queue[to] \o first] \in [QueueName -> Seq(Activities)]
  BY <1>6, <1>7
<1> HIDE DEF line
<1>10. [s EXCEPT !.queue = [line EXCEPT ![to] = s.queue[to] \o first], !.act = runs]
         \in ManagerState
  BY <1>8, <1>9 DEF ManagerState
<1> QED
  BY <1>10 DEF RunFirst, first, rest, runs, line

LEMMA CheckReadyQueueType ==
  ASSUME NEW s \in ManagerState
  PROVE  CheckReadyQueue(s) \in ManagerState
<1> DEFINE n == Room(InteractiveLevel, GetRunningBackgroundActivitiesCount(s),
                     Len(s.queue["readyInteractive"]))
           u == RunFirst(s, n, "readyInteractive", "backgroundInteractive")
           t == [u EXCEPT !.yieldTimer = n < Len(s.queue["readyInteractive"])]
           m == Room(s.level, GetRunningBackgroundActivitiesCount(t),
                     Len(t.queue["ready"]))
<1>1. /\ "ready" \in QueueName /\ "readyInteractive" \in QueueName
      /\ "background" \in QueueName /\ "backgroundInteractive" \in QueueName
  BY DEF QueueName
<1>2. n \in 0..Len(s.queue["readyInteractive"])
  BY <1>1, QueueType, BusyType, RoomType, LevelsAssumption
<1>3. u \in ManagerState
  BY <1>1, <1>2, RunFirstType
<1>4. (n < Len(s.queue["readyInteractive"])) \in BOOLEAN
  OBVIOUS
<1> HIDE DEF n, u
<1>5. t \in ManagerState
  BY <1>3, <1>4 DEF ManagerState
<1> HIDE DEF t
<1>6. s.level \in Nat
  BY LevelsAssumption DEF ManagerState
<1>7. m \in 0..Len(t.queue["ready"])
  BY <1>1, <1>5, <1>6, QueueType, BusyType, RoomType
<1>8. RunFirst(t, m, "ready", "background") \in ManagerState
  BY <1>1, <1>5, <1>7, RunFirstType
<1> QED
  BY <1>8 DEF CheckReadyQueue, n, t, u

-----------------------------------------------------------------------------
(* What an Activity tells the Manager.                                     *)

LEMMA InformActivityReadyType ==
  ASSUME NEW s \in ManagerState, NEW a \in Activities
  PROVE  InformActivityReady(s, a) \in ManagerState
<1> DEFINE line == IF a \in UserInitiated THEN "readyInteractive" ELSE "ready"
<1>1. line \in QueueName /\ "immediate" \in QueueName
  BY DEF QueueName
<1> HIDE DEF line
<1>2. MoveTo(s, a, "immediate") \in ManagerState /\ MoveTo(s, a, line) \in ManagerState
  BY <1>1, MoveToType
<1>3. SetAct(MoveTo(s, a, "immediate"), a, RunActivity(s.act[a])) \in ManagerState
  BY <1>2, ActType, RunActivityType, SetActType
<1>4. CheckReadyQueue(MoveTo(s, a, line)) \in ManagerState
  BY <1>2, CheckReadyQueueType
<1> QED
  BY <1>3, <1>4 DEF InformActivityReady, line

LEMMA InformActivityNotReadyType ==
  ASSUME NEW s \in ManagerState, NEW a \in Activities
  PROVE  InformActivityNotReady(s, a) \in ManagerState
BY MoveToType DEF InformActivityNotReady, QueueName

LEMMA InformActivityEndType ==
  ASSUME NEW s \in ManagerState, NEW a \in Activities
  PROVE  InformActivityEnd(s, a) \in ManagerState
BY MoveToType, CheckReadyQueueType DEF InformActivityEnd, QueueName

LEMMA ReleaseActivityType ==
  ASSUME NEW s \in ManagerState, NEW a \in Activities
  PROVE  ReleaseActivity(s, a) \in ManagerState
<1>1. [s.act[a] EXCEPT !.life = "released"] \in ActivityState
  BY ActType DEF ActivityState
<1>2. SetAct(Unlink(s, a), a, [s.act[a] EXCEPT !.life = "released"]) \in ManagerState
  BY <1>1, UnlinkType, SetActType
<1> QED
  BY <1>2, CheckReadyQueueType DEF ReleaseActivity

LEMMA RequestRunActivityType ==
  ASSUME NEW s \in ManagerState, NEW a \in Activities
  PROVE  RequestRunActivity(s, a) \in ManagerState
<1>1. [s.act[a] EXCEPT !.ready = TRUE] \in ActivityState
  BY ActType, FlagType
<1> QED
  BY <1>1, SetActType, InformActivityReadyType DEF RequestRunActivity

LEMMA ScheduleActivityType ==
  ASSUME NEW s \in ManagerState, NEW a \in Activities
  PROVE  ScheduleActivity(s, a) \in ManagerState
<1> DEFINE p == s.act[a]
           trigger  == IF p.trigger = "none" THEN "none" ELSE "armed"
           schedule == IF p.schedule = "none" THEN "none" ELSE "queued"
           q == [p EXCEPT !.trigger = trigger, !.schedule = schedule]
           r == [q EXCEPT !.scheduled = TRUE]
<1>1. p \in ActivityState
  BY ActType
<1>2. /\ trigger \in {"none", "idle", "armed", "fired"}
      /\ schedule \in {"none", "idle", "queued", "due"}
  OBVIOUS
<1> HIDE DEF p, trigger, schedule
<1>3. q \in ActivityState
  BY <1>1, <1>2, TriggerType, ScheduleType
<1> HIDE DEF q
<1>4. r \in ActivityState
  BY <1>3 DEF ActivityState
<1> HIDE DEF r
<1>5. SetAct(s, a, r) \in ManagerState /\ RequestRunActivity(SetAct(s, a, r), a) \in ManagerState
  BY <1>4, SetActType, RequestRunActivityType
<1> QED
  BY <1>5 DEF ScheduleActivity, p, q, r, trigger, schedule

LEMMA RequestScheduleActivityType ==
  ASSUME NEW s \in ManagerState, NEW a \in Activities
  PROVE  RequestScheduleActivity(s, a) \in ManagerState
<1> DEFINE t == SetAct(s, a, [s.act[a] EXCEPT !.initialized = TRUE])
<1>1. [s.act[a] EXCEPT !.initialized = TRUE] \in ActivityState
  BY ActType, FlagType
<1>2. t \in ManagerState
  BY <1>1, SetActType
<1> HIDE DEF t
<1>3. MoveTo(t, a, "scheduled") \in ManagerState /\ MoveTo(t, a, "initialized") \in ManagerState
  BY <1>2, MoveToType DEF QueueName
<1> QED
  BY <1>3, ScheduleActivityType DEF RequestScheduleActivity, t

-----------------------------------------------------------------------------
(* Developer methods.                                                      *)

LEMMA SetBackgroundConcurrencyLevelType ==
  ASSUME NEW s \in ManagerState, NEW n \in Levels
  PROVE  SetBackgroundConcurrencyLevel(s, n) \in ManagerState
<1>1. [s EXCEPT !.level = n] \in ManagerState
  BY DEF ManagerState
<1> QED
  BY <1>1, CheckReadyQueueType DEF SetBackgroundConcurrencyLevel

LEMMA EvictBackgroundActivityType ==
  ASSUME NEW s \in ManagerState, NEW a \in Activities
  PROVE  EvictBackgroundActivity(s, a) \in ManagerState
BY MoveToType, CheckReadyQueueType DEF EvictBackgroundActivity, QueueName

LEMMA EvictAllBackgroundActivitiesType ==
  ASSUME NEW s \in ManagerState
  PROVE  EvictAllBackgroundActivities(s) \in ManagerState
<1> DEFINE long == s.queue["longBackground"] \o s.queue["background"]
           t == [s EXCEPT !.queue["longBackground"] = long, !.queue["background"] = << >>]
<1>1. "longBackground" \in QueueName /\ "background" \in QueueName
  BY DEF QueueName
<1>2. long \in Seq(Activities) /\ << >> \in Seq(Activities)
  BY <1>1, QueueType, ConcatProperties, EmptySeq
<1> HIDE DEF long
<1>3. t \in ManagerState
  BY <1>2 DEF ManagerState
<1> QED
  BY <1>3, CheckReadyQueueType DEF EvictAllBackgroundActivities, long

LEMMA RunReadyBackgroundActivityType ==
  ASSUME NEW s \in ManagerState, NEW a \in Activities
  PROVE  RunReadyBackgroundActivity(s, a) \in ManagerState
<1>1. /\ MoveTo(s, a, "background") \in ManagerState
      /\ MoveTo(s, a, "backgroundInteractive") \in ManagerState
  BY MoveToType DEF QueueName
<1>2. RunActivity(s.act[a]) \in ActivityState
  BY ActType, RunActivityType
<1>3. /\ SetAct(MoveTo(s, a, "background"), a, RunActivity(s.act[a])) \in ManagerState
      /\ SetAct(MoveTo(s, a, "backgroundInteractive"), a, RunActivity(s.act[a]))
           \in ManagerState
  BY <1>1, <1>2, SetActType
<1> QED
  BY <1>3 DEF RunReadyBackgroundActivity

LEMMA RunAllReadyActivitiesType ==
  ASSUME NEW s \in ManagerState
  PROVE  RunAllReadyActivities(s) \in ManagerState
<1> DEFINE t == RunFirst(s, Len(s.queue["readyInteractive"]),
                         "readyInteractive", "backgroundInteractive")
<1>1. /\ "ready" \in QueueName /\ "readyInteractive" \in QueueName
      /\ "background" \in QueueName /\ "backgroundInteractive" \in QueueName
  BY DEF QueueName
<1>2. Len(s.queue["readyInteractive"]) \in 0..Len(s.queue["readyInteractive"])
  BY <1>1, QueueType
<1>3. t \in ManagerState
  BY <1>1, <1>2, RunFirstType
<1> HIDE DEF t
<1>4. Len(t.queue["ready"]) \in 0..Len(t.queue["ready"])
  BY <1>1, <1>3, QueueType
<1> QED
  BY <1>1, <1>3, <1>4, RunFirstType DEF RunAllReadyActivities, t

-----------------------------------------------------------------------------
(* The lifecycle.                                                          *)

LEMMA AdvanceType ==
  ASSUME NEW s \in ManagerState, NEW a \in Activities
  PROVE  Advance(s, a) \in ManagerState
<1>1. BroadcastCommand(s.act[a], ComputeNextExternalCommand(s.act[a])) \in ActivityState
  BY ActType, NextCommandType, BroadcastCommandType
<1>2. SetAct(s, a, BroadcastCommand(s.act[a], ComputeNextExternalCommand(s.act[a])))
        \in ManagerState
  BY <1>1, SetActType
<1> QED
  BY <1>2, RequestRunActivityType DEF Advance

LEMMA RequeueActivityType ==
  ASSUME NEW s \in ManagerState, NEW a \in Activities
  PROVE  RequeueActivity(s, a) \in ManagerState
<1> DEFINE r == [s.act[a] EXCEPT !.running = FALSE, !.ending = FALSE,
                                 !.restart = FALSE, !.requeue = FALSE,
                                 !.yielding = FALSE]
           t == SetAct(s, a, r)
<1>1. r \in ActivityState
  BY ActType, FlagType
<1> HIDE DEF r
<1>2. [r EXCEPT !.ready = FALSE] \in ActivityState
  BY <1>1 DEF ActivityState
<1>3. t \in ManagerState /\ SetAct(t, a, [r EXCEPT !.ready = FALSE]) \in ManagerState
  BY <1>1, <1>2, SetActType
<1> HIDE DEF t
<1> QED
  BY <1>3, RequestRunActivityType, InformActivityNotReadyType DEF RequeueActivity, r, t

LEMMA RestartActivityType ==
  ASSUME NEW s \in ManagerState, NEW a \in Activities
  PROVE  RestartActivity(s, a) \in ManagerState
<1> DEFINE p == [s.act[a] EXCEPT !.initialized = FALSE, !.scheduled = FALSE,
                                 !.ready = FALSE, !.running = FALSE,
                                 !.ending = FALSE, !.restart = FALSE,
                                 !.requeue = FALSE, !.yielding = FALSE]
           r == [p EXCEPT !.intCommand = "none", !.extCommand = "none",
                          !.sentCommand = "none"]
           t == RequestScheduleActivity(SetAct(s, a, r), a)
<1>1. p \in ActivityState
  BY ActType, FlagType
<1> HIDE DEF p
<1>2. r \in ActivityState
  BY <1>1, CommandType DEF ActivityCommand
<1> HIDE DEF r
<1>3. t \in ManagerState
  BY <1>2, SetActType, RequestScheduleActivityType
<1> HIDE DEF t
<1>4. [t.act[a] EXCEPT !.extCommand = "start"] \in ActivityState
  BY <1>3, ActType, CommandType DEF ActivityCommand, FinalCommand
<1>5. SetAct(t, a, [t.act[a] EXCEPT !.extCommand = "start"]) \in ManagerState
  BY <1>3, <1>4, SetActType
<1> QED
  BY <1>5, AdvanceType DEF RestartActivity, p, r, t

LEMMA FinishType ==
  ASSUME NEW s \in ManagerState, NEW a \in Activities
  PROVE  Finish(s, a) \in ManagerState
BY InformActivityEndType, RequeueActivityType, RestartActivityType, ReleaseActivityType
   DEF Finish

LEMMA EndActivityType ==
  ASSUME NEW s \in ManagerState, NEW a \in Activities
  PROVE  EndActivity(s, a) \in ManagerState
<1> DEFINE r == Disarm([s.act[a] EXCEPT !.ending = TRUE])
           t == SetAct(s, a, r)
<1>1. [s.act[a] EXCEPT !.ending = TRUE] \in ActivityState
  BY ActType, FlagType
<1>2. r \in ActivityState
  BY <1>1, DisarmType
<1> HIDE DEF r
<1>3. [r EXCEPT !.power = "unlocking"] \in ActivityState
  BY <1>2 DEF ActivityState
<1>4. t \in ManagerState
  BY <1>2, SetActType
<1> HIDE DEF t
<1>5. SetAct(t, a, [r EXCEPT !.power = "unlocking"]) \in ManagerState
  BY <1>3, <1>4, SetActType
<1> QED
  BY <1>4, <1>5, FinishType DEF EndActivity, r, t

LEMMA SendCommandType ==
  ASSUME NEW s \in ManagerState, NEW a \in Activities,
         NEW command \in ActivityCommand, NEW internal \in BOOLEAN
  PROVE  SendCommand(s, a, command, internal) \in ManagerState
<1> DEFINE t == IF ~internal /\ command = "start"
                   /\ ~s.act[a].initialized /\ ~s.act[a].ending
                THEN RequestScheduleActivity(s, a) ELSE s
           r == IF internal THEN [t.act[a] EXCEPT !.intCommand = command]
                ELSE [t.act[a] EXCEPT !.extCommand = command]
           next == ComputeNextExternalCommand(r)
<1>1. t \in ManagerState
  BY RequestScheduleActivityType
<1> HIDE DEF t
<1>2. /\ [t.act[a] EXCEPT !.intCommand = command] \in ActivityState
      /\ [t.act[a] EXCEPT !.extCommand = command] \in ActivityState
  BY <1>1, ActType, CommandType
<1>3. r \in ActivityState
  BY <1>2
<1> HIDE DEF r
<1>4. next \in ActivityCommand
  BY <1>3, NextCommandType
<1> HIDE DEF next
<1>5. SetAct(t, a, r) \in ManagerState
  BY <1>1, <1>3, SetActType
<1>6. SetAct(t, a, BroadcastCommand(r, next)) \in ManagerState
  BY <1>1, <1>3, <1>4, BroadcastCommandType, SetActType
<1> QED
  BY <1>1, <1>5, <1>6, EndActivityType, AdvanceType DEF SendCommand, t, r, next

LEMMA RunIfRunnableType ==
  ASSUME NEW s \in ManagerState, NEW a \in Activities
  PROVE  RunIfRunnable(s, a) \in ManagerState
BY RequestRunActivityType DEF RunIfRunnable

LEMMA WithdrawIfReadyType ==
  ASSUME NEW s \in ManagerState, NEW a \in Activities
  PROVE  WithdrawIfReady(s, a) \in ManagerState
<1>1. [s.act[a] EXCEPT !.ready = FALSE] \in ActivityState
  BY ActType, FlagType
<1> QED
  BY <1>1, SetActType, InformActivityNotReadyType DEF WithdrawIfReady

-----------------------------------------------------------------------------
(* Subscribers.                                                            *)

LEMMA OrphanedType ==
  ASSUME NEW s \in ManagerState, NEW a \in Activities
  PROVE  Orphaned(s, a) \in ManagerState
<1>1. "cancel" \in ActivityCommand /\ TRUE \in BOOLEAN
  BY DEF ActivityCommand, FinalCommand
<1> QED
  BY <1>1, SendCommandType DEF Orphaned

LEMMA RemoveSubscriptionType ==
  ASSUME NEW s \in ManagerState, NEW a \in Activities, NEW b \in Subscribers
  PROVE  RemoveSubscription(s, a, b) \in ManagerState
<1> DEFINE r == s.act[a]
           waiting == Without(r.adopters, b)
           lost == r.parent = b
           subscriptions == r.subscriptions \ {b}
           told == r.told \ {b}
           releasedParent == IF r.releasedParent = b THEN None ELSE r.releasedParent
           parent == IF ~lost THEN r.parent
                     ELSE IF waiting = << >> THEN None ELSE Head(waiting)
           adopters == IF lost /\ waiting # << >> THEN Tail(waiting) ELSE waiting
           q == [r EXCEPT !.subscriptions = subscriptions, !.told = told,
                          !.releasedParent = releasedParent, !.parent = parent,
                          !.adopters = adopters]
           t == SetAct(s, a, q)
<1>1. r \in ActivityState
  BY ActType
<1>2. /\ r.subscriptions \subseteq Subscribers /\ r.told \subseteq Subscribers
      /\ r.parent \in Subscribers \cup {None}
      /\ r.releasedParent \in Subscribers \cup {None}
      /\ r.adopters \in Seq(Subscribers)
  BY <1>1 DEF ActivityState
<1> HIDE DEF r
<1>3. waiting \in Seq(Subscribers)
  BY <1>2, WithoutType
<1> HIDE DEF waiting
<1>4. waiting # << >> => Head(waiting) \in Subscribers /\ Tail(waiting) \in Seq(Subscribers)
  BY <1>3, HeadTailProperties
<1>5. /\ subscriptions \in SUBSET Subscribers /\ told \in SUBSET Subscribers
      /\ releasedParent \in Subscribers \cup {None}
  BY <1>2
<1>6. parent \in Subscribers \cup {None} /\ adopters \in Seq(Subscribers)
  BY <1>2, <1>3, <1>4
<1> HIDE DEF subscriptions, told, releasedParent, parent, adopters
<1>7. q \in ActivityState
  BY <1>1, <1>5, <1>6, FamilyType
<1> HIDE DEF q
<1>8. t \in ManagerState
  BY <1>7, SetActType
<1>9. EndActivity(t, a) \in ManagerState /\ Orphaned(t, a) \in ManagerState
  BY <1>8, EndActivityType, OrphanedType
<1> HIDE DEF t
<1> QED
  BY <1>8, <1>9
     DEF RemoveSubscription, r, waiting, q, t, subscriptions, told,
         releasedParent, parent, adopters

LEMMA AdoptType ==
  ASSUME NEW s \in ManagerState, NEW a \in Activities, NEW b \in Subscribers
  PROVE  Adopt(s, a, b) \in ManagerState
<1> DEFINE p == s.act[a]
           adopters == Append(p.adopters, b)
           r == [p EXCEPT !.adopters = adopters]
<1>1. p \in ActivityState
  BY ActType
<1> HIDE DEF p
<1>2. adopters \in Seq(Subscribers) /\ adopters # << >>
  BY <1>1, AppendProperties DEF ActivityState
<1> HIDE DEF adopters
<1>3. r \in ActivityState /\ r.adopters # << >>
  BY <1>1, <1>2 DEF ActivityState
<1> HIDE DEF r
<1>4. SetAct(s, a, r) \in ManagerState /\ SetAct(s, a, DoAdopt(r)) \in ManagerState
  BY <1>3, DoAdoptType, SetActType
<1> QED
  BY <1>4 DEF Adopt, p, r, adopters

LEMMA ReleaseType ==
  ASSUME NEW s \in ManagerState, NEW a \in Activities
  PROVE  Release(s, a) \in ManagerState
<1> DEFINE p == s.act[a]
           r == [p EXCEPT !.releasedParent = p.parent, !.parent = None, !.released = TRUE]
<1>1. p \in ActivityState
  BY ActType
<1> HIDE DEF p
<1>2. p.parent \in Subscribers \cup {None}
  BY <1>1 DEF ActivityState
<1>3. r \in ActivityState
  BY <1>1, <1>2 DEF ActivityState
<1> HIDE DEF r
<1>4. SetAct(s, a, r) \in ManagerState
  BY <1>3, SetActType
<1>5. r.adopters # << >> => SetAct(s, a, DoAdopt(r)) \in ManagerState
  BY <1>3, DoAdoptType, SetActType
<1> QED
  BY <1>4, <1>5 DEF Release, p, r

LEMMA YieldActivityType ==
  ASSUME NEW s \in ManagerState, NEW a \in Activities
  PROVE  YieldActivity(s, a) \in ManagerState
<1> DEFINE p == s.act[a]
           q == [p EXCEPT !.yielding = TRUE, !.requeue = TRUE]
           r == [q EXCEPT !.told = p.subscriptions]
<1>1. p \in ActivityState
  BY ActType
<1> HIDE DEF p
<1>2. q \in ActivityState
  BY <1>1, FlagType
<1> HIDE DEF q
<1>3. p.subscriptions \in SUBSET Subscribers
  BY <1>1 DEF ActivityState
<1>4. r \in ActivityState
  BY <1>2, <1>3 DEF ActivityState
<1> HIDE DEF r
<1> QED
  BY <1>4, SetActType, EndActivityType DEF YieldActivity, p, q, r

-----------------------------------------------------------------------------
(* Persist commands.                                                       *)

LEMMA FinishCreateActivityType ==
  ASSUME NEW s \in ManagerState, NEW a \in Activities,
         NEW b \in Subscribers \cup {None}, NEW start \in BOOLEAN
  PROVE  FinishCreateActivity(s, a, b, start) \in ManagerState
<1> DEFINE r == IF b = None THEN s.act[a] ELSE AddSubscription(s.act[a], b)
           u == SetAct(s, a, r)
           t == SetAct(s, a, IF b = None THEN r ELSE SetParent(r, b))
<1>1. r \in ActivityState
  BY ActType, AddSubscriptionType
<1> HIDE DEF r
<1>2. (IF b = None THEN r ELSE SetParent(r, b)) \in ActivityState
  BY <1>1, SetParentType
<1>3. u \in ManagerState /\ t \in ManagerState
  BY <1>1, <1>2, SetActType
<1> HIDE DEF t, u
<1>4. "start" \in ActivityCommand /\ FALSE \in BOOLEAN
  BY DEF ActivityCommand
<1>5. SendCommand(t, a, "start", FALSE) \in ManagerState
  BY <1>3, <1>4, SendCommandType
<1> QED
  BY <1>3, <1>5 DEF FinishCreateActivity, r, t, u

LEMMA FinishCallType ==
  ASSUME NEW s \in ManagerState, NEW a \in Activities, NEW command \in PersistCommand
  PROVE  FinishCall(s, a, command) \in ManagerState
<1>1. /\ command.finish \in {"create", "end", "restart"}
      /\ command.sub \in Subscribers \cup {None}
      /\ command.start \in BOOLEAN
  BY DEF PersistCommand
<1>2. FinishCreateActivity(s, a, command.sub, command.start) \in ManagerState
  BY <1>1, FinishCreateActivityType
<1>3. FinishEnd(s, a) \in ManagerState
  BY ActType, FlagType, SetActType DEF FinishEnd
<1> QED
  BY <1>1, <1>2, <1>3 DEF FinishCall

LEMMA EnsureCompletionType ==
  ASSUME NEW s \in ManagerState, NEW a \in Activities, NEW command \in PersistCommand
  PROVE  EnsureCompletion(s, a, command) \in ManagerState
<1> DEFINE r == s.act[a]
           commands == Append(r.persistCommands, command)
<1>1. r \in ActivityState
  BY ActType
<1> HIDE DEF r
<1>2. commands \in Seq(PersistCommand)
  BY <1>1, AppendProperties DEF ActivityState
<1> HIDE DEF commands
<1>3. SetAct(s, a, [r EXCEPT !.persistCommands = commands]) \in ManagerState
  BY <1>1, <1>2, PersistCommandsType, SetActType
<1>4. HookPersistCommand(s, a, command) \in ManagerState
  BY <1>3 DEF HookPersistCommand, r, commands
<1> QED
  BY <1>4, FinishCallType DEF EnsureCompletion

-----------------------------------------------------------------------------
(* What the operations leave alone. A handler goes back and forth between  *)
(* the Activity and the Manager; all the while the persist commands, the   *)
(* terminate flag and the name stay as they are, and the command clients   *)
(* gave is forgotten only by an Activity that may restart.                 *)

\* From p to r, an Activity has kept its commands, or started over.
Keeps(p, r) ==
  /\ r.persistCommands = p.persistCommands
  /\ r.terminate = p.terminate
  /\ r.named = p.named
  /\ r.life = "live" => p.life = "live"
  /\ r.extCommand # p.extCommand => ~p.terminate /\ r.extCommand \notin FinalCommand

\* Every Activity has, from s to t.
Held(s, t) == \A x \in Activities : Keeps(s.act[x], t.act[x])

-----------------------------------------------------------------------------
LEMMA KeepsTransitive ==
  ASSUME NEW p, NEW q, NEW r, Keeps(p, q), Keeps(q, r)
  PROVE  Keeps(p, r)
BY DEF Keeps

LEMMA HeldTransitive ==
  ASSUME NEW s, NEW t, NEW u, Held(s, t), Held(t, u)
  PROVE  Held(s, u)
BY KeepsTransitive DEF Held

LEMMA HeldSame ==
  ASSUME NEW s, NEW t, t.act = s.act
  PROVE  Held(s, t)
BY DEF Held, Keeps

LEMMA SetActHeld ==
  ASSUME NEW s \in ManagerState, NEW a \in Activities, NEW r, Keeps(s.act[a], r)
  PROVE  Held(s, SetAct(s, a, r))
<1> SUFFICES ASSUME NEW x \in Activities
             PROVE  Keeps(s.act[x], SetAct(s, a, r).act[x])
  BY DEF Held
<1>1. SetAct(s, a, r).act[x] = IF x = a THEN r ELSE s.act[x]
  BY DEF SetAct, ManagerState
<1>2. Keeps(s.act[x], s.act[x])
  BY DEF Keeps
<1> QED
  BY <1>1, <1>2

-----------------------------------------------------------------------------
(* Operations on one Activity.                                             *)

\* The fields that may change.
LEMMA FieldKeeps ==
  ASSUME NEW r \in ActivityState, NEW v
  PROVE  /\ Keeps(r, [r EXCEPT !.initialized = v])
         /\ Keeps(r, [r EXCEPT !.scheduled = v])
         /\ Keeps(r, [r EXCEPT !.ready = v])
         /\ Keeps(r, [r EXCEPT !.running = v])
         /\ Keeps(r, [r EXCEPT !.ending = v])
         /\ Keeps(r, [r EXCEPT !.restart = v])
         /\ Keeps(r, [r EXCEPT !.requeue = v])
         /\ Keeps(r, [r EXCEPT !.yielding = v])
         /\ Keeps(r, [r EXCEPT !.intCommand = v])
         /\ Keeps(r, [r EXCEPT !.sentCommand = v])
BY DEF Keeps, ActivityState

LEMMA BroadcastCommandKeeps ==
  ASSUME NEW r \in ActivityState, NEW command
  PROVE  Keeps(r, BroadcastCommand(r, command))
BY DEF BroadcastCommand, Keeps, ActivityState

LEMMA DoRunActivityKeeps ==
  ASSUME NEW r \in ActivityState
  PROVE  Keeps(r, DoRunActivity(r))
<1> DEFINE q == BroadcastCommand(r, "start")
<1>1. q \in ActivityState /\ Keeps(r, q)
  BY BroadcastCommandType, BroadcastCommandKeeps DEF ActivityCommand
<1> HIDE DEF q
<1>2. \A v : Keeps(q, [q EXCEPT !.callback = v])
  BY <1>1 DEF Keeps, ActivityState
<1> QED
  BY <1>1, <1>2, KeepsTransitive DEF DoRunActivity, q

LEMMA RunActivityKeeps ==
  ASSUME NEW r \in ActivityState
  PROVE  Keeps(r, RunActivity(r))
<1> DEFINE q == [r EXCEPT !.running = TRUE]
<1>1. q \in ActivityState
  BY FlagType
<1>2. Keeps(r, q)
  BY DEF Keeps, ActivityState
<1> HIDE DEF q
<1>3. Keeps(q, [q EXCEPT !.power = "locking"])
  BY <1>1 DEF Keeps, ActivityState
<1> QED
  BY <1>1, <1>2, <1>3, DoRunActivityKeeps, KeepsTransitive DEF RunActivity, q

LEMMA DisarmKeeps ==
  ASSUME NEW r \in ActivityState
  PROVE  Keeps(r, Disarm(r))
<1>1. \A v, w : Keeps(r, [r EXCEPT !.trigger = v, !.schedule = w])
  BY DEF Keeps, ActivityState
<1>2. Keeps(r, r)
  BY DEF Keeps
<1> QED
  BY <1>1, <1>2 DEF Disarm

LEMMA DoAdoptKeeps ==
  ASSUME NEW r \in ActivityState
  PROVE  Keeps(r, DoAdopt(r))
BY DEF DoAdopt, Keeps, ActivityState

-----------------------------------------------------------------------------
(* Operations of the Manager.                                              *)

LEMMA MoveToHeld ==
  ASSUME NEW s \in ManagerState, NEW a \in Activities, NEW q \in QueueName
  PROVE  Held(s, Unlink(s, a)) /\ Held(s, MoveTo(s, a, q))
<1>1. Unlink(s, a).act = s.act
  BY DEF Unlink, ManagerState
<1>2. MoveTo(s, a, q).act = Unlink(s, a).act
  BY UnlinkType DEF MoveTo, ManagerState
<1> QED
  BY <1>1, <1>2, HeldSame

LEMMA RunFirstHeld ==
  ASSUME NEW s \in ManagerState, NEW n, NEW from, NEW to
  PROVE  Held(s, RunFirst(s, n, from, to))
<1> SUFFICES ASSUME NEW x \in Activities
             PROVE  Keeps(s.act[x], RunFirst(s, n, from, to).act[x])
  BY DEF Held
<1>1. RunFirst(s, n, from, to).act[x] \in {s.act[x], RunActivity(s.act[x])}
  BY DEF RunFirst, ManagerState
<1>2. Keeps(s.act[x], s.act[x]) /\ Keeps(s.act[x], RunActivity(s.act[x]))
  BY ActType, RunActivityKeeps DEF Keeps
<1> QED
  BY <1>1, <1>2

LEMMA CheckReadyQueueHeld ==
  ASSUME NEW s \in ManagerState
  PROVE  Held(s, CheckReadyQueue(s))
<1> DEFINE n == Room(InteractiveLevel, GetRunningBackgroundActivitiesCount(s),
                     Len(s.queue["readyInteractive"]))
           u == RunFirst(s, n, "readyInteractive", "backgroundInteractive")
           t == [u EXCEPT !.yieldTimer = n < Len(s.queue["readyInteractive"])]
           m == Room(s.level, GetRunningBackgroundActivitiesCount(t),
                     Len(t.queue["ready"]))
<1>1. n \in 0..Len(s.queue["readyInteractive"])
  BY QueueType, BusyType, RoomType, LevelsAssumption DEF QueueName
<1>2. u \in ManagerState /\ Held(s, u)
  BY <1>1, RunFirstType, RunFirstHeld DEF QueueName
<1>3. (n < Len(s.queue["readyInteractive"])) \in BOOLEAN
  OBVIOUS
<1> HIDE DEF n, u
<1>4. t \in ManagerState /\ t.act = u.act
  BY <1>2, <1>3 DEF ManagerState
<1> HIDE DEF t
<1>5. Held(s, t)
  BY <1>2, <1>4, HeldSame, HeldTransitive
<1>6. Held(t, RunFirst(t, m, "ready", "background"))
  BY <1>4, RunFirstHeld
<1>7. Held(s, RunFirst(t, m, "ready", "background"))
  BY <1>5, <1>6, HeldTransitive
<1> QED
  BY <1>7 DEF CheckReadyQueue, n, t, u

LEMMA InformActivityReadyHeld ==
  ASSUME NEW s \in ManagerState, NEW a \in Activities
  PROVE  Held(s, InformActivityReady(s, a))
<1> DEFINE line == IF a \in UserInitiated THEN "readyInteractive" ELSE "ready"
           i == MoveTo(s, a, "immediate")
           t == MoveTo(s, a, line)
<1>1. line \in QueueName /\ "immediate" \in QueueName
  BY DEF QueueName
<1> HIDE DEF line
<1>2. i \in ManagerState /\ Held(s, i) /\ t \in ManagerState /\ Held(s, t)
  BY <1>1, MoveToType, MoveToHeld
<1>3. i.act[a] = s.act[a]
  BY <1>1, UnlinkType DEF MoveTo, Unlink, ManagerState
<1> HIDE DEF i, t
<1>4. Held(i, SetAct(i, a, RunActivity(s.act[a])))
  BY <1>2, <1>3, ActType, RunActivityKeeps, SetActHeld
<1>5. Held(t, CheckReadyQueue(t))
  BY <1>2, CheckReadyQueueHeld
<1> QED
  BY <1>2, <1>4, <1>5, HeldTransitive DEF InformActivityReady, line, i, t

LEMMA InformActivityNotReadyHeld ==
  ASSUME NEW s \in ManagerState, NEW a \in Activities
  PROVE  Held(s, InformActivityNotReady(s, a))
BY MoveToHeld DEF InformActivityNotReady, QueueName

LEMMA InformActivityEndHeld ==
  ASSUME NEW s \in ManagerState, NEW a \in Activities
  PROVE  Held(s, InformActivityEnd(s, a))
<1>1. MoveTo(s, a, "ended") \in ManagerState /\ Held(s, MoveTo(s, a, "ended"))
  BY MoveToType, MoveToHeld DEF QueueName
<1> QED
  BY <1>1, CheckReadyQueueHeld, HeldTransitive DEF InformActivityEnd

LEMMA ReleaseActivityHeld ==
  ASSUME NEW s \in ManagerState, NEW a \in Activities
  PROVE  Held(s, ReleaseActivity(s, a))
<1> DEFINE r == [s.act[a] EXCEPT !.life = "released"]
           u == Unlink(s, a)
           t == SetAct(u, a, r)
<1>1. u \in ManagerState /\ Held(s, u) /\ u.act = s.act
  <2>1. u \in ManagerState
    BY UnlinkType
  <2>2. u.act = s.act
    BY DEF Unlink, ManagerState
  <2> HIDE DEF u
  <2> QED
    BY <2>1, <2>2, HeldSame
<1>2. s.act[a] \in ActivityState
  BY ActType
<1>3. r \in ActivityState /\ Keeps(s.act[a], r)
  <2>1. r \in ActivityState
    BY <1>2 DEF ActivityState
  <2>2. Keeps(s.act[a], r)
    BY <1>2 DEF Keeps, ActivityState
  <2> QED
    BY <2>1, <2>2
<1> HIDE DEF r, u
<1>4. t \in ManagerState /\ Held(u, t)
  BY <1>1, <1>3, SetActType, SetActHeld
<1> HIDE DEF t
<1> QED
  BY <1>1, <1>4, CheckReadyQueueHeld, HeldTransitive DEF ReleaseActivity, r, t, u

LEMMA RequestRunActivityHeld ==
  ASSUME NEW s \in ManagerState, NEW a \in Activities
  PROVE  Held(s, RequestRunActivity(s, a))
<1> DEFINE r == [s.act[a] EXCEPT !.ready = TRUE]
           t == SetAct(s, a, r)
<1>1. r \in ActivityState /\ Keeps(s.act[a], r)
  BY ActType, FlagType, FieldKeeps
<1> HIDE DEF r
<1>2. t \in ManagerState /\ Held(s, t)
  BY <1>1, SetActType, SetActHeld
<1> HIDE DEF t
<1> QED
  BY <1>2, InformActivityReadyHeld, HeldTransitive DEF RequestRunActivity, r, t

LEMMA ScheduleActivityHeld ==
  ASSUME NEW s \in ManagerState, NEW a \in Activities
  PROVE  Held(s, ScheduleActivity(s, a))
<1> DEFINE p == s.act[a]
           trigger  == IF p.trigger = "none" THEN "none" ELSE "armed"
           schedule == IF p.schedule = "none" THEN "none" ELSE "queued"
           r == [p EXCEPT !.trigger = trigger, !.schedule = schedule, !.scheduled = TRUE]
           t == SetAct(s, a, r)
<1>1. p \in ActivityState
  BY ActType
<1>2. /\ trigger \in {"none", "idle", "armed", "fired"}
      /\ schedule \in {"none", "idle", "queued", "due"}
  OBVIOUS
<1> HIDE DEF p, trigger, schedule
<1>3. r \in ActivityState
  BY <1>1, <1>2, TriggerType, ScheduleType, FlagType
<1>4. Keeps(p, r)
  BY <1>1 DEF Keeps, ActivityState
<1> HIDE DEF r
<1>5. t \in ManagerState /\ Held(s, t)
  BY <1>3, <1>4, SetActType, SetActHeld DEF p
<1> HIDE DEF t
<1> QED
  BY <1>5, RequestRunActivityHeld, HeldTransitive
     DEF ScheduleActivity, p, r, t, trigger, schedule

LEMMA RequestScheduleActivityHeld ==
  ASSUME NEW s \in ManagerState, NEW a \in Activities
  PROVE  Held(s, RequestScheduleActivity(s, a))
<1> DEFINE r == [s.act[a] EXCEPT !.initialized = TRUE]
           t == SetAct(s, a, r)
<1>1. r \in ActivityState /\ Keeps(s.act[a], r)
  BY ActType, FlagType, FieldKeeps
<1> HIDE DEF r
<1>2. t \in ManagerState /\ Held(s, t)
  BY <1>1, SetActType, SetActHeld
<1> HIDE DEF t
<1>3. /\ MoveTo(t, a, "scheduled") \in ManagerState
      /\ Held(t, MoveTo(t, a, "scheduled")) /\ Held(t, MoveTo(t, a, "initialized"))
  BY <1>2, MoveToType, MoveToHeld DEF QueueName
<1>4. Held(MoveTo(t, a, "scheduled"), ScheduleActivity(MoveTo(t, a, "scheduled"), a))
  BY <1>3, ScheduleActivityHeld
<1> QED
  BY <1>2, <1>3, <1>4, HeldTransitive DEF RequestScheduleActivity, r, t

LEMMA DevelHeld ==
  ASSUME NEW s \in ManagerState
  PROVE  /\ \A n \in Levels : Held(s, SetBackgroundConcurrencyLevel(s, n))
         /\ \A a \in Activities : Held(s, EvictBackgroundActivity(s, a))
         /\ Held(s, EvictAllBackgroundActivities(s))
         /\ \A a \in Activities : Held(s, RunReadyBackgroundActivity(s, a))
         /\ Held(s, RunAllReadyActivities(s))
<1>1. ASSUME NEW n \in Levels
      PROVE  Held(s, SetBackgroundConcurrencyLevel(s, n))
  <2>1. [s EXCEPT !.level = n] \in ManagerState /\ [s EXCEPT !.level = n].act = s.act
    BY DEF ManagerState
  <2> QED
    BY <2>1, HeldSame, CheckReadyQueueHeld, HeldTransitive DEF SetBackgroundConcurrencyLevel
<1>2. ASSUME NEW a \in Activities
      PROVE  Held(s, EvictBackgroundActivity(s, a))
  <2>1. /\ MoveTo(s, a, "longBackground") \in ManagerState
        /\ Held(s, MoveTo(s, a, "longBackground"))
    BY MoveToType, MoveToHeld DEF QueueName
  <2> QED
    BY <2>1, CheckReadyQueueHeld, HeldTransitive DEF EvictBackgroundActivity
<1>3. Held(s, EvictAllBackgroundActivities(s))
  <2> DEFINE long == s.queue["longBackground"] \o s.queue["background"]
             t == [s EXCEPT !.queue["longBackground"] = long, !.queue["background"] = << >>]
  <2>1. long \in Seq(Activities) /\ << >> \in Seq(Activities)
    BY QueueType, ConcatProperties, EmptySeq DEF QueueName
  <2> HIDE DEF long
  <2>2. t \in ManagerState /\ t.act = s.act
    BY <2>1 DEF ManagerState
  <2> QED
    BY <2>2, HeldSame, CheckReadyQueueHeld, HeldTransitive
       DEF EvictAllBackgroundActivities, long
<1>4. ASSUME NEW a \in Activities
      PROVE  Held(s, RunReadyBackgroundActivity(s, a))
  <2>1. ASSUME NEW q \in {"background", "backgroundInteractive"}
        PROVE  Held(s, SetAct(MoveTo(s, a, q), a, RunActivity(s.act[a])))
    <3>1. q \in QueueName
      BY DEF QueueName
    <3>2. MoveTo(s, a, q) \in ManagerState /\ Held(s, MoveTo(s, a, q))
      BY <3>1, MoveToType, MoveToHeld
    <3>3. MoveTo(s, a, q).act[a] = s.act[a]
      BY UnlinkType DEF MoveTo, Unlink, ManagerState
    <3>4. Keeps(s.act[a], RunActivity(s.act[a]))
      BY ActType, RunActivityKeeps
    <3> QED
      BY <3>2, <3>3, <3>4, SetActHeld, HeldTransitive
  <2> QED
    BY <2>1 DEF RunReadyBackgroundActivity
<1>5. Held(s, RunAllReadyActivities(s))
  <2> DEFINE t == RunFirst(s, Len(s.queue["readyInteractive"]),
                           "readyInteractive", "backgroundInteractive")
  <2>1. Len(s.queue["readyInteractive"]) \in 0..Len(s.queue["readyInteractive"])
    BY QueueType DEF QueueName
  <2>2. t \in ManagerState /\ Held(s, t)
    BY <2>1, RunFirstType, RunFirstHeld DEF QueueName
  <2> HIDE DEF t
  <2> QED
    BY <2>2, RunFirstHeld, HeldTransitive DEF RunAllReadyActivities, t
<1> QED
  BY <1>1, <1>2, <1>3, <1>4, <1>5

-----------------------------------------------------------------------------
(* The lifecycle.                                                          *)

LEMMA AdvanceHeld ==
  ASSUME NEW s \in ManagerState, NEW a \in Activities
  PROVE  Held(s, Advance(s, a))
<1>1. Keeps(s.act[a], BroadcastCommand(s.act[a], ComputeNextExternalCommand(s.act[a])))
  BY ActType, BroadcastCommandKeeps
<1>2. Held(s, SetAct(s, a, BroadcastCommand(s.act[a], ComputeNextExternalCommand(s.act[a]))))
  BY <1>1, SetActHeld
<1> QED
  BY <1>2, HeldSame, RequestRunActivityHeld DEF Advance

LEMMA RequeueActivityHeld ==
  ASSUME NEW s \in ManagerState, NEW a \in Activities
  PROVE  Held(s, RequeueActivity(s, a))
<1> DEFINE p == s.act[a]
           r == [p EXCEPT !.running = FALSE, !.ending = FALSE,
                          !.restart = FALSE, !.requeue = FALSE,
                          !.yielding = FALSE]
           q == [r EXCEPT !.ready = FALSE]
           t == SetAct(s, a, r)
           u == SetAct(t, a, q)
<1>1. p \in ActivityState
  BY ActType
<1> HIDE DEF p
<1>2. r \in ActivityState
  BY <1>1, FlagType
<1>3. Keeps(p, r)
  BY <1>1 DEF Keeps, ActivityState
<1> HIDE DEF r
<1>4. q \in ActivityState /\ Keeps(r, q)
  BY <1>2, FlagType, FieldKeeps
<1> HIDE DEF q
<1>5. t \in ManagerState /\ Held(s, t) /\ t.act[a] = r
  BY <1>2, <1>3, SetActType, SetActHeld DEF p, SetAct, ManagerState
<1> HIDE DEF t
<1>6. u \in ManagerState /\ Held(t, u)
  BY <1>4, <1>5, SetActType, SetActHeld
<1> HIDE DEF u
<1>7. Held(t, RequestRunActivity(t, a)) /\ Held(u, InformActivityNotReady(u, a))
  BY <1>5, <1>6, RequestRunActivityHeld, InformActivityNotReadyHeld
<1> QED
  BY <1>5, <1>6, <1>7, HeldTransitive DEF RequeueActivity, p, q, r, t, u

\* Only where nobody said that the Activity is to end for good.
LEMMA RestartActivityHeld ==
  ASSUME NEW s \in ManagerState, NEW a \in Activities, ~s.act[a].terminate
  PROVE  Held(s, RestartActivity(s, a))
<1> DEFINE o == s.act[a]
           p == [o EXCEPT !.initialized = FALSE, !.scheduled = FALSE,
                          !.ready = FALSE, !.running = FALSE,
                          !.ending = FALSE, !.restart = FALSE,
                          !.requeue = FALSE, !.yielding = FALSE]
           r == [p EXCEPT !.intCommand = "none", !.extCommand = "none",
                          !.sentCommand = "none"]
           u == SetAct(s, a, r)
           t == RequestScheduleActivity(u, a)
           q == [t.act[a] EXCEPT !.extCommand = "start"]
           v == SetAct(t, a, q)
<1>1. o \in ActivityState
  BY ActType
<1>2. ~o.terminate
  OBVIOUS
<1> HIDE DEF o
<1>3. p \in ActivityState
  BY <1>1, FlagType
<1>4. Keeps(o, p)
  BY <1>1 DEF Keeps, ActivityState
<1>5. ~p.terminate
  BY <1>2, <1>4 DEF Keeps
<1> HIDE DEF p
<1>6. r \in ActivityState
  BY <1>3, CommandType DEF ActivityCommand
<1>7. Keeps(p, r)
  BY <1>3, <1>5 DEF Keeps, ActivityState, FinalCommand
<1> HIDE DEF r
<1>8. u \in ManagerState /\ Held(s, u)
  BY <1>4, <1>6, <1>7, KeepsTransitive, SetActType, SetActHeld DEF o
<1> HIDE DEF u
<1>9. t \in ManagerState /\ Held(u, t)
  BY <1>8, RequestScheduleActivityType, RequestScheduleActivityHeld
<1> HIDE DEF t
<1>10. t.act[a] \in ActivityState /\ ~t.act[a].terminate
  BY <1>8, <1>9, ActType DEF Held, Keeps
<1>11. q \in ActivityState /\ Keeps(t.act[a], q)
  <2>1. "start" \in ActivityCommand
    BY DEF ActivityCommand
  <2>2. q \in ActivityState
    BY <1>10, <2>1, CommandType
  <2>3. Keeps(t.act[a], q)
    BY <1>10 DEF Keeps, ActivityState, FinalCommand
  <2> QED
    BY <2>2, <2>3
<1> HIDE DEF q
<1>12. v \in ManagerState /\ Held(t, v)
  BY <1>9, <1>11, SetActType, SetActHeld
<1> HIDE DEF v
<1>13. Held(v, Advance(v, a))
  BY <1>12, AdvanceHeld
<1>14. Held(s, Advance(v, a))
  BY <1>8, <1>9, <1>12, <1>13, HeldTransitive
<1> QED
  BY <1>14 DEF RestartActivity, o, p, q, r, t, u, v

LEMMA FinishHeld ==
  ASSUME NEW s \in ManagerState, NEW a \in Activities
  PROVE  Held(s, Finish(s, a))
<1> DEFINE t == InformActivityEnd(s, a)
<1>1. t \in ManagerState /\ Held(s, t)
  BY InformActivityEndType, InformActivityEndHeld
<1>2. s.act[a] \in ActivityState /\ t.act[a] \in ActivityState
  BY <1>1, ActType
<1> HIDE DEF t
<1>3. CASE ShouldRequeue(s.act[a])
  <2>1. Finish(s, a) = RequeueActivity(t, a)
    BY <1>3 DEF Finish, t
  <2> QED
    BY <1>1, <2>1, RequeueActivityHeld, HeldTransitive
<1>4. CASE ~ShouldRequeue(s.act[a]) /\ ShouldRestart(s.act[a], a)
  <2>1. Finish(s, a) = RestartActivity(t, a)
    BY <1>4 DEF Finish, t
  <2>2. ~s.act[a].terminate
    BY <1>4 DEF ShouldRestart
  <2>3. ~t.act[a].terminate
    BY <1>1, <2>2 DEF Held, Keeps
  <2> QED
    BY <1>1, <2>1, <2>3, RestartActivityHeld, HeldTransitive
<1>5. CASE ~ShouldRequeue(s.act[a]) /\ ~ShouldRestart(s.act[a], a)
  <2>1. Finish(s, a) = ReleaseActivity(t, a)
    BY <1>5 DEF Finish, t
  <2> QED
    BY <1>1, <2>1, ReleaseActivityHeld, HeldTransitive
<1> QED
  BY <1>3, <1>4, <1>5

LEMMA EndActivityHeld ==
  ASSUME NEW s \in ManagerState, NEW a \in Activities
  PROVE  Held(s, EndActivity(s, a))
<1> DEFINE p == s.act[a]
           q == [p EXCEPT !.ending = TRUE]
           r == Disarm(q)
           t == SetAct(s, a, r)
           u == SetAct(t, a, [r EXCEPT !.power = "unlocking"])
<1>1. p \in ActivityState
  BY ActType
<1> HIDE DEF p
<1>2. q \in ActivityState /\ Keeps(p, q)
  BY <1>1, FlagType, FieldKeeps
<1> HIDE DEF q
<1>3. r \in ActivityState /\ Keeps(q, r)
  BY <1>2, DisarmType, DisarmKeeps
<1> HIDE DEF r
<1>4. Keeps(p, r)
  BY <1>2, <1>3, KeepsTransitive
<1>5. t \in ManagerState /\ Held(s, t) /\ t.act[a] = r
  BY <1>3, <1>4, SetActType, SetActHeld DEF p, SetAct, ManagerState
<1> HIDE DEF t
<1>6. Keeps(r, [r EXCEPT !.power = "unlocking"])
  BY <1>3 DEF Keeps, ActivityState
<1>7. Held(s, u)
  BY <1>5, <1>6, SetActHeld, HeldTransitive
<1> HIDE DEF u
<1>8. Held(s, Finish(t, a))
  BY <1>5, FinishHeld, HeldTransitive
<1> QED
  BY <1>5, <1>7, <1>8 DEF EndActivity, p, q, r, t, u

LEMMA RunIfRunnableHeld ==
  ASSUME NEW s \in ManagerState, NEW a \in Activities
  PROVE  Held(s, RunIfRunnable(s, a))
BY RequestRunActivityHeld, HeldSame DEF RunIfRunnable

LEMMA WithdrawIfReadyHeld ==
  ASSUME NEW s \in ManagerState, NEW a \in Activities
  PROVE  Held(s, WithdrawIfReady(s, a))
<1> DEFINE r == [s.act[a] EXCEPT !.ready = FALSE]
           t == SetAct(s, a, r)
<1>1. r \in ActivityState /\ Keeps(s.act[a], r)
  BY ActType, FlagType, FieldKeeps
<1> HIDE DEF r
<1>2. t \in ManagerState /\ Held(s, t)
  BY <1>1, SetActType, SetActHeld
<1> HIDE DEF t
<1> QED
  BY <1>2, InformActivityNotReadyHeld, HeldTransitive, HeldSame DEF WithdrawIfReady, r, t

-----------------------------------------------------------------------------
(* Commands.                                                               *)

\* A command of the Manager's own.
LEMMA InternalCommandHeld ==
  ASSUME NEW s \in ManagerState, NEW a \in Activities, NEW command \in ActivityCommand
  PROVE  Held(s, SendCommand(s, a, command, TRUE))
<1> DEFINE r == [s.act[a] EXCEPT !.intCommand = command]
           next == ComputeNextExternalCommand(r)
           q == BroadcastCommand(r, next)
           t == SetAct(s, a, r)
           u == SetAct(s, a, q)
<1>1. r \in ActivityState /\ Keeps(s.act[a], r)
  BY ActType, CommandType, FieldKeeps
<1> HIDE DEF r
<1>2. next \in ActivityCommand
  BY <1>1, NextCommandType
<1> HIDE DEF next
<1>3. q \in ActivityState /\ Keeps(s.act[a], q)
  BY <1>1, <1>2, BroadcastCommandType, BroadcastCommandKeeps, KeepsTransitive
<1> HIDE DEF q
<1>4. t \in ManagerState /\ Held(s, t) /\ u \in ManagerState /\ Held(s, u)
  BY <1>1, <1>3, SetActType, SetActHeld
<1> HIDE DEF t, u
<1>5. Held(s, EndActivity(u, a)) /\ Held(s, Advance(t, a))
  BY <1>4, EndActivityHeld, AdvanceHeld, HeldTransitive
<1> QED
  BY <1>4, <1>5, HeldSame DEF SendCommand, r, next, q, t, u

\* From p to r, an Activity has accepted a command of a client, and may have
\* started over since.
Obeys(p, r, command) ==
  /\ r.persistCommands = p.persistCommands
  /\ r.terminate = p.terminate
  /\ r.named = p.named
  /\ r.life = "live" => p.life = "live"
  /\ ~(p.extCommand \in FinalCommand /\ p.terminate)
  /\ r.extCommand \in FinalCommand \/ r.terminate => r.extCommand = command

\* One Activity was sent a command.
Commanded(s, t, a, command) ==
  \A x \in Activities :
    Keeps(s.act[x], t.act[x]) \/ (x = a /\ Obeys(s.act[x], t.act[x], command))

LEMMA ObeysKeeps ==
  ASSUME NEW p, NEW q, NEW r, NEW command, Obeys(p, q, command), Keeps(q, r)
  PROVE  Obeys(p, r, command)
BY DEF Obeys, Keeps

\* What a client's command does to the Activity: nothing, or what it says. Only
\* start, which schedules before it looks, may find the Activity changed.
LEMMA ClientCommand ==
  ASSUME NEW s \in ManagerState, NEW a \in Activities, NEW command \in ActivityCommand
  PROVE  /\ Commanded(s, SendCommand(s, a, command, FALSE), a, command)
         /\ command # "start" /\ s.act[a].extCommand \notin FinalCommand
              => Obeys(s.act[a], SendCommand(s, a, command, FALSE).act[a], command)
<1> DEFINE t == IF command = "start" /\ ~s.act[a].initialized /\ ~s.act[a].ending
                THEN RequestScheduleActivity(s, a) ELSE s
           p == t.act[a]
           r == [p EXCEPT !.extCommand = command]
           next == ComputeNextExternalCommand(r)
           q == BroadcastCommand(r, next)
           v == SetAct(t, a, r)
           w == SetAct(t, a, q)
           result == SendCommand(s, a, command, FALSE)
<1>1. t \in ManagerState /\ Held(s, t)
  BY RequestScheduleActivityType, RequestScheduleActivityHeld, HeldSame
<1>2. command # "start" => t = s
  OBVIOUS
<1>3. result = IF AlreadyEnded(p, FALSE) THEN t
               ELSE IF r.ending \/ next = r.sentCommand THEN v
               ELSE IF next \in FinalCommand THEN EndActivity(w, a)
               ELSE Advance(v, a)
  BY DEF SendCommand
<1>4. AlreadyEnded(p, FALSE) <=> p.extCommand \in FinalCommand
  BY DEF AlreadyEnded
<1>5. p \in ActivityState /\ s.act[a] \in ActivityState
  BY <1>1, ActType
<1> HIDE DEF t, result
<1>6. CASE p.extCommand \in FinalCommand
  <2>1. result = t
    BY <1>3, <1>4, <1>6
  <2> QED
    BY <1>1, <1>2, <1>6, <2>1 DEF Commanded, Held, result
<1>7. CASE p.extCommand \notin FinalCommand
  <2>1. r \in ActivityState
    BY <1>5, CommandType
  <2>2. Keeps(s.act[a], p)
    BY <1>1 DEF Held
  <2>3. Obeys(p, r, command)
    BY <1>5, <1>7 DEF Obeys, ActivityState
  <2> HIDE DEF p, r
  <2>4. Obeys(s.act[a], r, command)
    BY <1>7, <2>2, <2>3 DEF Obeys, Keeps
  <2>5. next \in ActivityCommand
    BY <2>1, NextCommandType
  <2> HIDE DEF next
  <2>6. q \in ActivityState /\ Keeps(r, q)
    BY <2>1, <2>5, BroadcastCommandType, BroadcastCommandKeeps
  <2> HIDE DEF q
  <2>7. v \in ManagerState /\ w \in ManagerState
    BY <1>1, <2>1, <2>6, SetActType
  <2>8. \A x \in Activities : v.act[x] = IF x = a THEN r ELSE t.act[x]
    BY <1>1 DEF SetAct, ManagerState
  <2>9. \A x \in Activities : w.act[x] = IF x = a THEN q ELSE t.act[x]
    BY <1>1 DEF SetAct, ManagerState
  <2> HIDE DEF v, w
  <2>10. PICK u \in {v, w} : Held(u, result)
    <3>1. Held(v, v) /\ Held(w, EndActivity(w, a)) /\ Held(v, Advance(v, a))
      BY <2>7, HeldSame, EndActivityHeld, AdvanceHeld
    <3> QED
      BY <1>3, <1>4, <1>7, <3>1
  <2>11. u.act[a] \in {r, q} /\ \A x \in Activities : x # a => u.act[x] = t.act[x]
    BY <2>8, <2>9, <2>10
  <2>12. Obeys(s.act[a], u.act[a], command)
    BY <2>4, <2>6, <2>11, ObeysKeeps
  <2>13. Obeys(s.act[a], result.act[a], command)
    BY <2>10, <2>12, ObeysKeeps DEF Held
  <2>14. ASSUME NEW x \in Activities, x # a
         PROVE  Keeps(s.act[x], result.act[x])
    <3>1. Keeps(s.act[x], t.act[x]) /\ u.act[x] = t.act[x] /\ Keeps(u.act[x], result.act[x])
      BY <1>1, <2>10, <2>11, <2>14 DEF Held
    <3> QED
      BY <3>1, KeepsTransitive
  <2> QED
    BY <2>13, <2>14 DEF Commanded, result
<1> QED
  BY <1>6, <1>7

-----------------------------------------------------------------------------
(* Subscribers.                                                            *)

LEMMA FamilyKeeps ==
  ASSUME NEW r \in ActivityState, NEW subscriptions, NEW told, NEW releasedParent,
         NEW parent, NEW adopters, NEW released
  PROVE  /\ Keeps(r, [r EXCEPT !.subscriptions = subscriptions])
         /\ Keeps(r, [r EXCEPT !.told = told])
         /\ Keeps(r, [r EXCEPT !.adopters = adopters])
         /\ Keeps(r, [r EXCEPT !.parent = parent, !.released = released])
         /\ Keeps(r, [r EXCEPT !.releasedParent = releasedParent, !.parent = parent,
                               !.released = released])
         /\ Keeps(r, [r EXCEPT !.subscriptions = subscriptions, !.told = told,
                               !.releasedParent = releasedParent, !.parent = parent,
                               !.adopters = adopters])
BY DEF Keeps, ActivityState

LEMMA RemoveSubscriptionHeld ==
  ASSUME NEW s \in ManagerState, NEW a \in Activities, NEW b \in Subscribers
  PROVE  Held(s, RemoveSubscription(s, a, b))
<1> DEFINE r == s.act[a]
           waiting == Without(r.adopters, b)
           lost == r.parent = b
           subscriptions == r.subscriptions \ {b}
           told == r.told \ {b}
           releasedParent == IF r.releasedParent = b THEN None ELSE r.releasedParent
           parent == IF ~lost THEN r.parent
                     ELSE IF waiting = << >> THEN None ELSE Head(waiting)
           adopters == IF lost /\ waiting # << >> THEN Tail(waiting) ELSE waiting
           q == [r EXCEPT !.subscriptions = subscriptions, !.told = told,
                          !.releasedParent = releasedParent, !.parent = parent,
                          !.adopters = adopters]
           t == SetAct(s, a, q)
<1>1. r \in ActivityState
  BY ActType
<1>2. /\ r.subscriptions \subseteq Subscribers /\ r.told \subseteq Subscribers
      /\ r.parent \in Subscribers \cup {None}
      /\ r.releasedParent \in Subscribers \cup {None}
      /\ r.adopters \in Seq(Subscribers)
  BY <1>1 DEF ActivityState
<1> HIDE DEF r
<1>3. waiting \in Seq(Subscribers)
  BY <1>2, WithoutType
<1> HIDE DEF waiting
<1>4. waiting # << >> => Head(waiting) \in Subscribers /\ Tail(waiting) \in Seq(Subscribers)
  BY <1>3, HeadTailProperties
<1>5. /\ subscriptions \in SUBSET Subscribers /\ told \in SUBSET Subscribers
      /\ releasedParent \in Subscribers \cup {None}
  BY <1>2
<1>6. parent \in Subscribers \cup {None} /\ adopters \in Seq(Subscribers)
  BY <1>2, <1>3, <1>4
<1> HIDE DEF subscriptions, told, releasedParent, parent, adopters
<1>7. q \in ActivityState /\ Keeps(r, q)
  <2>1. q \in ActivityState
    BY <1>1, <1>5, <1>6, FamilyType
  <2>2. Keeps(r, q)
    BY <1>1 DEF Keeps, ActivityState
  <2> QED
    BY <2>1, <2>2
<1> HIDE DEF q
<1>8. t \in ManagerState /\ Held(s, t)
  BY <1>7, SetActType, SetActHeld DEF r
<1> HIDE DEF t
<1>9. Held(t, EndActivity(t, a)) /\ Held(t, Orphaned(t, a))
  BY <1>8, EndActivityHeld, InternalCommandHeld, HeldSame
     DEF Orphaned, ActivityCommand, FinalCommand
<1> QED
  BY <1>8, <1>9, HeldTransitive
     DEF RemoveSubscription, r, waiting, q, t, subscriptions, told,
         releasedParent, parent, adopters

LEMMA AdoptHeld ==
  ASSUME NEW s \in ManagerState, NEW a \in Activities, NEW b \in Subscribers
  PROVE  Held(s, Adopt(s, a, b))
<1> DEFINE p == s.act[a]
           adopters == Append(p.adopters, b)
           r == [p EXCEPT !.adopters = adopters]
<1>1. p \in ActivityState
  BY ActType
<1> HIDE DEF p
<1>2. adopters \in Seq(Subscribers)
  BY <1>1, AppendProperties DEF ActivityState
<1> HIDE DEF adopters
<1>3. r \in ActivityState /\ Keeps(p, r)
  BY ZenonT(40), <1>1, <1>2, FamilyKeeps DEF ActivityState
<1> HIDE DEF r
<1>4. Keeps(p, DoAdopt(r))
  BY <1>3, DoAdoptKeeps, KeepsTransitive
<1>5. Held(s, SetAct(s, a, r)) /\ Held(s, SetAct(s, a, DoAdopt(r)))
  BY <1>3, <1>4, SetActHeld DEF p
<1> QED
  BY <1>5 DEF Adopt, p, r, adopters

LEMMA ReleaseHeld ==
  ASSUME NEW s \in ManagerState, NEW a \in Activities
  PROVE  Held(s, Release(s, a))
<1> DEFINE p == s.act[a]
           r == [p EXCEPT !.releasedParent = p.parent, !.parent = None, !.released = TRUE]
<1>1. p \in ActivityState
  BY ActType
<1> HIDE DEF p
<1>2. p.parent \in Subscribers \cup {None}
  BY <1>1 DEF ActivityState
<1>3. r \in ActivityState
  BY <1>1, <1>2 DEF ActivityState
<1>4. Keeps(p, r)
  BY <1>1, FamilyKeeps
<1> HIDE DEF r
<1>5. Keeps(p, DoAdopt(r))
  BY <1>3, <1>4, DoAdoptKeeps, KeepsTransitive
<1>6. Held(s, SetAct(s, a, r)) /\ Held(s, SetAct(s, a, DoAdopt(r)))
  BY <1>4, <1>5, SetActHeld DEF p
<1> QED
  BY <1>6 DEF Release, p, r

LEMMA YieldActivityHeld ==
  ASSUME NEW s \in ManagerState, NEW a \in Activities
  PROVE  Held(s, YieldActivity(s, a))
<1> DEFINE p == s.act[a]
           q == [p EXCEPT !.yielding = TRUE, !.requeue = TRUE]
           r == [q EXCEPT !.told = p.subscriptions]
           t == SetAct(s, a, r)
<1>1. p \in ActivityState
  BY ActType
<1> HIDE DEF p
<1>2. q \in ActivityState
  BY <1>1, FlagType
<1>3. Keeps(p, q)
  BY <1>1 DEF Keeps, ActivityState
<1> HIDE DEF q
<1>4. p.subscriptions \in SUBSET Subscribers
  BY <1>1 DEF ActivityState
<1>5. r \in ActivityState
  BY <1>2, <1>4, ToldType
<1>6. Keeps(p, r)
  BY <1>2, <1>3, FamilyKeeps, KeepsTransitive
<1> HIDE DEF r
<1>7. t \in ManagerState /\ Held(s, t)
  BY <1>5, <1>6, SetActType, SetActHeld DEF p
<1> HIDE DEF t
<1> QED
  BY <1>7, EndActivityHeld, HeldTransitive DEF YieldActivity, p, q, r, t

-----------------------------------------------------------------------------
(* The end of a create.                                                    *)

LEMMA FinishCreateActivityCommanded ==
  ASSUME NEW s \in ManagerState, NEW a \in Activities,
         NEW b \in Subscribers \cup {None}, NEW start \in BOOLEAN
  PROVE  Commanded(s, FinishCreateActivity(s, a, b, start), a, "start")
<1> DEFINE p == s.act[a]
           r == IF b = None THEN p ELSE AddSubscription(p, b)
           q == IF b = None THEN r ELSE SetParent(r, b)
           u == SetAct(s, a, r)
           t == SetAct(s, a, q)
<1>1. p \in ActivityState /\ Keeps(p, p)
  BY ActType DEF Keeps
<1> HIDE DEF p
<1>2. r \in ActivityState
  BY <1>1, AddSubscriptionType
<1>3. Keeps(p, r)
  BY <1>1, FamilyKeeps DEF AddSubscription
<1> HIDE DEF r
<1>4. q \in ActivityState
  <2>1. CASE b = None
    BY <1>2, <2>1
  <2>2. CASE b # None
    <3>1. b \in Subscribers /\ q = SetParent(r, b)
      BY <2>2
    <3> HIDE DEF q
    <3> QED
      BY <1>2, <3>1, SetParentType
  <2> QED
    BY <2>1, <2>2
<1>5. Keeps(p, q)
  BY <1>2, <1>3, FamilyKeeps, KeepsTransitive DEF SetParent
<1> HIDE DEF q
<1>6. u \in ManagerState /\ Held(s, u) /\ t \in ManagerState /\ Held(s, t)
  BY <1>2, <1>3, <1>4, <1>5, SetActType, SetActHeld DEF p
<1> HIDE DEF u, t
<1>7. Commanded(t, SendCommand(t, a, "start", FALSE), a, "start")
  BY <1>6, ClientCommand DEF ActivityCommand
<1>8. Commanded(s, SendCommand(t, a, "start", FALSE), a, "start")
  <2> SUFFICES ASSUME NEW x \in Activities
               PROVE  LET y == SendCommand(t, a, "start", FALSE).act[x]
                      IN \/ Keeps(s.act[x], y)
                         \/ x = a /\ Obeys(s.act[x], y, "start")
    BY DEF Commanded
  <2> DEFINE y == SendCommand(t, a, "start", FALSE).act[x]
  <2>1. Keeps(s.act[x], t.act[x])
    BY <1>6 DEF Held
  <2>2. Keeps(t.act[x], y) \/ (x = a /\ Obeys(t.act[x], y, "start"))
    BY <1>7 DEF Commanded
  <2> HIDE DEF y
  <2>3. Keeps(t.act[x], y) => Keeps(s.act[x], y)
    BY <2>1, KeepsTransitive
  <2>4. Obeys(t.act[x], y, "start") => Obeys(s.act[x], y, "start")
    BY <2>1 DEF Obeys, Keeps
  <2> QED
    BY <2>2, <2>3, <2>4 DEF y
<1>9. Commanded(s, u, a, "start") /\ Commanded(s, t, a, "start")
  BY <1>6 DEF Commanded, Held
<1> QED
  BY <1>8, <1>9 DEF FinishCreateActivity, p, q, r, t, u

-----------------------------------------------------------------------------
(* The end of a handler.                                                   *)

LEMMA NowType ==
  ASSUME TypeOK
  PROVE  Now \in ManagerState /\ \A a \in Activities : Now.act[a] = act[a] /\ act[a] \in ActivityState
BY ActType DEF TypeOK, Now

LEMMA BecomeStep ==
  ASSUME NEW s \in ManagerState, Become(s)
  PROVE  TypeOK' /\ act' = s.act
BY DEF Become, TypeOK, Now, ManagerState

LEMMA HandleStep ==
  ASSUME NEW s \in ManagerState, NEW a \in Activities, Handle(s, a)
  PROVE  TypeOK' /\ act' = s.act
<1>1. Unlink(s, a) \in ManagerState
  BY UnlinkType
<1>2. Unlink(s, a).act = s.act
  BY DEF Unlink, ManagerState
<1>3. CASE Exists(s.act[a])
  BY <1>3, BecomeStep DEF Handle, Reap
<1>4. CASE ~Exists(s.act[a])
  BY <1>1, <1>2, <1>4, BecomeStep DEF Handle, Reap
<1> QED
  BY <1>3, <1>4

\* The position the yield timeout chooses is one.
LEMMA FirstCandidate ==
  ASSUME TypeOK, Candidates # {}
  PROVE  LET first == CHOOSE i \in Candidates : \A j \in Candidates : i <= j
         IN /\ first \in 1..Len(queue["backgroundInteractive"])
            /\ queue["backgroundInteractive"][first] \in Activities
<1> DEFINE first == CHOOSE i \in Candidates : \A j \in Candidates : i <= j
<1>1. queue["backgroundInteractive"] \in Seq(Activities)
  BY DEF TypeOK, Now, ManagerState, QueueName
<1>2. Candidates \subseteq 1..Len(queue["backgroundInteractive"])
  BY DEF Candidates
<1>3. Candidates \subseteq Nat
  BY <1>1, <1>2, LenProperties
<1>4. PICK m \in Candidates : \A j \in Candidates : ~(<<j, m>> \in OpToRel(<, Nat))
  BY <1>3, WFMin, NatLessThanWellFounded
<1>5. \A j \in Candidates : m <= j
  <2> SUFFICES ASSUME NEW j \in Candidates PROVE ~(j < m)
    BY <1>3
  <2>1. j \in Nat /\ m \in Nat
    BY <1>3
  <2> QED
    BY <1>4, <2>1 DEF OpToRel
<1>6. first \in Candidates
  BY <1>5
<1> QED
  BY <1>1, <1>2, <1>6, ElementOfSeq

-----------------------------------------------------------------------------
(* Completing a persist command.                                           *)

\* The command that has been stored is finished, and those behind it stay.
LEMMA FinishCallStep ==
  ASSUME NEW s \in ManagerState, NEW a \in Activities, NEW command \in PersistCommand
  PROVE  /\ FinishCall(s, a, command) \in ManagerState
         /\ command.finish = "create"
              => Commanded(s, FinishCall(s, a, command), a, "start")
         /\ command.finish = "end"
              => FinishCall(s, a, command)
                   = SetAct(s, a, [s.act[a] EXCEPT !.named = FALSE])
         /\ command.finish = "restart" => FinishCall(s, a, command) = s
         /\ FinishCall(s, a, command).act[a].persistCommands = s.act[a].persistCommands
<1> DEFINE t == FinishCall(s, a, command)
<1>1. /\ command.finish \in {"create", "end", "restart"}
      /\ command.sub \in Subscribers \cup {None}
      /\ command.start \in BOOLEAN
  BY DEF PersistCommand
<1>2. t \in ManagerState
  BY FinishCallType
<1>3. CASE command.finish = "create"
  <2>1. t = FinishCreateActivity(s, a, command.sub, command.start)
    BY <1>3 DEF FinishCall
  <2> HIDE DEF t
  <2>2. Commanded(s, t, a, "start")
    BY <1>1, <2>1, FinishCreateActivityCommanded
  <2>3. t.act[a].persistCommands = s.act[a].persistCommands
    BY <2>2 DEF Commanded, Keeps, Obeys
  <2> QED
    BY <1>2, <1>3, <2>2, <2>3 DEF t
<1>4. CASE command.finish = "end"
  <2> DEFINE r == [s.act[a] EXCEPT !.named = FALSE]
  <2>1. t = SetAct(s, a, r)
    BY <1>4 DEF FinishCall, FinishEnd
  <2>2. r.persistCommands = s.act[a].persistCommands
    BY ActType DEF ActivityState
  <2>3. SetAct(s, a, r).act[a] = r
    BY DEF SetAct, ManagerState
  <2> HIDE DEF r, t
  <2> QED
    BY <1>2, <1>4, <2>1, <2>2, <2>3 DEF r, t
<1>5. CASE command.finish = "restart"
  <2>1. t = s
    BY <1>5 DEF FinishCall
  <2> QED
    BY <1>2, <1>5, <2>1
<1> QED
  BY <1>1, <1>3, <1>4, <1>5

LEMMA CompletePersistCommandType ==
  ASSUME NEW s \in ManagerState, NEW a \in Activities,
         s.act[a].persistCommands # << >>
  PROVE  CompletePersistCommand(s, a) \in ManagerState
<1> DEFINE command == Head(s.act[a].persistCommands)
           t == FinishCall(s, a, command)
           p == t.act[a]
           rest == Tail(p.persistCommands)
           r == [p EXCEPT !.persistCommands = rest]
           u == SetAct(t, a, r)
<1>1. s.act[a].persistCommands \in Seq(PersistCommand)
  BY ActType DEF ActivityState
<1>2. command \in PersistCommand /\ Tail(s.act[a].persistCommands) \in Seq(PersistCommand)
  BY <1>1, HeadTailProperties
<1> HIDE DEF command
<1>3. t \in ManagerState /\ p.persistCommands = s.act[a].persistCommands
  BY <1>2, FinishCallStep
<1> HIDE DEF t
<1>4. rest \in Seq(PersistCommand)
  BY <1>2, <1>3
<1>5. p \in ActivityState
  BY <1>3, ActType
<1> HIDE DEF p, rest
<1>6. r \in ActivityState
  BY <1>4, <1>5, PersistCommandsType
<1> HIDE DEF r
<1>7. u \in ManagerState
  BY <1>3, <1>6, SetActType
<1>8. EndActivity(u, a) \in ManagerState
  BY <1>7, EndActivityType
<1> HIDE DEF u
<1> QED
  BY <1>7, <1>8 DEF CompletePersistCommand, command, t, p, rest, r, u

-----------------------------------------------------------------------------
(* The calls that end an Activity, and what a restarting complete updates. *)

LEMMA EndCallType ==
  ASSUME NEW s \in ManagerState, NEW a \in Activities, NEW command \in FinalCommand
  PROVE  EndCall(s, a, command) \in ManagerState
<1> DEFINE t == SetAct(s, a, [s.act[a] EXCEPT !.terminate = TRUE])
           u == SendCommand(t, a, command, FALSE)
           end == [finish |-> "end", sub |-> None, start |-> FALSE]
<1>1. t \in ManagerState
  BY ActType, FlagType, SetActType
<1> HIDE DEF t
<1>2. command \in ActivityCommand /\ FALSE \in BOOLEAN
  BY DEF ActivityCommand
<1>3. u \in ManagerState
  BY <1>1, <1>2, SendCommandType
<1> HIDE DEF u
<1>4. end \in PersistCommand
  BY DEF PersistCommand
<1> HIDE DEF end
<1>5. EnsureCompletion(u, a, end) \in ManagerState
  BY <1>3, <1>4, EnsureCompletionType
<1> QED
  BY <1>1, <1>5 DEF EndCall, t, u, end

LEMMA RequirementType ==
  ASSUME NEW r \in ActivityState, NEW v \in {"none", "met", "unmet"}
  PROVE  [r EXCEPT !.requirement = v] \in ActivityState
BY DEF ActivityState

LEMMA UpdateActivityType ==
  ASSUME NEW s \in ManagerState, NEW a \in Activities, NEW update \in UpdateName
  PROVE  /\ UpdateActivity(s, a, update) \in ManagerState
         /\ Held(s, UpdateActivity(s, a, update))
<1> DEFINE r == s.act[a]
           t == UpdateActivity(s, a, update)
<1>1. r \in ActivityState
  BY ActType
<1>2. ASSUME NEW q \in ActivityState, Keeps(r, q)
      PROVE  /\ SetAct(s, a, q) \in ManagerState /\ Held(s, SetAct(s, a, q))
             /\ WithdrawIfReady(SetAct(s, a, q), a) \in ManagerState
             /\ Held(s, WithdrawIfReady(SetAct(s, a, q), a))
             /\ RunIfRunnable(SetAct(s, a, q), a) \in ManagerState
             /\ Held(s, RunIfRunnable(SetAct(s, a, q), a))
  <2>1. SetAct(s, a, q) \in ManagerState /\ Held(s, SetAct(s, a, q))
    BY <1>2, SetActType, SetActHeld
  <2> QED
    BY <2>1, WithdrawIfReadyType, WithdrawIfReadyHeld, RunIfRunnableType,
       RunIfRunnableHeld, HeldTransitive
<1> HIDE DEF r
<1>3. \A v : /\ Keeps(r, [r EXCEPT !.trigger = v]) /\ Keeps(r, [r EXCEPT !.schedule = v])
             /\ Keeps(r, [r EXCEPT !.callback = v]) /\ Keeps(r, [r EXCEPT !.requirement = v])
  BY <1>1 DEF Keeps, ActivityState
<1>4. CASE update = "nothing"
  BY <1>4, HeldSame DEF UpdateActivity
<1>5. CASE update = "trigger"
  <2>1. [r EXCEPT !.trigger = "idle"] \in ActivityState
    BY <1>1, TriggerType
  <2> QED
    BY <1>2, <1>3, <1>5, <2>1 DEF UpdateActivity, r
<1>6. CASE update = "noTrigger"
  <2>1. [r EXCEPT !.trigger = "none"] \in ActivityState
    BY <1>1, TriggerType
  <2> QED
    BY <1>2, <1>3, <1>6, <2>1 DEF UpdateActivity, r
<1>7. CASE update = "schedule"
  <2>1. [r EXCEPT !.schedule = "idle"] \in ActivityState
    BY <1>1, ScheduleType
  <2> QED
    BY <1>2, <1>3, <1>7, <2>1 DEF UpdateActivity, r
<1>8. CASE update = "noSchedule"
  <2>1. [r EXCEPT !.schedule = "none"] \in ActivityState
    BY <1>1, ScheduleType
  <2> QED
    BY <1>2, <1>3, <1>8, <2>1 DEF UpdateActivity, r
<1>9. CASE update = "callback"
  <2>1. [r EXCEPT !.callback = "idle"] \in ActivityState
    BY <1>1, CallbackType
  <2> QED
    BY <1>2, <1>3, <1>9, <2>1 DEF UpdateActivity, r
<1>10. CASE update = "requirement"
  <2>1. [r EXCEPT !.requirement = "unmet"] \in ActivityState
    BY <1>1, RequirementType
  <2> QED
    BY <1>2, <1>3, <1>10, <2>1 DEF UpdateActivity, r
<1>11. CASE update = "noRequirement"
  <2>1. [r EXCEPT !.requirement = "none"] \in ActivityState
    BY <1>1, RequirementType
  <2> QED
    BY <1>2, <1>3, <1>11, <2>1 DEF UpdateActivity, r
<1> QED
  BY <1>4, <1>5, <1>6, <1>7, <1>8, <1>9, <1>10, <1>11 DEF UpdateName

\* A handler that changes the Activity itself, and goes on from there.
LEMMA SetActStep ==
  ASSUME TypeOK, NEW a \in Activities, NEW r \in ActivityState,
         NEW s, s = SetAct(Now, a, r)
  PROVE  /\ s \in ManagerState /\ s.act[a] = r
         /\ \A x \in Activities : x # a => s.act[x] = act[x]
<1>1. s \in ManagerState
  BY NowType, SetActType
<1> QED
  BY <1>1, NowType DEF SetAct, ManagerState

-----------------------------------------------------------------------------
(* Type correctness, action by action.                                     *)

LEMMA ClientType ==
  ASSUME TypeOK, Client
  PROVE  TypeOK'
<1>1. Now \in ManagerState
  BY NowType
<1>2. /\ {"start", "pause", "complete"} \cup FinalCommand \subseteq ActivityCommand
      /\ "stop" \in FinalCommand /\ "cancel" \in FinalCommand /\ "complete" \in FinalCommand
      /\ TRUE \in BOOLEAN /\ FALSE \in BOOLEAN
  BY DEF ActivityCommand, FinalCommand
<1>3. PICK a \in Activities :
        \/ \E b \in Subscribers \cup {None}, start \in BOOLEAN,
              requirement \in {"none", "met", "unmet"} :
             CreateActivity(a, b, start, requirement)
        \/ \E b \in Subscribers : JoinActivity(a, b)
        \/ \E b \in Subscribers : AdoptActivity(a, b)
        \/ ReleaseCall(a)
        \/ StartActivity(a)
        \/ PauseActivity(a)
        \/ StopActivity(a)
        \/ CancelActivity(a)
        \/ CompleteActivity(a)
        \/ \E update \in Updates : CompleteAndRestart(a, update)
        \/ RefusedComplete(a)
        \/ \E update \in Updates : RefusedCompleteAndRestart(a, update)
        \/ \E b \in Subscribers : LeaveWhenTold(a, b)
        \/ \E b \in Subscribers : LeaveUntold(a, b)
  BY DEF Client, ClientCall
<1>4. act[a] \in ActivityState
  BY NowType
<1>5. ASSUME NEW b \in Subscribers \cup {None}, NEW start \in BOOLEAN,
             NEW requirement \in {"none", "met", "unmet"},
             CreateActivity(a, b, start, requirement)
      PROVE  TypeOK'
  <2> DEFINE p == [act[a] EXCEPT !.life = "live", !.named = TRUE]
             r == [p EXCEPT !.requirement = requirement]
             create == [finish |-> "create", sub |-> b, start |-> start]
             s == SetAct(Now, a, r)
  <2>1. p \in ActivityState
    BY <1>4 DEF ActivityState
  <2>2. r \in ActivityState
    BY <2>1, RequirementType
  <2>3. s \in ManagerState
    BY <2>2, SetActStep
  <2>4. create \in PersistCommand
    BY DEF PersistCommand
  <2>5. Handle(EnsureCompletion(s, a, create), a)
    BY <1>5 DEF CreateActivity
  <2> HIDE DEF s, create
  <2> QED
    BY <2>3, <2>4, <2>5, EnsureCompletionType, HandleStep
<1>6. ASSUME NEW b \in Subscribers, JoinActivity(a, b)
      PROVE  TypeOK'
  BY <1>4, <1>6, AddSubscriptionType, SetActStep, HandleStep DEF JoinActivity
<1>7. ASSUME NEW b \in Subscribers, AdoptActivity(a, b)
      PROVE  TypeOK'
  BY <1>4, <1>7, AddSubscriptionType, SetActStep, AdoptType, HandleStep DEF AdoptActivity
<1>8. CASE ReleaseCall(a)
  BY <1>1, <1>8, ReleaseType, HandleStep DEF ReleaseCall
<1>9. CASE StartActivity(a)
  BY <1>1, <1>2, <1>9, SendCommandType, HandleStep DEF StartActivity
<1>10. CASE PauseActivity(a)
  BY <1>1, <1>2, <1>10, SendCommandType, HandleStep DEF PauseActivity
<1>11. CASE StopActivity(a)
  BY <1>1, <1>2, <1>11, EndCallType, HandleStep DEF StopActivity
<1>12. CASE CancelActivity(a)
  BY <1>1, <1>2, <1>12, EndCallType, HandleStep DEF CancelActivity
<1>13. CASE CompleteActivity(a)
  BY <1>1, <1>2, <1>13, EndCallType, HandleStep DEF CompleteActivity
<1>14. ASSUME NEW update \in Updates, CompleteAndRestart(a, update)
       PROVE  TypeOK'
  <2> DEFINE s == UpdateActivity(Now, a, update)
             t == SetAct(s, a, [s.act[a] EXCEPT !.restart = TRUE])
             u == SendCommand(t, a, "complete", FALSE)
             restart == [finish |-> "restart", sub |-> None, start |-> FALSE]
             v == EnsureCompletion(u, a, restart)
  <2>1. s \in ManagerState
    BY <1>1, UpdateActivityType, EnvironmentAssumption
  <2>2. Handle(IF AlreadyEnded(t.act[a], FALSE) THEN t ELSE v, a)
    BY <1>14 DEF CompleteAndRestart
  <2> HIDE DEF s
  <2>3. t \in ManagerState
    BY <2>1, ActType, FlagType, SetActType
  <2> HIDE DEF t
  <2>4. u \in ManagerState
    BY <1>2, <2>3, SendCommandType
  <2>5. restart \in PersistCommand
    BY DEF PersistCommand
  <2> HIDE DEF u, restart
  <2>6. v \in ManagerState
    BY <2>4, <2>5, EnsureCompletionType
  <2> HIDE DEF v
  <2> QED
    BY <2>2, <2>3, <2>6, HandleStep
<1>15. CASE RefusedComplete(a)
  BY <1>4, <1>15, FlagType, SetActStep, HandleStep DEF RefusedComplete
<1>16. ASSUME NEW update \in Updates, RefusedCompleteAndRestart(a, update)
       PROVE  TypeOK'
  <2> DEFINE s == UpdateActivity(Now, a, update)
             r == [s.act[a] EXCEPT !.restart = TRUE, !.terminate = FALSE]
  <2>1. s \in ManagerState
    BY <1>1, UpdateActivityType, EnvironmentAssumption
  <2>2. Handle(SetAct(s, a, r), a)
    BY <1>16 DEF RefusedCompleteAndRestart
  <2> HIDE DEF s
  <2>3. r \in ActivityState
    BY <2>1, ActType, FlagType
  <2> HIDE DEF r
  <2> QED
    BY <2>1, <2>2, <2>3, SetActType, HandleStep
<1>17. ASSUME NEW b \in Subscribers, LeaveWhenTold(a, b) \/ LeaveUntold(a, b)
       PROVE  TypeOK'
  <2>1. Handle(RemoveSubscription(Now, a, b), a)
    BY <1>17 DEF LeaveWhenTold, LeaveUntold, Leave
  <2> QED
    BY <1>1, <2>1, RemoveSubscriptionType, HandleStep
<1> QED
  BY <1>3, <1>5, <1>6, <1>7, <1>8, <1>9, <1>10, <1>11, <1>12, <1>13, <1>14,
     <1>15, <1>16, <1>17

LEMMA ReplyType ==
  ASSUME TypeOK, Reply
  PROVE  TypeOK'
<1>1. Now \in ManagerState
  BY NowType
<1>2. PICK a \in Activities :
        \/ CallbackSucceeds(a)
        \/ CallbackFailsTransiently(a)
        \/ CallbackFailsPermanently(a)
        \/ TriggerFires(a)
        \/ ScheduleComesDue(a)
        \/ RequirementMet(a)
        \/ RequirementUnmet(a)
        \/ PowerLockedNotification(a)
        \/ PowerUnlockedNotification(a)
        \/ PersistCommandCompletes(a)
  BY DEF Reply, ReplyTo
<1>3. act[a] \in ActivityState
  BY NowType
<1> DEFINE quiet == [act[a] EXCEPT !.callback = "idle"]
<1>4. quiet \in ActivityState
  BY <1>3, CallbackType
<1>5. CASE CallbackSucceeds(a)
  BY <1>4, <1>5, SetActStep, HandleStep DEF CallbackSucceeds
<1>6. CASE CallbackFailsTransiently(a)
  <2> DEFINE r == [act[a] EXCEPT !.callback = "idle", !.requeue = TRUE]
  <2>1. r \in ActivityState
    BY <1>4, FlagType
  <2>2. Handle(EndActivity(SetAct(Now, a, r), a), a)
    BY <1>6 DEF CallbackFailsTransiently
  <2> HIDE DEF r
  <2> QED
    BY <2>1, <2>2, SetActStep, EndActivityType, HandleStep
<1>7. CASE CallbackFailsPermanently(a)
  <2> DEFINE r == [act[a] EXCEPT !.callback = "idle", !.terminate = TRUE]
  <2>1. r \in ActivityState
    BY <1>4, FlagType
  <2>2. Handle(SendCommand(SetAct(Now, a, r), a, "cancel", TRUE), a)
    BY <1>7 DEF CallbackFailsPermanently
  <2> HIDE DEF r
  <2>3. "cancel" \in ActivityCommand /\ TRUE \in BOOLEAN
    BY DEF ActivityCommand, FinalCommand
  <2> QED
    BY <2>1, <2>2, <2>3, SetActStep, SendCommandType, HandleStep
<1>8. CASE TriggerFires(a)
  BY <1>3, <1>8, TriggerType, SetActStep, RunIfRunnableType, HandleStep DEF TriggerFires
<1>9. CASE ScheduleComesDue(a)
  BY <1>3, <1>9, ScheduleType, SetActStep, RunIfRunnableType, HandleStep DEF ScheduleComesDue
<1>10. CASE RequirementMet(a)
  BY <1>3, <1>10, RequirementType, SetActStep, RunIfRunnableType, HandleStep DEF RequirementMet
<1>11. CASE RequirementUnmet(a)
  BY <1>3, <1>11, RequirementType, SetActStep, WithdrawIfReadyType, HandleStep
     DEF RequirementUnmet
<1>12. CASE PowerLockedNotification(a)
  <2> DEFINE r == [act[a] EXCEPT !.power = "locked"]
  <2>1. r \in ActivityState
    BY <1>3, PowerType
  <2>2. Handle(SetAct(Now, a, IF r.ending THEN r ELSE DoRunActivity(r)), a)
    BY <1>12 DEF PowerLockedNotification
  <2> HIDE DEF r
  <2>3. (IF r.ending THEN r ELSE DoRunActivity(r)) \in ActivityState
    BY <2>1, DoRunActivityType
  <2> QED
    BY <2>2, <2>3, SetActStep, HandleStep
<1>13. CASE PowerUnlockedNotification(a)
  <2> DEFINE s == SetAct(Now, a, [act[a] EXCEPT !.power = "unlocked"])
  <2>1. s \in ManagerState
    BY <1>3, PowerType, SetActStep
  <2>2. Handle(IF act[a].ending THEN EndActivity(s, a) ELSE s, a)
    BY <1>13 DEF PowerUnlockedNotification
  <2> HIDE DEF s
  <2> QED
    BY <2>1, <2>2, EndActivityType, HandleStep
<1>14. CASE PersistCommandCompletes(a)
  BY <1>1, <1>14, NowType, CompletePersistCommandType, HandleStep DEF PersistCommandCompletes
<1> QED
  BY <1>2, <1>5, <1>6, <1>7, <1>8, <1>9, <1>10, <1>11, <1>12, <1>13, <1>14

LEMMA ManagerType ==
  ASSUME TypeOK,
         \/ InteractiveYieldTimeout
         \/ \E bit \in EnableBits : Enable(bit)
         \/ \E bit \in EnableBits : Disable(bit)
         \/ Develop
         \/ ScheduleNextActivity
  PROVE  TypeOK'
<1>1. Now \in ManagerState
  BY NowType
<1>2. CASE InteractiveYieldTimeout
  <2> DEFINE first == CHOOSE i \in Candidates : \A j \in Candidates : i <= j
             victim == queue["backgroundInteractive"][first]
  <2>1. /\ [Now EXCEPT !.yieldTimer = FALSE] \in ManagerState
    BY <1>1 DEF ManagerState
  <2>2. \/ Become([Now EXCEPT !.yieldTimer = FALSE])
        \/ Become(Now)
        \/ /\ Candidates # {}
           /\ Handle([YieldActivity(Now, victim) EXCEPT !.yieldTimer = TRUE], victim)
    BY <1>2 DEF InteractiveYieldTimeout, Victim
  <2>3. Candidates # {} => victim \in Activities
    BY FirstCandidate
  <2> HIDE DEF first, victim
  <2>4. Candidates # {} => YieldActivity(Now, victim) \in ManagerState
    BY <1>1, <2>3, YieldActivityType
  <2>5. Candidates # {} =>
          [YieldActivity(Now, victim) EXCEPT !.yieldTimer = TRUE] \in ManagerState
    BY <2>4 DEF ManagerState
  <2> QED
    BY <1>1, <2>1, <2>2, <2>3, <2>5, BecomeStep, HandleStep
<1>3. ASSUME NEW bit \in EnableBits, Enable(bit) \/ Disable(bit)
      PROVE  TypeOK'
  <2>1. /\ [Now EXCEPT !.enabled = enabled \cup {bit}] \in ManagerState
        /\ [Now EXCEPT !.enabled = enabled \ {bit}] \in ManagerState
    BY <1>1 DEF Now, ManagerState
  <2>2. \/ Become([Now EXCEPT !.enabled = enabled \cup {bit}])
        \/ Become([Now EXCEPT !.enabled = enabled \ {bit}])
    BY <1>3 DEF Enable, Disable, Now
  <2> QED
    BY <2>1, <2>2, BecomeStep
<1>4. CASE Develop
  <2>1. PICK s : Become(s) /\
          \/ \E n \in Levels : s = SetBackgroundConcurrencyLevel(Now, n)
          \/ \E a \in Activities : s = EvictBackgroundActivity(Now, a)
          \/ s = EvictAllBackgroundActivities(Now)
          \/ \E a \in Activities : s = RunReadyBackgroundActivity(Now, a)
          \/ s = RunAllReadyActivities(Now)
    BY <1>4 DEF Develop, SetConcurrency, Evict, EvictAll, Run, RunAll
  <2>2. s \in ManagerState
    BY <1>1, <2>1, SetBackgroundConcurrencyLevelType, EvictBackgroundActivityType,
       EvictAllBackgroundActivitiesType, RunReadyBackgroundActivityType,
       RunAllReadyActivitiesType
  <2> QED
    BY <2>1, <2>2, BecomeStep
<1>5. CASE ScheduleNextActivity
  <2> DEFINE a == Head(queue["initialized"])
  <2>1. queue["initialized"] \in Seq(Activities) /\ queue["initialized"] # << >>
    BY <1>5 DEF ScheduleNextActivity, Scheduling, TypeOK, Now, ManagerState, QueueName
  <2>2. a \in Activities
    BY <2>1, HeadTailProperties
  <2>3. Handle(ScheduleActivity(MoveTo(Now, a, "scheduled"), a), a)
    BY <1>5 DEF ScheduleNextActivity
  <2> HIDE DEF a
  <2>4. MoveTo(Now, a, "scheduled") \in ManagerState
    BY <1>1, <2>2, MoveToType DEF QueueName
  <2> QED
    BY <2>2, <2>3, <2>4, ScheduleActivityType, HandleStep
<1> QED
  BY <1>2, <1>3, <1>4, <1>5

\* The state is always what its declarations say, for any set of Activities,
\* subscribers, levels and enable bits, and any kinds of call: no operation,
\* however handlers follow one another, takes the head of an empty list,
\* dereferences a position no queue has, or leaves a flag undefined.
THEOREM TypeCorrect == Spec => []TypeOK
<1>1. Init => TypeOK
  <2> SUFFICES ASSUME Init PROVE TypeOK
    OBVIOUS
  <2>1. act \in [Activities -> ActivityState]
    BY NewActivityType DEF Init
  <2>2. queue \in [QueueName -> Seq(Activities)]
    BY EmptySeq DEF Init
  <2>3. yieldTimer \in BOOLEAN /\ level \in Levels /\ enabled \in SUBSET EnableBits
    BY LevelsAssumption, EnvironmentAssumption DEF Init
  <2> QED
    BY <2>1, <2>2, <2>3 DEF TypeOK, Now, ManagerState
<1>2. TypeOK /\ [Next]_vars => TypeOK'
  <2> SUFFICES ASSUME TypeOK, [Next]_vars PROVE TypeOK'
    OBVIOUS
  <2>1. CASE Next
    BY <2>1, ClientType, ReplyType, ManagerType DEF Next
  <2>2. CASE UNCHANGED vars
    BY <2>2 DEF vars, TypeOK, Now
  <2> QED
    BY <2>1, <2>2
<1> QED
  BY <1>1, <1>2, PTL DEF Spec

-----------------------------------------------------------------------------
(* A cancel, stop or complete that was accepted stands, unless a complete  *)
(* is refused: EndIsForGood and NameFreedByFinalCommand, for every value   *)
(* of the constants in which "refused" is not among the calls made: a      *)
(* refused complete clears the terminate flag of a cancelled Activity.     *)

\* A client has ended the Activity, and it may not start over.
Ended(r) == r.extCommand \in FinalCommand /\ r.terminate

\* The inductive invariant, of one Activity: the terminate flag is set before
\* the command is stored, and the name is given back, now or when db8 has
\* answered, after.
Committed(r) ==
  /\ r.extCommand \in {"cancel", "stop"} => r.terminate
  /\ (\E i \in 1..Len(r.persistCommands) : r.persistCommands[i].finish = "end") => Ended(r)
  /\ r.life = "live" /\ ~r.named => Ended(r)

AllCommitted == \A a \in Activities : Committed(act[a])

\* What a step does to an Activity: it stays committed, and a cancel or stop
\* stays its command.
Stands(p, r) ==
  /\ Committed(r)
  /\ p.extCommand \in {"cancel", "stop"} => r.extCommand = p.extCommand

-----------------------------------------------------------------------------
(* Steps that stand.                                                       *)

LEMMA EndedCommitted ==
  ASSUME NEW r, Ended(r)
  PROVE  Committed(r)
BY DEF Committed, Ended

LEMMA KeepsStands ==
  ASSUME NEW p, NEW r, Committed(p), Keeps(p, r)
  PROVE  Stands(p, r)
BY DEF Committed, Keeps, Stands, Ended, FinalCommand

LEMMA StandsTransitive ==
  ASSUME NEW p, NEW q, NEW r, Stands(p, q), Stands(q, r)
  PROVE  Stands(p, r)
BY DEF Stands

LEMMA StandsKeeps ==
  ASSUME NEW p, NEW q, NEW r, Stands(p, q), Keeps(q, r)
  PROVE  Stands(p, r)
<1>1. Stands(q, r)
  BY KeepsStands DEF Stands
<1> QED
  BY <1>1, StandsTransitive

\* A command other than cancel and stop, or one given with the flag set.
LEMMA ObeysStands ==
  ASSUME NEW p, NEW r, NEW command, Committed(p), Obeys(p, r, command),
         command \notin {"cancel", "stop"} \/ p.terminate
  PROVE  Stands(p, r)
BY DEF Committed, Obeys, Stands, Ended, FinalCommand

\* From s to t, every Activity stands.
AllStand(s, t) == \A x \in Activities : Stands(s.act[x], t.act[x])

LEMMA HeldStand ==
  ASSUME NEW s, NEW t, \A x \in Activities : Committed(s.act[x]), Held(s, t)
  PROVE  AllStand(s, t)
BY KeepsStands DEF AllStand, Held

LEMMA StandHeld ==
  ASSUME NEW s, NEW t, NEW u, AllStand(s, t), Held(t, u)
  PROVE  AllStand(s, u)
BY StandsKeeps DEF AllStand, Held

LEMMA StandStand ==
  ASSUME NEW s, NEW t, NEW u, AllStand(s, t), AllStand(t, u)
  PROVE  AllStand(s, u)
BY StandsTransitive DEF AllStand

LEMMA CommandedStand ==
  ASSUME NEW s, NEW t, NEW a \in Activities, NEW command,
         \A x \in Activities : Committed(s.act[x]),
         Commanded(s, t, a, command), command \notin {"cancel", "stop"}
  PROVE  AllStand(s, t)
BY KeepsStands, ObeysStands DEF AllStand, Commanded

LEMMA SetActStand ==
  ASSUME NEW s \in ManagerState, NEW a \in Activities, NEW r,
         \A x \in Activities : Committed(s.act[x]), Stands(s.act[a], r)
  PROVE  AllStand(s, SetAct(s, a, r))
<1> SUFFICES ASSUME NEW x \in Activities
             PROVE  Stands(s.act[x], SetAct(s, a, r).act[x])
  BY DEF AllStand
<1>1. SetAct(s, a, r).act[x] = IF x = a THEN r ELSE s.act[x]
  BY DEF SetAct, ManagerState
<1>2. Stands(s.act[x], s.act[x])
  BY DEF Stands
<1> QED
  BY <1>1, <1>2

-----------------------------------------------------------------------------
(* Calls that wait for the database.                                       *)

LEMMA AppendCommitted ==
  ASSUME NEW r \in ActivityState, NEW command \in PersistCommand,
         Committed(r), command.finish = "end" => Ended(r)
  PROVE  Stands(r, [r EXCEPT !.persistCommands = Append(@, command)])
<1> DEFINE commands == Append(r.persistCommands, command)
           q == [r EXCEPT !.persistCommands = commands]
<1>1. r.persistCommands \in Seq(PersistCommand)
  BY DEF ActivityState
<1>2. /\ q.extCommand = r.extCommand /\ q.terminate = r.terminate /\ q.named = r.named
      /\ q.life = r.life /\ q.persistCommands = commands
  BY DEF ActivityState
<1>3. CASE Ended(r)
  BY <1>2, <1>3, EndedCommitted DEF Stands, Ended
<1>4. CASE ~Ended(r)
  <2>1. /\ Len(r.persistCommands) \in Nat
        /\ Len(commands) = Len(r.persistCommands) + 1
        /\ \A i \in 1..Len(r.persistCommands) : commands[i] = r.persistCommands[i]
        /\ commands[Len(r.persistCommands) + 1] = command
    BY <1>1, AppendProperties, LenProperties
  <2>2. \A i \in 1..Len(r.persistCommands) : r.persistCommands[i].finish # "end"
    BY <1>4 DEF Committed
  <2>3. command.finish # "end"
    BY <1>4
  <2> HIDE DEF commands, q
  <2>4. \A i \in 1..Len(commands) : commands[i].finish # "end"
    BY <2>1, <2>2, <2>3
  <2>5. Committed(q)
    BY <1>2, <1>4, <2>4 DEF Committed, Ended
  <2> QED
    BY <1>2, <2>5 DEF Stands, q, commands
<1> QED
  BY <1>3, <1>4

LEMMA TailCommitted ==
  ASSUME NEW r \in ActivityState, Committed(r), r.persistCommands # << >>
  PROVE  Stands(r, [r EXCEPT !.persistCommands = Tail(@)])
<1> DEFINE commands == Tail(r.persistCommands)
           q == [r EXCEPT !.persistCommands = commands]
<1>1. r.persistCommands \in Seq(PersistCommand)
  BY DEF ActivityState
<1>2. /\ q.extCommand = r.extCommand /\ q.terminate = r.terminate /\ q.named = r.named
      /\ q.life = r.life /\ q.persistCommands = commands
  BY DEF ActivityState
<1>3. /\ Len(r.persistCommands) \in Nat
      /\ commands \in Seq(PersistCommand)
      /\ Len(commands) = Len(r.persistCommands) - 1
      /\ \A i \in 1..Len(commands) : commands[i] = r.persistCommands[i + 1]
  BY <1>1, HeadTailProperties, LenProperties
<1> HIDE DEF commands, q
<1>4. \A i \in 1..Len(commands) : i + 1 \in 1..Len(r.persistCommands)
  BY <1>3
<1>5. Committed(q)
  BY <1>2, <1>3, <1>4 DEF Committed, Ended
<1> QED
  BY <1>2, <1>5 DEF Stands, q, commands

LEMMA FinishCallStand ==
  ASSUME NEW s \in ManagerState, NEW a \in Activities, NEW command \in PersistCommand,
         \A x \in Activities : Committed(s.act[x]),
         command.finish = "end" => Ended(s.act[a])
  PROVE  AllStand(s, FinishCall(s, a, command))
<1>1. s.act[a] \in ActivityState
  BY ActType
<1>2. command.finish \in {"create", "end", "restart"}
  BY DEF PersistCommand
<1>3. CASE command.finish = "create"
  <2>1. Commanded(s, FinishCall(s, a, command), a, "start")
    BY <1>3, FinishCallStep
  <2>2. "start" \notin {"cancel", "stop"}
    OBVIOUS
  <2> QED
    BY <2>1, <2>2, CommandedStand
<1>4. CASE command.finish = "end"
  <2> DEFINE r == [s.act[a] EXCEPT !.named = FALSE]
  <2>1. Ended(r) /\ r.extCommand = s.act[a].extCommand
    BY <1>1, <1>4 DEF Ended, ActivityState
  <2>2. Stands(s.act[a], r)
    BY <2>1, EndedCommitted DEF Stands
  <2> HIDE DEF r
  <2>3. AllStand(s, SetAct(s, a, r))
    BY <2>2, SetActStand
  <2> QED
    BY <1>4, <2>3, FinishCallStep DEF r
<1>5. CASE command.finish = "restart"
  <2>1. FinishCall(s, a, command) = s
    BY <1>5, FinishCallStep
  <2>2. AllStand(s, s)
    BY HeldSame, HeldStand
  <2> QED
    BY <2>1, <2>2
<1> QED
  BY <1>2, <1>3, <1>4, <1>5

LEMMA EnsureCompletionStand ==
  ASSUME NEW s \in ManagerState, NEW a \in Activities, NEW command \in PersistCommand,
         \A x \in Activities : Committed(s.act[x]),
         command.finish = "end" => Ended(s.act[a])
  PROVE  AllStand(s, EnsureCompletion(s, a, command))
<1>1. s.act[a] \in ActivityState
  BY ActType
<1>2. AllStand(s, HookPersistCommand(s, a, command))
  <2> DEFINE p == s.act[a]
             r == [p EXCEPT !.persistCommands = Append(@, command)]
  <2>1. HookPersistCommand(s, a, command) = SetAct(s, a, r)
    BY DEF HookPersistCommand
  <2>2. p \in ActivityState /\ Committed(p) /\ (command.finish = "end" => Ended(p))
    BY <1>1
  <2> HIDE DEF p
  <2>3. Stands(p, r)
    BY <2>2, AppendCommitted
  <2> HIDE DEF r
  <2> QED
    BY <2>1, <2>3, SetActStand DEF p
<1>3. AllStand(s, FinishCall(s, a, command))
  BY FinishCallStand, SMTT(60)
<1> QED
  BY <1>2, <1>3 DEF EnsureCompletion

\* The command at the head has been stored: it said no more than the flags do.
LEMMA CompletePersistCommandStand ==
  ASSUME NEW s \in ManagerState, NEW a \in Activities,
         \A x \in Activities : Committed(s.act[x]),
         s.act[a].persistCommands # << >>
  PROVE  AllStand(s, CompletePersistCommand(s, a))
<1> DEFINE commands == s.act[a].persistCommands
           command == Head(commands)
           t == FinishCall(s, a, command)
           p == t.act[a]
           r == [p EXCEPT !.persistCommands = Tail(@)]
           u == SetAct(t, a, r)
<1>1. commands \in Seq(PersistCommand)
  BY ActType DEF ActivityState
<1>2. command \in PersistCommand /\ Tail(commands) \in Seq(PersistCommand)
  BY <1>1, HeadTailProperties
<1>3. command.finish = "end" => Ended(s.act[a])
  <2>1. 1 \in 1..Len(commands) /\ command = commands[1]
    BY <1>1, EmptySeq, LenProperties
  <2> QED
    BY <2>1 DEF Committed
<1> HIDE DEF command
<1>4. t \in ManagerState /\ p.persistCommands = commands
  BY <1>2, FinishCallStep
<1>5. AllStand(s, t)
  BY <1>2, <1>3, FinishCallStand
<1> HIDE DEF t
<1>6. \A x \in Activities : Committed(t.act[x])
  BY <1>5 DEF AllStand, Stands
<1>7. p \in ActivityState /\ Committed(p)
  BY <1>4, <1>6, ActType
<1>8. Stands(p, r)
  BY <1>4, <1>7, TailCommitted
<1>9. AllStand(t, u)
  BY <1>4, <1>6, <1>8, SetActStand
<1>10. r \in ActivityState
  BY <1>2, <1>4, <1>7, PersistCommandsType
<1> HIDE DEF p, r
<1>11. u \in ManagerState
  BY <1>4, <1>10, SetActType
<1>12. AllStand(s, u)
  BY <1>5, <1>9, StandStand
<1> HIDE DEF u
<1>13. AllStand(s, EndActivity(u, a))
  BY <1>11, <1>12, EndActivityHeld, StandHeld
<1> QED
  BY <1>12, <1>13 DEF CompletePersistCommand, command, t, p, r, u

\* stop, cancel and complete set the flag before they store the command.
LEMMA EndCallStand ==
  ASSUME NEW s \in ManagerState, NEW a \in Activities, NEW command \in FinalCommand,
         \A x \in Activities : Committed(s.act[x])
  PROVE  AllStand(s, EndCall(s, a, command))
<1> DEFINE p == s.act[a]
           r == [p EXCEPT !.terminate = TRUE]
           t == SetAct(s, a, r)
           u == SendCommand(t, a, command, FALSE)
           end == [finish |-> "end", sub |-> None, start |-> FALSE]
           v == EnsureCompletion(u, a, end)
<1>1. p \in ActivityState /\ Committed(p)
  BY ActType
<1>2. r \in ActivityState
  BY <1>1, FlagType
<1>3. r.extCommand = p.extCommand /\ r.terminate /\ Stands(p, r)
  BY <1>1 DEF ActivityState, Committed, Stands, Ended
<1>4. AlreadyEnded(p, FALSE) <=> p.extCommand \in FinalCommand
  BY DEF AlreadyEnded
<1>5. EndCall(s, a, command) = IF AlreadyEnded(p, FALSE) THEN t ELSE v
  BY DEF EndCall
<1> HIDE DEF p, r
<1>6. t \in ManagerState /\ t.act[a] = r
  BY <1>2, SetActType DEF SetAct, ManagerState
<1>7. AllStand(s, t)
  BY <1>3, SetActStand DEF p
<1> HIDE DEF t
<1>8. \A x \in Activities : Committed(t.act[x])
  BY <1>7 DEF AllStand, Stands
<1>9. CASE AlreadyEnded(p, FALSE)
  BY <1>5, <1>7, <1>9
<1>10. CASE ~AlreadyEnded(p, FALSE)
  <2>1. command \in ActivityCommand /\ FALSE \in BOOLEAN /\ command # "start"
    BY DEF ActivityCommand, FinalCommand
  <2>2. u \in ManagerState
    BY <1>6, <2>1, SendCommandType
  <2>3. t.act[a].extCommand \notin FinalCommand /\ t.act[a].terminate
    BY <1>3, <1>4, <1>6, <1>10
  <2>4. Commanded(t, u, a, command) /\ Obeys(t.act[a], u.act[a], command)
    BY <1>6, <2>1, <2>3, ClientCommand
  <2> HIDE DEF u
  <2>5. AllStand(t, u)
    <3> SUFFICES ASSUME NEW x \in Activities
                 PROVE  Stands(t.act[x], u.act[x])
      BY DEF AllStand
    <3>1. CASE Keeps(t.act[x], u.act[x])
      BY <1>8, <3>1, KeepsStands
    <3>2. CASE x = a /\ Obeys(t.act[x], u.act[x], command)
      BY <1>8, <2>3, <3>2, ObeysStands
    <3> QED
      BY <2>4, <3>1, <3>2 DEF Commanded
  <2>6. Ended(u.act[a])
    BY <2>3, <2>4 DEF Obeys, Ended
  <2>7. end \in PersistCommand
    BY DEF PersistCommand
  <2>8. \A x \in Activities : Committed(u.act[x])
    BY <2>5 DEF AllStand, Stands
  <2> HIDE DEF end
  <2>9. AllStand(u, v)
    BY <2>2, <2>6, <2>7, <2>8, EnsureCompletionStand
  <2>10. AllStand(s, v)
    BY <1>7, <2>5, <2>9, StandStand
  <2> QED
    BY <1>5, <1>10, <2>10
<1> QED
  BY <1>9, <1>10

-----------------------------------------------------------------------------
(* The steps, action by action.                                            *)

\* From this state to the next, every Activity stands.
StepStands == \A x \in Activities : Stands(act[x], act'[x])

\* A handler that makes every Activity stand.
LEMMA HandleStands ==
  ASSUME TypeOK, NEW s \in ManagerState, NEW a \in Activities, Handle(s, a),
         AllStand(Now, s)
  PROVE  StepStands
BY HandleStep, NowType DEF StepStands, AllStand

LEMMA NowCommitted ==
  ASSUME TypeOK, AllCommitted
  PROVE  /\ Now \in ManagerState
         /\ \A x \in Activities : Committed(Now.act[x])
BY NowType DEF AllCommitted

\* A handler that changes fields of the Activity alone, to begin with.
LEMMA SetActKeepsStand ==
  ASSUME TypeOK, AllCommitted, NEW a \in Activities, NEW r \in ActivityState, Keeps(act[a], r)
  PROVE  SetAct(Now, a, r) \in ManagerState /\ AllStand(Now, SetAct(Now, a, r))
<1>1. SetAct(Now, a, r) \in ManagerState
  BY SetActStep
<1>2. Stands(Now.act[a], r)
  BY NowType, KeepsStands DEF AllCommitted
<1> QED
  BY <1>1, <1>2, NowCommitted, SetActStand

LEMMA ClientStands ==
  ASSUME TypeOK, AllCommitted, Client, "refused" \notin Calls
  PROVE  StepStands
<1>1. Now \in ManagerState /\ \A x \in Activities : Committed(Now.act[x])
  BY NowCommitted
<1>2. /\ {"start", "pause", "complete"} \cup FinalCommand \subseteq ActivityCommand
      /\ "stop" \in FinalCommand /\ "cancel" \in FinalCommand /\ "complete" \in FinalCommand
      /\ TRUE \in BOOLEAN /\ FALSE \in BOOLEAN
  BY DEF ActivityCommand, FinalCommand
<1>3. PICK a \in Activities :
        \/ \E b \in Subscribers \cup {None}, start \in BOOLEAN,
              requirement \in {"none", "met", "unmet"} :
             CreateActivity(a, b, start, requirement)
        \/ \E b \in Subscribers : JoinActivity(a, b)
        \/ \E b \in Subscribers : AdoptActivity(a, b)
        \/ ReleaseCall(a)
        \/ StartActivity(a)
        \/ PauseActivity(a)
        \/ StopActivity(a)
        \/ CancelActivity(a)
        \/ CompleteActivity(a)
        \/ \E update \in Updates : CompleteAndRestart(a, update)
        \/ \E b \in Subscribers : LeaveWhenTold(a, b)
        \/ \E b \in Subscribers : LeaveUntold(a, b)
  BY DEF Client, ClientCall, RefusedComplete, RefusedCompleteAndRestart
<1>4. act[a] \in ActivityState /\ Now.act[a] = act[a] /\ Committed(act[a])
  BY NowType DEF AllCommitted
<1>5. ASSUME NEW b \in Subscribers \cup {None}, NEW start \in BOOLEAN,
             NEW requirement \in {"none", "met", "unmet"},
             CreateActivity(a, b, start, requirement)
      PROVE  StepStands
  <2> DEFINE p == [act[a] EXCEPT !.life = "live", !.named = TRUE]
             r == [p EXCEPT !.requirement = requirement]
             create == [finish |-> "create", sub |-> b, start |-> start]
             s == SetAct(Now, a, r)
             t == EnsureCompletion(s, a, create)
  <2>1. p \in ActivityState
    BY <1>4 DEF ActivityState
  <2>2. r \in ActivityState
    BY <2>1, RequirementType
  <2>3. Stands(act[a], r)
    BY <1>4 DEF Stands, Committed, Ended, ActivityState
  <2>4. create \in PersistCommand /\ create.finish # "end"
    BY DEF PersistCommand
  <2>5. Handle(t, a)
    BY <1>5 DEF CreateActivity
  <2> HIDE DEF r, create
  <2>6. s \in ManagerState /\ AllStand(Now, s)
    BY <1>1, <1>4, <2>2, <2>3, SetActStep, SetActStand
  <2> HIDE DEF s
  <2>7. AllStand(s, t)
    <3>1. \A x \in Activities : Committed(s.act[x])
      BY <2>6 DEF AllStand, Stands
    <3> QED
      BY <2>4, <2>6, <3>1, EnsureCompletionStand
  <2>8. t \in ManagerState
    BY <2>4, <2>6, EnsureCompletionType
  <2> HIDE DEF t
  <2> QED
    BY <2>5, <2>6, <2>7, <2>8, StandStand, HandleStands
<1>6. ASSUME NEW b \in Subscribers, JoinActivity(a, b) \/ AdoptActivity(a, b)
      PROVE  StepStands
  <2> DEFINE r == AddSubscription(act[a], b)
             s == SetAct(Now, a, r)
  <2>1. r \in ActivityState /\ Keeps(act[a], r)
    BY <1>4, AddSubscriptionType, FamilyKeeps DEF AddSubscription
  <2>2. Handle(s, a) \/ Handle(Adopt(s, a, b), a)
    BY <1>6 DEF JoinActivity, AdoptActivity
  <2> HIDE DEF r
  <2>3. s \in ManagerState /\ AllStand(Now, s)
    BY <2>1, SetActKeepsStand
  <2> HIDE DEF s
  <2>4. Adopt(s, a, b) \in ManagerState /\ AllStand(Now, Adopt(s, a, b))
    BY <2>3, AdoptType, AdoptHeld, StandHeld
  <2>5. CASE Handle(s, a)
    BY <2>3, <2>5, HandleStands
  <2>6. CASE Handle(Adopt(s, a, b), a)
    BY <2>4, <2>6, HandleStands
  <2> QED
    BY <2>2, <2>5, <2>6
<1>7. CASE ReleaseCall(a)
  BY <1>1, <1>7, ReleaseType, ReleaseHeld, HeldStand, HandleStands DEF ReleaseCall
<1>8. CASE StartActivity(a) \/ PauseActivity(a)
  <2>1. PICK command \in {"start", "pause"} : Handle(SendCommand(Now, a, command, FALSE), a)
    BY <1>8 DEF StartActivity, PauseActivity
  <2>2. command \in ActivityCommand /\ command \notin {"cancel", "stop"}
    BY <1>2, <2>1
  <2>3. SendCommand(Now, a, command, FALSE) \in ManagerState
    BY <1>1, <1>2, <2>2, SendCommandType
  <2>4. AllStand(Now, SendCommand(Now, a, command, FALSE))
    BY <1>1, <2>2, ClientCommand, CommandedStand
  <2> QED
    BY <2>1, <2>3, <2>4, HandleStands
<1>9. CASE StopActivity(a) \/ CancelActivity(a) \/ CompleteActivity(a)
  <2>1. PICK command \in FinalCommand : Handle(EndCall(Now, a, command), a)
    BY <1>2, <1>9 DEF StopActivity, CancelActivity, CompleteActivity
  <2>2. EndCall(Now, a, command) \in ManagerState /\ AllStand(Now, EndCall(Now, a, command))
    BY <1>1, EndCallType, EndCallStand
  <2> QED
    BY <2>1, <2>2, HandleStands
<1>10. ASSUME NEW update \in Updates, CompleteAndRestart(a, update)
       PROVE  StepStands
  <2> DEFINE s == UpdateActivity(Now, a, update)
             q == [s.act[a] EXCEPT !.restart = TRUE]
             t == SetAct(s, a, q)
             u == SendCommand(t, a, "complete", FALSE)
             restart == [finish |-> "restart", sub |-> None, start |-> FALSE]
             v == EnsureCompletion(u, a, restart)
  <2>1. s \in ManagerState /\ Held(Now, s)
    BY <1>1, UpdateActivityType, EnvironmentAssumption
  <2>2. Handle(IF AlreadyEnded(t.act[a], FALSE) THEN t ELSE v, a)
    BY <1>10 DEF CompleteAndRestart
  <2> HIDE DEF s
  <2>3. q \in ActivityState /\ Keeps(s.act[a], q)
    BY <2>1, ActType, FlagType, FieldKeeps
  <2> HIDE DEF q
  <2>4. t \in ManagerState /\ Held(s, t)
    BY <2>1, <2>3, SetActType, SetActHeld
  <2>5. AllStand(Now, t)
    BY <1>1, <2>1, <2>4, HeldTransitive, HeldStand
  <2> HIDE DEF t
  <2>6. \A x \in Activities : Committed(t.act[x])
    BY <2>5 DEF AllStand, Stands
  <2>7. u \in ManagerState
    BY <1>2, <2>4, SendCommandType
  <2>8. AllStand(t, u)
    <3>1. Commanded(t, u, a, "complete")
      BY <1>2, <2>4, ClientCommand
    <3>2. "complete" \notin {"cancel", "stop"}
      OBVIOUS
    <3> HIDE DEF u
    <3> QED
      BY <2>6, <3>1, <3>2, CommandedStand
  <2> HIDE DEF u
  <2>9. \A x \in Activities : Committed(u.act[x])
    BY <2>8 DEF AllStand, Stands
  <2>10. restart \in PersistCommand /\ restart.finish # "end"
    BY DEF PersistCommand
  <2> HIDE DEF restart
  <2>11. v \in ManagerState
    BY <2>7, <2>10, EnsureCompletionType
  <2>12. AllStand(u, v)
    BY <2>7, <2>9, <2>10, EnsureCompletionStand
  <2> HIDE DEF v
  <2>13. AllStand(Now, v)
    BY <2>5, <2>8, <2>12, StandStand
  <2> QED
    BY <2>2, <2>4, <2>5, <2>11, <2>13, HandleStands
<1>11. ASSUME NEW b \in Subscribers, LeaveWhenTold(a, b) \/ LeaveUntold(a, b)
       PROVE  StepStands
  <2>1. Handle(RemoveSubscription(Now, a, b), a)
    BY <1>11 DEF LeaveWhenTold, LeaveUntold, Leave
  <2> QED
    BY <1>1, <2>1, RemoveSubscriptionType, RemoveSubscriptionHeld, HeldStand, HandleStands
<1> QED
  BY <1>3, <1>5, <1>6, <1>7, <1>8, <1>9, <1>10, <1>11

LEMMA ReplyStands ==
  ASSUME TypeOK, AllCommitted, Reply
  PROVE  StepStands
<1>1. Now \in ManagerState /\ \A x \in Activities : Committed(Now.act[x])
  BY NowCommitted
<1>2. PICK a \in Activities :
        \/ CallbackSucceeds(a)
        \/ CallbackFailsTransiently(a)
        \/ CallbackFailsPermanently(a)
        \/ TriggerFires(a)
        \/ ScheduleComesDue(a)
        \/ RequirementMet(a)
        \/ RequirementUnmet(a)
        \/ PowerLockedNotification(a)
        \/ PowerUnlockedNotification(a)
        \/ PersistCommandCompletes(a)
  BY DEF Reply, ReplyTo
<1>3. act[a] \in ActivityState /\ Now.act[a] = act[a] /\ Committed(act[a])
  BY NowType DEF AllCommitted
<1>4. \A v : /\ Keeps(act[a], [act[a] EXCEPT !.callback = v])
             /\ Keeps(act[a], [act[a] EXCEPT !.trigger = v])
             /\ Keeps(act[a], [act[a] EXCEPT !.schedule = v])
             /\ Keeps(act[a], [act[a] EXCEPT !.requirement = v])
             /\ Keeps(act[a], [act[a] EXCEPT !.power = v])
  BY <1>3 DEF Keeps, ActivityState
<1>5. CASE CallbackSucceeds(a)
  <2>1. [act[a] EXCEPT !.callback = "idle"] \in ActivityState
    BY <1>3, CallbackType
  <2> QED
    BY <1>4, <1>5, <2>1, SetActKeepsStand, HandleStands DEF CallbackSucceeds
<1>6. CASE CallbackFailsTransiently(a)
  <2> DEFINE q == [act[a] EXCEPT !.callback = "idle"]
             r == [q EXCEPT !.requeue = TRUE]
             s == SetAct(Now, a, r)
  <2>1. q \in ActivityState /\ Keeps(act[a], q)
    BY <1>3, <1>4, CallbackType
  <2>2. Handle(EndActivity(s, a), a)
    BY <1>6 DEF CallbackFailsTransiently
  <2> HIDE DEF q
  <2>3. r \in ActivityState /\ Keeps(act[a], r)
    BY <2>1, FlagType, FieldKeeps, KeepsTransitive
  <2> HIDE DEF r
  <2>4. s \in ManagerState /\ AllStand(Now, s)
    BY <2>3, SetActKeepsStand
  <2> HIDE DEF s
  <2> QED
    BY <2>2, <2>4, EndActivityType, EndActivityHeld, StandHeld, HandleStands
<1>7. CASE CallbackFailsPermanently(a)
  <2> DEFINE q == [act[a] EXCEPT !.callback = "idle"]
             r == [q EXCEPT !.terminate = TRUE]
             s == SetAct(Now, a, r)
  <2>1. q \in ActivityState /\ Keeps(act[a], q)
    BY <1>3, <1>4, CallbackType
  <2>2. Handle(SendCommand(s, a, "cancel", TRUE), a)
    BY <1>7 DEF CallbackFailsPermanently
  <2> HIDE DEF q
  <2>3. Stands(act[a], q)
    BY <1>3, <2>1, KeepsStands
  <2>4. r \in ActivityState
    BY <2>1, FlagType
  <2>5. Stands(q, r)
    BY <2>1, <2>3 DEF Stands, Committed, Ended, ActivityState
  <2> HIDE DEF r
  <2>6. s \in ManagerState /\ AllStand(Now, s)
    BY <1>1, <1>3, <2>3, <2>4, <2>5, StandsTransitive, SetActStep, SetActStand
  <2> HIDE DEF s
  <2>7. "cancel" \in ActivityCommand /\ TRUE \in BOOLEAN
    BY DEF ActivityCommand, FinalCommand
  <2>8. SendCommand(s, a, "cancel", TRUE) \in ManagerState
    BY <2>6, <2>7, SendCommandType
  <2>9. AllStand(Now, SendCommand(s, a, "cancel", TRUE))
    BY <2>6, <2>7, InternalCommandHeld, StandHeld
  <2> QED
    BY <2>2, <2>8, <2>9, HandleStands
<1>8. CASE TriggerFires(a) \/ ScheduleComesDue(a) \/ RequirementMet(a)
  <2>1. /\ [act[a] EXCEPT !.trigger = "fired"] \in ActivityState
        /\ [act[a] EXCEPT !.schedule = "due"] \in ActivityState
        /\ [act[a] EXCEPT !.requirement = "met"] \in ActivityState
    BY <1>3, TriggerType, ScheduleType, RequirementType
  <2>2. PICK r \in ActivityState :
          Keeps(act[a], r) /\ Handle(RunIfRunnable(SetAct(Now, a, r), a), a)
    BY <1>4, <1>8, <2>1 DEF TriggerFires, ScheduleComesDue, RequirementMet
  <2>3. SetAct(Now, a, r) \in ManagerState /\ AllStand(Now, SetAct(Now, a, r))
    BY <2>2, SetActKeepsStand
  <2> QED
    BY <2>2, <2>3, RunIfRunnableType, RunIfRunnableHeld, StandHeld, HandleStands
<1>9. CASE RequirementUnmet(a)
  <2> DEFINE r == [act[a] EXCEPT !.requirement = "unmet"]
             s == SetAct(Now, a, r)
  <2>1. r \in ActivityState /\ Keeps(act[a], r)
    BY <1>3, <1>4, RequirementType
  <2>2. Handle(WithdrawIfReady(s, a), a)
    BY <1>9 DEF RequirementUnmet
  <2> HIDE DEF r
  <2>3. s \in ManagerState /\ AllStand(Now, s)
    BY <2>1, SetActKeepsStand
  <2> HIDE DEF s
  <2> QED
    BY <2>2, <2>3, WithdrawIfReadyType, WithdrawIfReadyHeld, StandHeld, HandleStands
<1>10. CASE PowerLockedNotification(a)
  <2> DEFINE r == [act[a] EXCEPT !.power = "locked"]
             q == IF r.ending THEN r ELSE DoRunActivity(r)
  <2>1. r \in ActivityState /\ Keeps(act[a], r)
    BY <1>3, <1>4, PowerType
  <2>2. Handle(SetAct(Now, a, q), a)
    BY <1>10 DEF PowerLockedNotification
  <2> HIDE DEF r
  <2>3. q \in ActivityState /\ Keeps(act[a], q)
    BY <2>1, DoRunActivityType, DoRunActivityKeeps, KeepsTransitive
  <2> HIDE DEF q
  <2> QED
    BY <2>2, <2>3, SetActKeepsStand, HandleStands
<1>11. CASE PowerUnlockedNotification(a)
  <2> DEFINE r == [act[a] EXCEPT !.power = "unlocked"]
             s == SetAct(Now, a, r)
  <2>1. r \in ActivityState /\ Keeps(act[a], r)
    BY <1>3, <1>4, PowerType
  <2>2. Handle(IF act[a].ending THEN EndActivity(s, a) ELSE s, a)
    BY <1>11 DEF PowerUnlockedNotification
  <2> HIDE DEF r
  <2>3. s \in ManagerState /\ AllStand(Now, s)
    BY <2>1, SetActKeepsStand
  <2> HIDE DEF s
  <2>4. EndActivity(s, a) \in ManagerState /\ AllStand(Now, EndActivity(s, a))
    BY <2>3, EndActivityType, EndActivityHeld, StandHeld
  <2> QED
    BY <2>2, <2>3, <2>4, HandleStands
<1>12. CASE PersistCommandCompletes(a)
  <2>1. Now.act[a].persistCommands # << >> /\ Handle(CompletePersistCommand(Now, a), a)
    BY <1>3, <1>12 DEF PersistCommandCompletes
  <2>2. /\ CompletePersistCommand(Now, a) \in ManagerState
        /\ AllStand(Now, CompletePersistCommand(Now, a))
    BY <1>1, <2>1, CompletePersistCommandType, CompletePersistCommandStand
  <2> QED
    BY <2>1, <2>2, HandleStands
<1> QED
  BY <1>2, <1>5, <1>6, <1>7, <1>8, <1>9, <1>10, <1>11, <1>12

LEMMA ManagerStands ==
  ASSUME TypeOK, AllCommitted,
         \/ InteractiveYieldTimeout
         \/ \E bit \in EnableBits : Enable(bit)
         \/ \E bit \in EnableBits : Disable(bit)
         \/ Develop
         \/ ScheduleNextActivity
  PROVE  StepStands
<1>1. Now \in ManagerState /\ \A x \in Activities : Committed(Now.act[x])
  BY NowCommitted
<1>2. ASSUME act' = act
      PROVE  StepStands
  BY <1>2 DEF StepStands, Stands, AllCommitted
<1>3. CASE InteractiveYieldTimeout
  <2> DEFINE first == CHOOSE i \in Candidates : \A j \in Candidates : i <= j
             victim == queue["backgroundInteractive"][first]
             s == YieldActivity(Now, victim)
             t == [s EXCEPT !.yieldTimer = TRUE]
  <2>1. \/ Become([Now EXCEPT !.yieldTimer = FALSE])
        \/ Become(Now)
        \/ Candidates # {} /\ Handle(t, victim)
    BY <1>3 DEF InteractiveYieldTimeout, Victim
  <2>2. Candidates # {} => victim \in Activities
    BY FirstCandidate
  <2> HIDE DEF first, victim
  <2>3. CASE Become([Now EXCEPT !.yieldTimer = FALSE]) \/ Become(Now)
    BY <1>2, <2>3 DEF Become, Now
  <2>4. CASE Candidates # {} /\ Handle(t, victim)
    <3>1. s \in ManagerState /\ Held(Now, s)
      BY <1>1, <2>2, <2>4, YieldActivityType, YieldActivityHeld
    <3> HIDE DEF s
    <3>2. t \in ManagerState /\ t.act = s.act
      BY <3>1 DEF ManagerState
    <3>3. AllStand(Now, t)
      BY <1>1, <3>1, <3>2, HeldSame, HeldTransitive, HeldStand
    <3> HIDE DEF t
    <3> QED
      BY <2>2, <2>4, <3>2, <3>3, HandleStands
  <2> QED
    BY <2>1, <2>3, <2>4
<1>4. CASE \E bit \in EnableBits : Enable(bit) \/ Disable(bit)
  BY <1>2, <1>4 DEF Enable, Disable, Become, Now
<1>5. CASE Develop
  <2>1. PICK s : Become(s) /\
          \/ \E n \in Levels : s = SetBackgroundConcurrencyLevel(Now, n)
          \/ \E a \in Activities : s = EvictBackgroundActivity(Now, a)
          \/ s = EvictAllBackgroundActivities(Now)
          \/ \E a \in Activities : s = RunReadyBackgroundActivity(Now, a)
          \/ s = RunAllReadyActivities(Now)
    BY <1>5 DEF Develop, SetConcurrency, Evict, EvictAll, Run, RunAll
  <2>2. Held(Now, s)
    BY <1>1, <2>1, DevelHeld
  <2>3. AllStand(Now, s) /\ act' = s.act
    BY <1>1, <2>1, <2>2, HeldStand DEF Become
  <2> QED
    BY <2>3, NowType DEF StepStands, AllStand
<1>6. CASE ScheduleNextActivity
  <2> DEFINE a == Head(queue["initialized"])
             s == MoveTo(Now, a, "scheduled")
  <2>1. queue["initialized"] \in Seq(Activities) /\ queue["initialized"] # << >>
    BY <1>6 DEF ScheduleNextActivity, Scheduling, TypeOK, Now, ManagerState, QueueName
  <2>2. a \in Activities
    BY <2>1, HeadTailProperties
  <2>3. Handle(ScheduleActivity(s, a), a)
    BY <1>6 DEF ScheduleNextActivity
  <2> HIDE DEF a
  <2>4. s \in ManagerState /\ Held(Now, s)
    BY <1>1, <2>2, MoveToType, MoveToHeld DEF QueueName
  <2> HIDE DEF s
  <2>5. ScheduleActivity(s, a) \in ManagerState /\ Held(Now, ScheduleActivity(s, a))
    BY <2>2, <2>4, ScheduleActivityType, ScheduleActivityHeld, HeldTransitive
  <2> QED
    BY <1>1, <2>2, <2>3, <2>5, HeldStand, HandleStands
<1> QED
  BY <1>3, <1>4, <1>5, <1>6

LEMMA NextStands ==
  ASSUME TypeOK, AllCommitted, [Next]_vars, "refused" \notin Calls
  PROVE  StepStands /\ AllCommitted'
<1>1. ASSUME Next
      PROVE  StepStands
  BY <1>1, ClientStands, ReplyStands, ManagerStands DEF Next
<1>2. ASSUME UNCHANGED vars
      PROVE  StepStands
  BY <1>2 DEF vars, StepStands, Stands, AllCommitted
<1>3. StepStands
  BY <1>1, <1>2
<1> QED
  BY <1>3 DEF StepStands, Stands, AllCommitted

LEMMA InitCommitted == Init => AllCommitted
<1> SUFFICES ASSUME Init, NEW a \in Activities PROVE Committed(act[a])
  BY DEF AllCommitted
<1>1. act[a] = NewActivity(a)
  BY DEF Init
<1>2. /\ act[a].extCommand = "none" /\ act[a].life = "new"
      /\ act[a].persistCommands = << >>
  BY <1>1 DEF NewActivity
<1>3. 1..Len(act[a].persistCommands) = {}
  BY <1>2, EmptySeq
<1> QED
  BY <1>2, <1>3 DEF Committed

-----------------------------------------------------------------------------
\* A cancel or stop a client was told is accepted stands, for every set of
\* Activities and any of the modelled calls but the refused complete, which
\* clears the terminate flag (ActivityCategory.cpp:1086) before it looks at who
\* calls: no crossing of replies, notifications and timeouts starts a cancelled
\* Activity over.
THEOREM EndStands ==
  ASSUME "refused" \notin Calls
  PROVE  Spec => EndIsForGood
<1>1. TypeOK /\ AllCommitted /\ [Next]_vars => AllCommitted'
  BY NextStands
<1>2. TypeOK /\ AllCommitted /\ [Next]_vars
        => [\A a \in Activities :
              act[a].extCommand \in {"cancel", "stop"}
                => act'[a].extCommand = act[a].extCommand]_vars
  BY NextStands DEF StepStands, Stands
<1> QED
  BY <1>1, <1>2, InitCommitted, TypeCorrect, PTL DEF Spec, EndIsForGood

\* Under the same assumption, a live Activity that has given its name back was
\* told to end by a client and will not start over: the name is free for
\* another Activity, and this one will not be stored or restarted under it.
THEOREM NameFreed ==
  ASSUME "refused" \notin Calls
  PROVE  Spec => []NameFreedByFinalCommand
<1>1. TypeOK /\ AllCommitted /\ [Next]_vars => AllCommitted'
  BY NextStands
<1>2. AllCommitted => NameFreedByFinalCommand
  BY DEF AllCommitted, Committed, Ended, NameFreedByFinalCommand, Live
<1> QED
  BY <1>1, <1>2, InitCommitted, TypeCorrect, PTL DEF Spec

-----------------------------------------------------------------------------
(* Family: the invariant.                                                  *)

\* The adopters of r, by place, are distinct subscribers.
InLine(r) ==
  /\ \A i \in 1..Len(r.adopters) : r.adopters[i] \in r.subscriptions
  /\ \A i, j \in 1..Len(r.adopters) : r.adopters[i] = r.adopters[j] => i = j

\* The inductive invariant, of one Activity.
Family(r) ==
  /\ r.told \subseteq r.subscriptions
  /\ r.parent # None => r.parent \in r.subscriptions
  /\ r.releasedParent # None => r.releasedParent \in r.subscriptions
  /\ InLine(r)
  /\ r.adopters # << >> => r.parent # None
  /\ \A i \in 1..Len(r.adopters) : r.adopters[i] # r.parent

\* The Activities, and the states of the Manager, that satisfy it.
FamilyState == {r \in ActivityState : Family(r)}

FamilyStates == {s \in ManagerState : \A x \in Activities : Family(s.act[x])}

-----------------------------------------------------------------------------
(* The parts of the state.                                                 *)

LEMMA ActFamily ==
  ASSUME NEW s \in FamilyStates, NEW a \in Activities
  PROVE  s \in ManagerState /\ s.act[a] \in FamilyState
BY ActType DEF FamilyStates, FamilyState

LEMMA SetActFamily ==
  ASSUME NEW s \in FamilyStates, NEW a \in Activities, NEW r \in FamilyState
  PROVE  SetAct(s, a, r) \in FamilyStates
<1>1. s \in ManagerState /\ r \in ActivityState /\ Family(r)
  BY DEF FamilyStates, FamilyState
<1>2. SetAct(s, a, r) \in ManagerState
  BY <1>1, SetActType
<1>3. \A x \in Activities : SetAct(s, a, r).act[x] = IF x = a THEN r ELSE s.act[x]
  BY <1>1 DEF SetAct, ManagerState
<1>4. \A x \in Activities : Family(s.act[x])
  BY DEF FamilyStates
<1> QED
  BY <1>1, <1>2, <1>3, <1>4 DEF FamilyStates

\* A change of anything but the Activities.
LEMMA SameActFamily ==
  ASSUME NEW s \in FamilyStates, NEW t \in ManagerState, t.act = s.act
  PROVE  t \in FamilyStates
BY DEF FamilyStates

-----------------------------------------------------------------------------
(* Operations on one Activity.                                             *)

\* A change of anything but the family.
LEMMA SameFamily ==
  ASSUME NEW r \in FamilyState, NEW q \in ActivityState,
         q.subscriptions = r.subscriptions, q.told = r.told, q.parent = r.parent,
         q.releasedParent = r.releasedParent, q.adopters = r.adopters
  PROVE  q \in FamilyState
BY DEF FamilyState, Family, InLine

LEMMA FlagFamily ==
  ASSUME NEW r \in FamilyState, NEW v \in BOOLEAN
  PROVE  /\ [r EXCEPT !.named = v] \in FamilyState
         /\ [r EXCEPT !.initialized = v] \in FamilyState
         /\ [r EXCEPT !.scheduled = v] \in FamilyState
         /\ [r EXCEPT !.ready = v] \in FamilyState
         /\ [r EXCEPT !.running = v] \in FamilyState
         /\ [r EXCEPT !.ending = v] \in FamilyState
         /\ [r EXCEPT !.terminate = v] \in FamilyState
         /\ [r EXCEPT !.restart = v] \in FamilyState
         /\ [r EXCEPT !.requeue = v] \in FamilyState
         /\ [r EXCEPT !.yielding = v] \in FamilyState
         /\ [r EXCEPT !.released = v] \in FamilyState
<1> DEFINE Q == {[r EXCEPT !.named = v],
                 [r EXCEPT !.initialized = v],
                 [r EXCEPT !.scheduled = v],
                 [r EXCEPT !.ready = v],
                 [r EXCEPT !.running = v],
                 [r EXCEPT !.ending = v],
                 [r EXCEPT !.terminate = v],
                 [r EXCEPT !.restart = v],
                 [r EXCEPT !.requeue = v],
                 [r EXCEPT !.yielding = v],
                 [r EXCEPT !.released = v]}
<1>1. r \in ActivityState
  BY DEF FamilyState
<1>2. \A q \in Q : q \in ActivityState
  BY <1>1, FlagType
<1>3. \A q \in Q : /\ q.subscriptions = r.subscriptions /\ q.told = r.told
                   /\ q.parent = r.parent /\ q.releasedParent = r.releasedParent
                   /\ q.adopters = r.adopters
  BY <1>1 DEF ActivityState
<1>4. \A q \in Q : q \in FamilyState
  <2> HIDE DEF Q
  <2> QED
    BY <1>2, <1>3, SameFamily
<1> QED
  BY <1>4

LEMMA CommandFamily ==
  ASSUME NEW r \in FamilyState, NEW command \in ActivityCommand
  PROVE  /\ [r EXCEPT !.intCommand = command] \in FamilyState
         /\ [r EXCEPT !.extCommand = command] \in FamilyState
         /\ [r EXCEPT !.sentCommand = command] \in FamilyState
<1> DEFINE Q == {[r EXCEPT !.intCommand = command],
                 [r EXCEPT !.extCommand = command],
                 [r EXCEPT !.sentCommand = command]}
<1>1. r \in ActivityState
  BY DEF FamilyState
<1>2. \A q \in Q : q \in ActivityState
  BY <1>1, CommandType
<1>3. \A q \in Q : /\ q.subscriptions = r.subscriptions /\ q.told = r.told
                   /\ q.parent = r.parent /\ q.releasedParent = r.releasedParent
                   /\ q.adopters = r.adopters
  BY <1>1 DEF ActivityState
<1>4. \A q \in Q : q \in FamilyState
  <2> HIDE DEF Q
  <2> QED
    BY <1>2, <1>3, SameFamily
<1> QED
  BY <1>4

LEMMA CallbackFamily ==
  ASSUME NEW r \in FamilyState, NEW v \in {"none", "idle", "calling"}
  PROVE  [r EXCEPT !.callback = v] \in FamilyState
<1> DEFINE q == [r EXCEPT !.callback = v]
<1>1. r \in ActivityState
  BY DEF FamilyState
<1>2. q \in ActivityState
  BY <1>1, CallbackType
<1>3. /\ q.subscriptions = r.subscriptions /\ q.told = r.told /\ q.parent = r.parent
      /\ q.releasedParent = r.releasedParent /\ q.adopters = r.adopters
  BY <1>1 DEF ActivityState
<1> HIDE DEF q
<1> QED
  BY <1>2, <1>3, SameFamily DEF q

LEMMA TriggerFamily ==
  ASSUME NEW r \in FamilyState, NEW v \in {"none", "idle", "armed", "fired"}
  PROVE  [r EXCEPT !.trigger = v] \in FamilyState
<1> DEFINE q == [r EXCEPT !.trigger = v]
<1>1. r \in ActivityState
  BY DEF FamilyState
<1>2. q \in ActivityState
  BY <1>1, TriggerType
<1>3. /\ q.subscriptions = r.subscriptions /\ q.told = r.told /\ q.parent = r.parent
      /\ q.releasedParent = r.releasedParent /\ q.adopters = r.adopters
  BY <1>1 DEF ActivityState
<1> HIDE DEF q
<1> QED
  BY <1>2, <1>3, SameFamily DEF q

LEMMA ScheduleFamily ==
  ASSUME NEW r \in FamilyState, NEW v \in {"none", "idle", "queued", "due"}
  PROVE  [r EXCEPT !.schedule = v] \in FamilyState
<1> DEFINE q == [r EXCEPT !.schedule = v]
<1>1. r \in ActivityState
  BY DEF FamilyState
<1>2. q \in ActivityState
  BY <1>1, ScheduleType
<1>3. /\ q.subscriptions = r.subscriptions /\ q.told = r.told /\ q.parent = r.parent
      /\ q.releasedParent = r.releasedParent /\ q.adopters = r.adopters
  BY <1>1 DEF ActivityState
<1> HIDE DEF q
<1> QED
  BY <1>2, <1>3, SameFamily DEF q

LEMMA RequirementFamily ==
  ASSUME NEW r \in FamilyState, NEW v \in {"none", "met", "unmet"}
  PROVE  [r EXCEPT !.requirement = v] \in FamilyState
<1> DEFINE q == [r EXCEPT !.requirement = v]
<1>1. r \in ActivityState
  BY DEF FamilyState
<1>2. q \in ActivityState
  BY <1>1, RequirementType
<1>3. /\ q.subscriptions = r.subscriptions /\ q.told = r.told /\ q.parent = r.parent
      /\ q.releasedParent = r.releasedParent /\ q.adopters = r.adopters
  BY <1>1 DEF ActivityState
<1> HIDE DEF q
<1> QED
  BY <1>2, <1>3, SameFamily DEF q

LEMMA PowerFamily ==
  ASSUME NEW r \in FamilyState,
         NEW v \in {"none", "unlocked", "locking", "locked", "unlocking"}
  PROVE  [r EXCEPT !.power = v] \in FamilyState
<1> DEFINE q == [r EXCEPT !.power = v]
<1>1. r \in ActivityState
  BY DEF FamilyState
<1>2. q \in ActivityState
  BY <1>1, PowerType
<1>3. /\ q.subscriptions = r.subscriptions /\ q.told = r.told /\ q.parent = r.parent
      /\ q.releasedParent = r.releasedParent /\ q.adopters = r.adopters
  BY <1>1 DEF ActivityState
<1> HIDE DEF q
<1> QED
  BY <1>2, <1>3, SameFamily DEF q

LEMMA PersistCommandsFamily ==
  ASSUME NEW r \in FamilyState, NEW commands \in Seq(PersistCommand)
  PROVE  [r EXCEPT !.persistCommands = commands] \in FamilyState
<1> DEFINE q == [r EXCEPT !.persistCommands = commands]
<1>1. r \in ActivityState
  BY DEF FamilyState
<1>2. q \in ActivityState
  BY <1>1, PersistCommandsType
<1>3. /\ q.subscriptions = r.subscriptions /\ q.told = r.told /\ q.parent = r.parent
      /\ q.releasedParent = r.releasedParent /\ q.adopters = r.adopters
  BY <1>1 DEF ActivityState
<1> HIDE DEF q
<1> QED
  BY <1>2, <1>3, SameFamily DEF q

LEMMA NewActivityFamily ==
  ASSUME NEW a \in Activities
  PROVE  NewActivity(a) \in FamilyState
<1> DEFINE r == NewActivity(a)
<1>1. r \in ActivityState
  BY NewActivityType
<1>2. /\ r.told = {} /\ r.parent = None /\ r.releasedParent = None
      /\ r.adopters = << >>
  BY DEF NewActivity
<1>3. 1..Len(r.adopters) = {}
  BY <1>2, EmptySeq
<1> HIDE DEF r
<1>4. Family(r)
  BY <1>2, <1>3 DEF Family, InLine
<1> QED
  BY <1>1, <1>4 DEF FamilyState, r

\* An event tells subscribers of the Activity only.
LEMMA BroadcastCommandFamily ==
  ASSUME NEW r \in FamilyState, NEW command \in ActivityCommand
  PROVE  BroadcastCommand(r, command) \in FamilyState
<1> DEFINE q == BroadcastCommand(r, command)
<1>1. r \in ActivityState /\ Family(r)
  BY DEF FamilyState
<1>2. q \in ActivityState
  BY <1>1, BroadcastCommandType
<1>3. /\ q.subscriptions = r.subscriptions /\ q.parent = r.parent
      /\ q.releasedParent = r.releasedParent /\ q.adopters = r.adopters
      /\ q.told \in {r.told, r.subscriptions}
  BY <1>1 DEF BroadcastCommand, ActivityState
<1> HIDE DEF q
<1>4. Family(q)
  BY <1>1, <1>3 DEF Family, InLine
<1> QED
  BY <1>2, <1>4 DEF FamilyState, q

LEMMA DoRunActivityFamily ==
  ASSUME NEW r \in FamilyState
  PROVE  DoRunActivity(r) \in FamilyState
<1> DEFINE q == BroadcastCommand(r, "start")
           v == IF q.callback = "none" THEN "none" ELSE "calling"
<1>1. q \in FamilyState
  BY BroadcastCommandFamily DEF ActivityCommand
<1>2. v \in {"none", "idle", "calling"}
  OBVIOUS
<1>3. DoRunActivity(r) = [q EXCEPT !.callback = v]
  BY DEF DoRunActivity
<1> HIDE DEF q, v
<1> QED
  BY <1>1, <1>2, <1>3, CallbackFamily

LEMMA RunActivityFamily ==
  ASSUME NEW r \in FamilyState
  PROVE  RunActivity(r) \in FamilyState
<1> DEFINE q == [r EXCEPT !.running = TRUE]
<1>1. q \in FamilyState
  BY FlagFamily
<1> HIDE DEF q
<1>2. [q EXCEPT !.power = "locking"] \in FamilyState
  BY <1>1, PowerFamily
<1> QED
  BY <1>1, <1>2, DoRunActivityFamily DEF RunActivity, q

LEMMA DisarmFamily ==
  ASSUME NEW r \in FamilyState
  PROVE  Disarm(r) \in FamilyState
<1> DEFINE q == Disarm(r)
<1>1. r \in ActivityState
  BY DEF FamilyState
<1>2. q \in ActivityState
  BY <1>1, DisarmType
<1>3. /\ q.subscriptions = r.subscriptions /\ q.told = r.told /\ q.parent = r.parent
      /\ q.releasedParent = r.releasedParent /\ q.adopters = r.adopters
  BY <1>1 DEF Disarm, ActivityState
<1> HIDE DEF q
<1> QED
  BY <1>2, <1>3, SameFamily DEF q

LEMMA AddSubscriptionFamily ==
  ASSUME NEW r \in FamilyState, NEW b \in Subscribers
  PROVE  AddSubscription(r, b) \in FamilyState
<1> DEFINE q == AddSubscription(r, b)
<1>1. r \in ActivityState /\ Family(r)
  BY DEF FamilyState
<1>2. q \in ActivityState
  BY <1>1, AddSubscriptionType
<1>3. /\ q.subscriptions = r.subscriptions \cup {b} /\ q.told = r.told
      /\ q.parent = r.parent /\ q.releasedParent = r.releasedParent
      /\ q.adopters = r.adopters
  BY <1>1 DEF AddSubscription, ActivityState
<1> HIDE DEF q
<1>4. Family(q)
  BY <1>1, <1>3 DEF Family, InLine
<1> QED
  BY <1>2, <1>4 DEF FamilyState, q

\* A subscriber becomes the parent of an Activity that has none: then nobody
\* waits for it.
LEMMA SetParentFamily ==
  ASSUME NEW r \in FamilyState, NEW b \in Subscribers,
         r.parent = None, b \in r.subscriptions
  PROVE  SetParent(r, b) \in FamilyState
<1> DEFINE q == SetParent(r, b)
<1>1. r \in ActivityState /\ Family(r)
  BY DEF FamilyState
<1>2. q \in ActivityState
  BY <1>1, SetParentType
<1>3. /\ q.subscriptions = r.subscriptions /\ q.told = r.told
      /\ q.parent = b /\ q.releasedParent = r.releasedParent
      /\ q.adopters = r.adopters
  BY <1>1 DEF SetParent, ActivityState
<1>4. r.adopters = << >>
  BY <1>1 DEF Family
<1>5. 1..Len(q.adopters) = {}
  BY <1>3, <1>4, EmptySeq
<1> HIDE DEF q
<1>6. Family(q)
  BY <1>1, <1>3, <1>4, <1>5 DEF Family, InLine
<1> QED
  BY <1>2, <1>6 DEF FamilyState, q

\* The first in line becomes the parent; the others stay in line.
LEMMA DoAdoptFamily ==
  ASSUME NEW r \in ActivityState, r.told \subseteq r.subscriptions,
         InLine(r), r.adopters # << >>
  PROVE  DoAdopt(r) \in FamilyState
<1> DEFINE q == DoAdopt(r)
           list == r.adopters
<1>1. q \in ActivityState
  BY DoAdoptType
<1>2. /\ q.subscriptions = r.subscriptions /\ q.told = r.told
      /\ q.parent = Head(list) /\ q.releasedParent = None /\ q.adopters = Tail(list)
  BY DEF DoAdopt, ActivityState
<1>3. list \in Seq(Subscribers) /\ list # << >>
  BY DEF ActivityState
<1>4. /\ Len(list) \in Nat \ {0} /\ Head(list) = list[1]
      /\ Len(Tail(list)) = Len(list) - 1
      /\ \A i \in 1..Len(Tail(list)) : Tail(list)[i] = list[i + 1]
  BY <1>3, HeadTailProperties, LenProperties, EmptySeq
<1>5. /\ \A i \in 1..Len(list) : list[i] \in r.subscriptions
      /\ \A i, j \in 1..Len(list) : list[i] = list[j] => i = j
  BY DEF InLine
<1>6. Head(list) \in Subscribers
  BY <1>3, HeadTailProperties
<1> HIDE DEF q, list
<1>7. 1 \in 1..Len(list)
  BY <1>4
<1>8. \A i \in 1..Len(Tail(list)) : i + 1 \in 1..Len(list) /\ i + 1 # 1
  BY <1>4
<1>9. \A i \in 1..Len(q.adopters) : q.adopters[i] \in q.subscriptions
  BY <1>2, <1>4, <1>5, <1>8
<1>10. \A i \in 1..Len(q.adopters) : q.adopters[i] # q.parent
  BY <1>2, <1>4, <1>5, <1>7, <1>8
<1>11. \A i, j \in 1..Len(q.adopters) : q.adopters[i] = q.adopters[j] => i = j
  <2> SUFFICES ASSUME NEW i \in 1..Len(q.adopters), NEW j \in 1..Len(q.adopters),
                      q.adopters[i] = q.adopters[j]
               PROVE  i = j
    OBVIOUS
  <2>1. i + 1 = j + 1
    BY <1>2, <1>4, <1>5, <1>8
  <2> QED
    BY <1>2, <1>4, <2>1
<1>12. q.parent # None /\ q.parent \in q.subscriptions
  BY <1>2, <1>4, <1>5, <1>6, <1>7, SubscribersAssumption
<1>13. Family(q)
  BY <1>2, <1>9, <1>10, <1>11, <1>12 DEF Family, InLine
<1> QED
  BY <1>1, <1>13 DEF FamilyState, q

\* Taking b off a list without repetitions leaves one without b.
LEMMA WithoutLine ==
  ASSUME NEW S, NEW list \in Seq(S), NEW b,
         \A i, j \in 1..Len(list) : list[i] = list[j] => i = j
  PROVE  LET rest == Without(list, b)
         IN /\ \A i \in 1..Len(rest) :
                 rest[i] # b /\ \E j \in 1..Len(list) : rest[i] = list[j]
            /\ \A i, j \in 1..Len(rest) : rest[i] = rest[j] => i = j
<1> DEFINE rest == Without(list, b)
<1>1. CASE ~ \E i \in 1..Len(list) : list[i] = b
  BY <1>1 DEF Without
<1>2. CASE \E i \in 1..Len(list) : list[i] = b
  <2> DEFINE k == CHOOSE i \in 1..Len(list) : list[i] = b
             left == SubSeq(list, 1, k - 1)
             right == SubSeq(list, k + 1, Len(list))
             At(i) == IF i < k THEN i ELSE i + 1
  <2>1. k \in 1..Len(list) /\ list[k] = b
    BY <1>2
  <2>2. Len(list) \in Nat
    BY LenProperties
  <2>3. rest = left \o right
    BY <1>2 DEF Without, RemoveAt
  <2> HIDE DEF k, rest
  <2>4. /\ \A j \in 1..(k - 1) : list[j] \in S
        /\ \A j \in (k + 1)..Len(list) : list[j] \in S
    BY <2>1, <2>2, LenProperties
  <2>5. /\ left \in Seq(S) /\ Len(left) = k - 1
        /\ \A i \in 1..(k - 1) : left[i] = list[i]
    <3>1. /\ 1 \in Int /\ k - 1 \in Int
          /\ (IF 1 <= k - 1 THEN k - 1 - 1 + 1 ELSE 0) = k - 1
      BY <2>1, <2>2
    <3>2. \A i \in 1..(k - 1) : i - 1 + 1 = i /\ 1 + i - 1 = i
      BY <2>1, <2>2
    <3> QED
      BY <2>4, <3>1, <3>2, SubSeqProperties
  <2>6. /\ right \in Seq(S) /\ Len(right) = Len(list) - k
        /\ \A i \in 1..(Len(list) - k) : right[i] = list[k + i]
    <3>1. /\ k + 1 \in Int /\ Len(list) \in Int
          /\ (IF k + 1 <= Len(list) THEN Len(list) - (k + 1) + 1 ELSE 0) = Len(list) - k
      BY <2>1, <2>2
    <3>2. \A i \in 1..(Len(list) - k) : (k + 1) + i - 1 = k + i
      BY <2>1, <2>2
    <3> QED
      BY <2>4, <3>1, <3>2, SubSeqProperties
  <2> HIDE DEF left, right
  <2>7. /\ Len(rest) = Len(left) + Len(right)
        /\ \A i \in 1..(Len(left) + Len(right)) :
             rest[i] = IF i <= Len(left) THEN left[i] ELSE right[i - Len(left)]
    BY <2>3, <2>5, <2>6, ConcatProperties
  <2>8. \A i \in 1..Len(rest) :
          /\ At(i) \in 1..Len(list) /\ At(i) # k /\ rest[i] = list[At(i)]
    <3> SUFFICES ASSUME NEW i \in 1..Len(rest)
                 PROVE  At(i) \in 1..Len(list) /\ At(i) # k /\ rest[i] = list[At(i)]
      OBVIOUS
    <3>1. Len(rest) = Len(list) - 1
      BY <2>1, <2>2, <2>5, <2>6, <2>7
    <3>2. CASE i < k
      BY <2>1, <2>2, <2>5, <2>6, <2>7, <3>1, <3>2
    <3>3. CASE ~(i < k)
      <4>1. i - Len(left) \in 1..(Len(list) - k) /\ k + (i - Len(left)) = i + 1
        BY <2>1, <2>2, <2>5, <3>1, <3>3
      <4>2. rest[i] = right[i - Len(left)]
        BY <2>1, <2>2, <2>5, <2>6, <2>7, <3>1, <3>3
      <4>3. rest[i] = list[i + 1]
        BY <2>6, <4>1, <4>2
      <4> QED
        BY <2>1, <2>2, <3>1, <3>3, <4>3
    <3> QED
      BY <3>2, <3>3
  <2>9. \A i \in 1..Len(rest) : rest[i] # b
    BY <2>1, <2>8
  <2>10. \A i, j \in 1..Len(rest) : rest[i] = rest[j] => At(i) = At(j)
    <3> HIDE DEF At
    <3> QED
      BY <2>8
  <2>11. \A i, j \in 1..Len(rest) : At(i) = At(j) => i = j
    <3> SUFFICES ASSUME NEW i \in 1..Len(rest), NEW j \in 1..Len(rest), At(i) = At(j)
                 PROVE  i = j
      OBVIOUS
    <3>1. i \in Int /\ j \in Int /\ k \in Int
      BY <2>1
    <3> QED
      BY <3>1
  <2> HIDE DEF At
  <2> QED
    BY <2>8, <2>9, <2>10, <2>11 DEF rest
<1> QED
  BY <1>1, <1>2

-----------------------------------------------------------------------------
(* Operations of the Manager.                                              *)

LEMMA MoveToFamily ==
  ASSUME NEW s \in FamilyStates, NEW a \in Activities, NEW q \in QueueName
  PROVE  Unlink(s, a) \in FamilyStates /\ MoveTo(s, a, q) \in FamilyStates
<1>1. s \in ManagerState
  BY DEF FamilyStates
<1>2. Unlink(s, a).act = s.act
  BY <1>1 DEF Unlink, ManagerState
<1>3. MoveTo(s, a, q).act = Unlink(s, a).act
  BY <1>1, UnlinkType DEF MoveTo, ManagerState
<1> QED
  BY <1>1, <1>2, <1>3, UnlinkType, MoveToType, SameActFamily

LEMMA RunFirstFamily ==
  ASSUME NEW s \in FamilyStates,
         NEW from \in QueueName, NEW to \in QueueName,
         NEW n \in 0..Len(s.queue[from])
  PROVE  RunFirst(s, n, from, to) \in FamilyStates
<1> DEFINE t == RunFirst(s, n, from, to)
<1>1. s \in ManagerState
  BY DEF FamilyStates
<1>2. t \in ManagerState
  BY <1>1, RunFirstType
<1>3. \A x \in Activities : t.act[x] \in {s.act[x], RunActivity(s.act[x])}
  BY <1>1 DEF RunFirst, ManagerState
<1> HIDE DEF t
<1>4. ASSUME NEW x \in Activities
      PROVE  Family(t.act[x])
  <2>1. s.act[x] \in FamilyState /\ RunActivity(s.act[x]) \in FamilyState
    BY ActFamily, RunActivityFamily
  <2> QED
    BY <1>3, <2>1 DEF FamilyState
<1> QED
  BY <1>2, <1>4 DEF FamilyStates, t

LEMMA CheckReadyQueueFamily ==
  ASSUME NEW s \in FamilyStates
  PROVE  CheckReadyQueue(s) \in FamilyStates
<1> DEFINE n == Room(InteractiveLevel, GetRunningBackgroundActivitiesCount(s),
                     Len(s.queue["readyInteractive"]))
           u == RunFirst(s, n, "readyInteractive", "backgroundInteractive")
           t == [u EXCEPT !.yieldTimer = n < Len(s.queue["readyInteractive"])]
           m == Room(s.level, GetRunningBackgroundActivitiesCount(t),
                     Len(t.queue["ready"]))
<1>1. /\ "ready" \in QueueName /\ "readyInteractive" \in QueueName
      /\ "background" \in QueueName /\ "backgroundInteractive" \in QueueName
  BY DEF QueueName
<1>2. s \in ManagerState
  BY DEF FamilyStates
<1>3. n \in 0..Len(s.queue["readyInteractive"])
  BY <1>1, <1>2, QueueType, BusyType, RoomType, LevelsAssumption
<1>4. u \in FamilyStates /\ u \in ManagerState
  BY <1>1, <1>3, RunFirstFamily DEF FamilyStates
<1>5. (n < Len(s.queue["readyInteractive"])) \in BOOLEAN
  OBVIOUS
<1> HIDE DEF n, u
<1>6. t \in ManagerState /\ t.act = u.act
  BY <1>4, <1>5 DEF ManagerState
<1> HIDE DEF t
<1>7. t \in FamilyStates
  BY <1>4, <1>6, SameActFamily
<1>8. s.level \in Nat
  BY <1>2, LevelsAssumption DEF ManagerState
<1>9. m \in 0..Len(t.queue["ready"])
  BY <1>1, <1>6, <1>8, QueueType, BusyType, RoomType
<1>10. RunFirst(t, m, "ready", "background") \in FamilyStates
  BY <1>1, <1>7, <1>9, RunFirstFamily
<1> QED
  BY <1>10 DEF CheckReadyQueue, n, t, u

LEMMA InformActivityReadyFamily ==
  ASSUME NEW s \in FamilyStates, NEW a \in Activities
  PROVE  InformActivityReady(s, a) \in FamilyStates
<1> DEFINE line == IF a \in UserInitiated THEN "readyInteractive" ELSE "ready"
<1>1. line \in QueueName /\ "immediate" \in QueueName
  BY DEF QueueName
<1> HIDE DEF line
<1>2. MoveTo(s, a, "immediate") \in FamilyStates /\ MoveTo(s, a, line) \in FamilyStates
  BY <1>1, MoveToFamily
<1>3. SetAct(MoveTo(s, a, "immediate"), a, RunActivity(s.act[a])) \in FamilyStates
  BY <1>2, ActFamily, RunActivityFamily, SetActFamily
<1>4. CheckReadyQueue(MoveTo(s, a, line)) \in FamilyStates
  BY <1>2, CheckReadyQueueFamily
<1> QED
  BY <1>3, <1>4 DEF InformActivityReady, line

LEMMA InformActivityNotReadyFamily ==
  ASSUME NEW s \in FamilyStates, NEW a \in Activities
  PROVE  InformActivityNotReady(s, a) \in FamilyStates
BY MoveToFamily DEF InformActivityNotReady, QueueName

LEMMA InformActivityEndFamily ==
  ASSUME NEW s \in FamilyStates, NEW a \in Activities
  PROVE  InformActivityEnd(s, a) \in FamilyStates
BY MoveToFamily, CheckReadyQueueFamily DEF InformActivityEnd, QueueName

LEMMA ReleaseActivityFamily ==
  ASSUME NEW s \in FamilyStates, NEW a \in Activities
  PROVE  ReleaseActivity(s, a) \in FamilyStates
<1> DEFINE r == [s.act[a] EXCEPT !.life = "released"]
<1>1. s.act[a] \in FamilyState /\ s.act[a] \in ActivityState
  BY ActFamily DEF FamilyState
<1>2. r \in ActivityState
  BY <1>1 DEF ActivityState
<1>3. /\ r.subscriptions = s.act[a].subscriptions /\ r.told = s.act[a].told
      /\ r.parent = s.act[a].parent /\ r.releasedParent = s.act[a].releasedParent
      /\ r.adopters = s.act[a].adopters
  BY <1>1 DEF ActivityState
<1> HIDE DEF r
<1>4. r \in FamilyState
  BY <1>1, <1>2, <1>3, SameFamily
<1>5. SetAct(Unlink(s, a), a, r) \in FamilyStates
  BY <1>4, MoveToFamily, SetActFamily DEF QueueName
<1> QED
  BY <1>5, CheckReadyQueueFamily DEF ReleaseActivity, r

LEMMA RequestRunActivityFamily ==
  ASSUME NEW s \in FamilyStates, NEW a \in Activities
  PROVE  RequestRunActivity(s, a) \in FamilyStates
<1>1. [s.act[a] EXCEPT !.ready = TRUE] \in FamilyState
  BY ActFamily, FlagFamily
<1> QED
  BY <1>1, SetActFamily, InformActivityReadyFamily DEF RequestRunActivity

LEMMA ScheduleActivityFamily ==
  ASSUME NEW s \in FamilyStates, NEW a \in Activities
  PROVE  ScheduleActivity(s, a) \in FamilyStates
<1> DEFINE p == s.act[a]
           trigger  == IF p.trigger = "none" THEN "none" ELSE "armed"
           schedule == IF p.schedule = "none" THEN "none" ELSE "queued"
           o == [p EXCEPT !.trigger = trigger]
           q == [o EXCEPT !.schedule = schedule]
           r == [q EXCEPT !.scheduled = TRUE]
<1>1. p \in FamilyState
  BY ActFamily
<1>2. /\ trigger \in {"none", "idle", "armed", "fired"}
      /\ schedule \in {"none", "idle", "queued", "due"}
  OBVIOUS
<1> HIDE DEF p, trigger, schedule
<1>3. o \in FamilyState
  BY <1>1, <1>2, TriggerFamily
<1> HIDE DEF o
<1>4. q \in FamilyState
  BY <1>2, <1>3, ScheduleFamily
<1> HIDE DEF q
<1>5. r \in FamilyState
  BY <1>4, FlagFamily
<1> HIDE DEF r
<1>6. SetAct(s, a, r) \in FamilyStates /\ RequestRunActivity(SetAct(s, a, r), a) \in FamilyStates
  BY <1>5, SetActFamily, RequestRunActivityFamily
<1>7. r = [p EXCEPT !.trigger = trigger, !.schedule = schedule, !.scheduled = TRUE]
  BY DEF o, q, r
<1> QED
  BY <1>6, <1>7 DEF ScheduleActivity, p, trigger, schedule

LEMMA RequestScheduleActivityFamily ==
  ASSUME NEW s \in FamilyStates, NEW a \in Activities
  PROVE  RequestScheduleActivity(s, a) \in FamilyStates
<1> DEFINE t == SetAct(s, a, [s.act[a] EXCEPT !.initialized = TRUE])
<1>1. [s.act[a] EXCEPT !.initialized = TRUE] \in FamilyState
  BY ActFamily, FlagFamily
<1>2. t \in FamilyStates
  BY <1>1, SetActFamily
<1> HIDE DEF t
<1>3. MoveTo(t, a, "scheduled") \in FamilyStates /\ MoveTo(t, a, "initialized") \in FamilyStates
  BY <1>2, MoveToFamily DEF QueueName
<1> QED
  BY <1>3, ScheduleActivityFamily DEF RequestScheduleActivity, t

LEMMA DevelFamily ==
  ASSUME NEW s \in FamilyStates
  PROVE  /\ \A n \in Levels : SetBackgroundConcurrencyLevel(s, n) \in FamilyStates
         /\ \A a \in Activities : EvictBackgroundActivity(s, a) \in FamilyStates
         /\ EvictAllBackgroundActivities(s) \in FamilyStates
         /\ \A a \in Activities : RunReadyBackgroundActivity(s, a) \in FamilyStates
         /\ RunAllReadyActivities(s) \in FamilyStates
<1>1. s \in ManagerState
  BY DEF FamilyStates
<1>2. ASSUME NEW n \in Levels
      PROVE  SetBackgroundConcurrencyLevel(s, n) \in FamilyStates
  <2>1. [s EXCEPT !.level = n] \in ManagerState /\ [s EXCEPT !.level = n].act = s.act
    BY <1>1 DEF ManagerState
  <2> QED
    BY <2>1, SameActFamily, CheckReadyQueueFamily DEF SetBackgroundConcurrencyLevel
<1>3. ASSUME NEW a \in Activities
      PROVE  EvictBackgroundActivity(s, a) \in FamilyStates
  BY MoveToFamily, CheckReadyQueueFamily DEF EvictBackgroundActivity, QueueName
<1>4. EvictAllBackgroundActivities(s) \in FamilyStates
  <2> DEFINE long == s.queue["longBackground"] \o s.queue["background"]
             t == [s EXCEPT !.queue["longBackground"] = long, !.queue["background"] = << >>]
  <2>1. long \in Seq(Activities) /\ << >> \in Seq(Activities)
    BY <1>1, QueueType, ConcatProperties, EmptySeq DEF QueueName
  <2> HIDE DEF long
  <2>2. t \in ManagerState /\ t.act = s.act
    BY <1>1, <2>1 DEF ManagerState
  <2> QED
    BY <2>2, SameActFamily, CheckReadyQueueFamily DEF EvictAllBackgroundActivities, long
<1>5. ASSUME NEW a \in Activities
      PROVE  RunReadyBackgroundActivity(s, a) \in FamilyStates
  <2>1. /\ MoveTo(s, a, "background") \in FamilyStates
        /\ MoveTo(s, a, "backgroundInteractive") \in FamilyStates
    BY MoveToFamily DEF QueueName
  <2>2. RunActivity(s.act[a]) \in FamilyState
    BY ActFamily, RunActivityFamily
  <2>3. /\ SetAct(MoveTo(s, a, "background"), a, RunActivity(s.act[a])) \in FamilyStates
        /\ SetAct(MoveTo(s, a, "backgroundInteractive"), a, RunActivity(s.act[a]))
             \in FamilyStates
    BY <2>1, <2>2, SetActFamily
  <2> QED
    BY <2>3 DEF RunReadyBackgroundActivity
<1>6. RunAllReadyActivities(s) \in FamilyStates
  <2> DEFINE t == RunFirst(s, Len(s.queue["readyInteractive"]),
                           "readyInteractive", "backgroundInteractive")
  <2>1. /\ "ready" \in QueueName /\ "readyInteractive" \in QueueName
        /\ "background" \in QueueName /\ "backgroundInteractive" \in QueueName
    BY DEF QueueName
  <2>2. Len(s.queue["readyInteractive"]) \in 0..Len(s.queue["readyInteractive"])
    BY <1>1, <2>1, QueueType
  <2>3. t \in FamilyStates /\ t \in ManagerState
    BY <2>1, <2>2, RunFirstFamily DEF FamilyStates
  <2> HIDE DEF t
  <2>4. Len(t.queue["ready"]) \in 0..Len(t.queue["ready"])
    BY <2>1, <2>3, QueueType
  <2> QED
    BY <2>1, <2>3, <2>4, RunFirstFamily DEF RunAllReadyActivities, t
<1> QED
  BY <1>2, <1>3, <1>4, <1>5, <1>6

-----------------------------------------------------------------------------
(* The lifecycle.                                                          *)

LEMMA NextCommandFamily ==
  ASSUME NEW r \in FamilyState
  PROVE  ComputeNextExternalCommand(r) \in ActivityCommand
BY NextCommandType DEF FamilyState

LEMMA AdvanceFamily ==
  ASSUME NEW s \in FamilyStates, NEW a \in Activities
  PROVE  Advance(s, a) \in FamilyStates
<1>1. BroadcastCommand(s.act[a], ComputeNextExternalCommand(s.act[a])) \in FamilyState
  BY ActFamily, NextCommandFamily, BroadcastCommandFamily
<1>2. SetAct(s, a, BroadcastCommand(s.act[a], ComputeNextExternalCommand(s.act[a])))
        \in FamilyStates
  BY <1>1, SetActFamily
<1> QED
  BY <1>2, RequestRunActivityFamily DEF Advance

LEMMA RequeueActivityFamily ==
  ASSUME NEW s \in FamilyStates, NEW a \in Activities
  PROVE  RequeueActivity(s, a) \in FamilyStates
<1> DEFINE r == [s.act[a] EXCEPT !.running = FALSE, !.ending = FALSE,
                                 !.restart = FALSE, !.requeue = FALSE,
                                 !.yielding = FALSE]
           t == SetAct(s, a, r)
<1>1. r \in FamilyState
  BY ActFamily, FlagFamily
<1> HIDE DEF r
<1>2. [r EXCEPT !.ready = FALSE] \in FamilyState
  BY <1>1, FlagFamily
<1>3. t \in FamilyStates /\ SetAct(t, a, [r EXCEPT !.ready = FALSE]) \in FamilyStates
  BY <1>1, <1>2, SetActFamily
<1> HIDE DEF t
<1> QED
  BY <1>3, RequestRunActivityFamily, InformActivityNotReadyFamily DEF RequeueActivity, r, t

LEMMA RestartActivityFamily ==
  ASSUME NEW s \in FamilyStates, NEW a \in Activities
  PROVE  RestartActivity(s, a) \in FamilyStates
<1> DEFINE p == [s.act[a] EXCEPT !.initialized = FALSE, !.scheduled = FALSE,
                                 !.ready = FALSE, !.running = FALSE,
                                 !.ending = FALSE, !.restart = FALSE,
                                 !.requeue = FALSE, !.yielding = FALSE]
           r == [p EXCEPT !.intCommand = "none", !.extCommand = "none",
                          !.sentCommand = "none"]
           t == RequestScheduleActivity(SetAct(s, a, r), a)
<1>1. p \in FamilyState
  BY ActFamily, FlagFamily
<1> HIDE DEF p
<1>2. r \in FamilyState
  BY <1>1, CommandFamily DEF ActivityCommand
<1> HIDE DEF r
<1>3. t \in FamilyStates
  BY <1>2, SetActFamily, RequestScheduleActivityFamily
<1> HIDE DEF t
<1>4. [t.act[a] EXCEPT !.extCommand = "start"] \in FamilyState
  BY <1>3, ActFamily, CommandFamily DEF ActivityCommand
<1>5. SetAct(t, a, [t.act[a] EXCEPT !.extCommand = "start"]) \in FamilyStates
  BY <1>3, <1>4, SetActFamily
<1> QED
  BY <1>5, AdvanceFamily DEF RestartActivity, p, r, t

LEMMA EndActivityFamily ==
  ASSUME NEW s \in FamilyStates, NEW a \in Activities
  PROVE  EndActivity(s, a) \in FamilyStates
<1> DEFINE r == Disarm([s.act[a] EXCEPT !.ending = TRUE])
           t == SetAct(s, a, r)
<1>1. r \in FamilyState
  BY ActFamily, FlagFamily, DisarmFamily
<1> HIDE DEF r
<1>2. [r EXCEPT !.power = "unlocking"] \in FamilyState
  BY <1>1, PowerFamily
<1>3. t \in FamilyStates
  BY <1>1, SetActFamily
<1> HIDE DEF t
<1>4. SetAct(t, a, [r EXCEPT !.power = "unlocking"]) \in FamilyStates
  BY <1>2, <1>3, SetActFamily
<1>5. Finish(t, a) \in FamilyStates
  BY <1>3, InformActivityEndFamily, RequeueActivityFamily, RestartActivityFamily,
     ReleaseActivityFamily DEF Finish
<1> QED
  BY <1>3, <1>4, <1>5 DEF EndActivity, r, t

LEMMA SendCommandFamily ==
  ASSUME NEW s \in FamilyStates, NEW a \in Activities,
         NEW command \in ActivityCommand, NEW internal \in BOOLEAN
  PROVE  SendCommand(s, a, command, internal) \in FamilyStates
<1> DEFINE t == IF ~internal /\ command = "start"
                   /\ ~s.act[a].initialized /\ ~s.act[a].ending
                THEN RequestScheduleActivity(s, a) ELSE s
           r == IF internal THEN [t.act[a] EXCEPT !.intCommand = command]
                ELSE [t.act[a] EXCEPT !.extCommand = command]
           next == ComputeNextExternalCommand(r)
<1>1. t \in FamilyStates
  BY RequestScheduleActivityFamily
<1> HIDE DEF t
<1>2. /\ [t.act[a] EXCEPT !.intCommand = command] \in FamilyState
      /\ [t.act[a] EXCEPT !.extCommand = command] \in FamilyState
  BY <1>1, ActFamily, CommandFamily
<1>3. r \in FamilyState
  BY <1>2
<1> HIDE DEF r
<1>4. next \in ActivityCommand
  BY <1>3, NextCommandFamily
<1> HIDE DEF next
<1>5. SetAct(t, a, r) \in FamilyStates
  BY <1>1, <1>3, SetActFamily
<1>6. SetAct(t, a, BroadcastCommand(r, next)) \in FamilyStates
  BY <1>1, <1>3, <1>4, BroadcastCommandFamily, SetActFamily
<1> QED
  BY <1>1, <1>5, <1>6, EndActivityFamily, AdvanceFamily DEF SendCommand, t, r, next

LEMMA RunIfRunnableFamily ==
  ASSUME NEW s \in FamilyStates, NEW a \in Activities
  PROVE  RunIfRunnable(s, a) \in FamilyStates
BY RequestRunActivityFamily DEF RunIfRunnable

LEMMA WithdrawIfReadyFamily ==
  ASSUME NEW s \in FamilyStates, NEW a \in Activities
  PROVE  WithdrawIfReady(s, a) \in FamilyStates
<1>1. [s.act[a] EXCEPT !.ready = FALSE] \in FamilyState
  BY ActFamily, FlagFamily
<1> QED
  BY <1>1, SetActFamily, InformActivityNotReadyFamily DEF WithdrawIfReady

-----------------------------------------------------------------------------
(* Subscribers.                                                            *)

\* Who leaves is taken out of every part; if it was the parent, the first in
\* line takes its place.
LEMMA RemoveSubscriptionFamily ==
  ASSUME NEW s \in FamilyStates, NEW a \in Activities, NEW b \in Subscribers
  PROVE  RemoveSubscription(s, a, b) \in FamilyStates
<1> DEFINE r == s.act[a]
           waiting == Without(r.adopters, b)
           lost == r.parent = b
           subscriptions == r.subscriptions \ {b}
           told == r.told \ {b}
           releasedParent == IF r.releasedParent = b THEN None ELSE r.releasedParent
           parent == IF ~lost THEN r.parent
                     ELSE IF waiting = << >> THEN None ELSE Head(waiting)
           adopters == IF lost /\ waiting # << >> THEN Tail(waiting) ELSE waiting
           q == [r EXCEPT !.subscriptions = subscriptions, !.told = told,
                          !.releasedParent = releasedParent, !.parent = parent,
                          !.adopters = adopters]
           t == SetAct(s, a, q)
<1>1. r \in ActivityState /\ Family(r)
  BY ActFamily DEF FamilyState
<1>2. /\ r.subscriptions \subseteq Subscribers /\ r.told \subseteq Subscribers
      /\ r.parent \in Subscribers \cup {None}
      /\ r.releasedParent \in Subscribers \cup {None}
      /\ r.adopters \in Seq(Subscribers)
  BY <1>1 DEF ActivityState
<1> HIDE DEF r
<1>3. waiting \in Seq(Subscribers)
  BY <1>2, WithoutType
<1>4. /\ \A i \in 1..Len(waiting) : waiting[i] # b
      /\ \A i \in 1..Len(waiting) :
           \E j \in 1..Len(r.adopters) : waiting[i] = r.adopters[j]
      /\ \A i, j \in 1..Len(waiting) : waiting[i] = waiting[j] => i = j
  BY <1>1, <1>2, WithoutLine DEF Family, InLine
<1>5. waiting # << >> => r.adopters # << >>
  BY <1>2, <1>3, <1>4, EmptySeq, LenProperties
<1> HIDE DEF waiting
<1>6. /\ Len(waiting) \in Nat
      /\ waiting # << >> =>
           /\ Len(waiting) # 0
           /\ Head(waiting) = waiting[1] /\ Head(waiting) \in Subscribers
           /\ Tail(waiting) \in Seq(Subscribers)
           /\ Len(Tail(waiting)) = Len(waiting) - 1
           /\ \A i \in 1..Len(Tail(waiting)) : Tail(waiting)[i] = waiting[i + 1]
  BY <1>3, HeadTailProperties, LenProperties, EmptySeq
<1>7. \A i \in 1..Len(waiting) :
        waiting[i] \in r.subscriptions /\ waiting[i] # b /\ waiting[i] # r.parent
  BY <1>1, <1>4 DEF Family, InLine
<1>8. /\ subscriptions \in SUBSET Subscribers /\ told \in SUBSET Subscribers
      /\ releasedParent \in Subscribers \cup {None}
      /\ told \subseteq subscriptions
      /\ releasedParent # None => releasedParent \in subscriptions
  BY <1>1, <1>2 DEF Family
<1>9. parent \in Subscribers \cup {None} /\ adopters \in Seq(Subscribers)
  BY <1>2, <1>3, <1>6
<1>10. /\ parent # None => parent \in subscriptions
       /\ adopters # << >> => parent # None
       /\ \A i \in 1..Len(adopters) : adopters[i] \in subscriptions /\ adopters[i] # parent
       /\ \A i, j \in 1..Len(adopters) : adopters[i] = adopters[j] => i = j
  <2>1. CASE lost /\ waiting # << >>
    <3>1. parent = waiting[1] /\ adopters = Tail(waiting)
      BY <1>6, <2>1
    <3>2. 1 \in 1..Len(waiting)
      BY <1>6, <2>1
    <3>3. \A i \in 1..Len(adopters) :
            i + 1 \in 1..Len(waiting) /\ i + 1 # 1 /\ adopters[i] = waiting[i + 1]
      BY <1>6, <2>1, <3>1
    <3>4. parent \in subscriptions /\ parent # None
      BY <1>6, <1>7, <2>1, <3>1, <3>2, SubscribersAssumption
    <3> HIDE DEF parent, adopters
    <3>5. \A i \in 1..Len(adopters) : adopters[i] \in subscriptions /\ adopters[i] # parent
      BY <1>4, <1>7, <3>1, <3>2, <3>3
    <3>6. \A i, j \in 1..Len(adopters) : adopters[i] = adopters[j] => i = j
      <4> SUFFICES ASSUME NEW i \in 1..Len(adopters), NEW j \in 1..Len(adopters),
                          adopters[i] = adopters[j]
                   PROVE  i = j
        OBVIOUS
      <4>1. i + 1 = j + 1
        BY <1>4, <3>3
      <4> QED
        BY <4>1
    <3> QED
      BY <3>4, <3>5, <3>6
  <2>2. CASE ~lost
    <3>1. parent = r.parent /\ adopters = waiting /\ r.parent # b
      BY <2>2
    <3> HIDE DEF parent, adopters
    <3> QED
      BY <1>1, <1>4, <1>5, <1>7, <3>1 DEF Family
  <2>3. CASE lost /\ waiting = << >>
    <3>1. parent = None /\ adopters = << >> /\ 1..Len(adopters) = {}
      BY <2>3, EmptySeq
    <3> HIDE DEF parent, adopters
    <3> QED
      BY <3>1
  <2> QED
    BY <2>1, <2>2, <2>3
<1> HIDE DEF subscriptions, told, releasedParent, parent, adopters, lost
<1>11. q \in ActivityState
  BY <1>1, <1>8, <1>9, FamilyType
<1>12. /\ q.subscriptions = subscriptions /\ q.told = told
       /\ q.parent = parent /\ q.releasedParent = releasedParent
       /\ q.adopters = adopters
  BY <1>1 DEF ActivityState
<1> HIDE DEF q
<1>13. q \in FamilyState
  BY <1>8, <1>10, <1>11, <1>12 DEF FamilyState, Family, InLine
<1>14. t \in FamilyStates
  BY <1>13, SetActFamily
<1> HIDE DEF t
<1>15. EndActivity(t, a) \in FamilyStates /\ Orphaned(t, a) \in FamilyStates
  BY <1>14, EndActivityFamily, SendCommandFamily DEF Orphaned, ActivityCommand, FinalCommand
<1> QED
  BY <1>14, <1>15
     DEF RemoveSubscription, r, waiting, q, t, subscriptions, told,
         releasedParent, parent, adopters, lost

\* A new subscriber adopts: it is not in line yet.
LEMMA AdoptFamily ==
  ASSUME NEW s \in FamilyStates, NEW a \in Activities, NEW b \in Subscribers,
         b \notin s.act[a].subscriptions
  PROVE  Adopt(SetAct(s, a, AddSubscription(s.act[a], b)), a, b) \in FamilyStates
<1> DEFINE o == s.act[a]
           p == AddSubscription(o, b)
           list == p.adopters
           adopters == Append(list, b)
           r == [p EXCEPT !.adopters = adopters]
           t == SetAct(s, a, p)
<1>1. o \in ActivityState /\ Family(o) /\ b \notin o.subscriptions
  BY ActFamily DEF FamilyState
<1>2. p \in FamilyState /\ p \in ActivityState /\ Family(p)
  BY ActFamily, AddSubscriptionFamily DEF FamilyState
<1>3. /\ p.subscriptions = o.subscriptions \cup {b} /\ p.told = o.told
      /\ p.parent = o.parent /\ list = o.adopters
  BY <1>1 DEF AddSubscription, ActivityState
<1>4. b # p.parent /\ b \in p.subscriptions
  <2>1. b # None
    BY SubscribersAssumption
  <2> QED
    BY <1>1, <1>3, <2>1 DEF Family
<1>5. t \in FamilyStates /\ t.act[a] = p
  <2>1. s \in ManagerState
    BY DEF FamilyStates
  <2> QED
    BY <1>2, <2>1, SetActFamily DEF SetAct, ManagerState
<1>6. \A i \in 1..Len(list) : list[i] # b
  BY <1>1, <1>3 DEF Family, InLine
<1> HIDE DEF o, p, t
<1>7. list \in Seq(Subscribers)
  BY <1>2 DEF ActivityState
<1>8. /\ \A i \in 1..Len(list) : list[i] \in p.subscriptions /\ list[i] # p.parent
      /\ \A i, j \in 1..Len(list) : list[i] = list[j] => i = j
  BY <1>2 DEF Family, InLine
<1> HIDE DEF list
<1>9. /\ adopters \in Seq(Subscribers) /\ adopters # << >>
      /\ Len(list) \in Nat /\ Len(adopters) = Len(list) + 1
      /\ \A i \in 1..Len(list) : adopters[i] = list[i]
      /\ adopters[Len(list) + 1] = b
  BY <1>7, AppendProperties, LenProperties
<1> HIDE DEF adopters
<1>10. \A i \in 1..Len(adopters) : i \in 1..Len(list) \/ (i = Len(list) + 1 /\ adopters[i] = b)
  BY <1>9
<1>11. \A i \in 1..Len(adopters) :
         adopters[i] \in p.subscriptions /\ adopters[i] # p.parent
  BY <1>4, <1>8, <1>9, <1>10
<1>12. \A i, j \in 1..Len(adopters) : adopters[i] = adopters[j] => i = j
  BY <1>6, <1>8, <1>9, <1>10
<1>13. /\ r \in ActivityState /\ r.adopters = adopters
       /\ r.subscriptions = p.subscriptions /\ r.told = p.told
       /\ r.parent = p.parent /\ r.releasedParent = p.releasedParent
  BY <1>2, <1>9 DEF ActivityState
<1> HIDE DEF r
<1>14. InLine(r) /\ r.told \subseteq r.subscriptions /\ r.adopters # << >>
  BY <1>2, <1>9, <1>11, <1>12, <1>13 DEF InLine, Family
<1>15. DoAdopt(r) \in FamilyState
  BY <1>13, <1>14, DoAdoptFamily
<1>16. r.parent # None => r \in FamilyState
  BY <1>2, <1>11, <1>13, <1>14 DEF FamilyState, Family
<1>17. Adopt(t, a, b) \in FamilyStates
  <2>1. (IF r.parent # None THEN r ELSE DoAdopt(r)) \in FamilyState
    BY <1>15, <1>16
  <2>2. Adopt(t, a, b) = SetAct(t, a, IF r.parent # None THEN r ELSE DoAdopt(r))
    BY <1>5 DEF Adopt, r, adopters, list
  <2> QED
    BY <1>5, <2>1, <2>2, SetActFamily
<1> QED
  BY <1>17 DEF o, p, t

\* The parent is a released one from now on, and the first in line, if there
\* is one, its heir.
LEMMA ReleaseFamily ==
  ASSUME NEW s \in FamilyStates, NEW a \in Activities
  PROVE  Release(s, a) \in FamilyStates
<1> DEFINE p == s.act[a]
           r == [p EXCEPT !.releasedParent = p.parent, !.parent = None, !.released = TRUE]
<1>1. p \in ActivityState /\ Family(p)
  BY ActFamily DEF FamilyState
<1> HIDE DEF p
<1>2. p.parent \in Subscribers \cup {None}
  BY <1>1 DEF ActivityState
<1>3. /\ r \in ActivityState
      /\ r.subscriptions = p.subscriptions /\ r.told = p.told
      /\ r.parent = None /\ r.releasedParent = p.parent /\ r.adopters = p.adopters
  BY <1>1, <1>2 DEF ActivityState
<1> HIDE DEF r
<1>4. InLine(r) /\ r.told \subseteq r.subscriptions
  BY <1>1, <1>3 DEF Family, InLine
<1>5. r.adopters # << >> => DoAdopt(r) \in FamilyState
  BY <1>3, <1>4, DoAdoptFamily
<1>6. r.adopters = << >> => r \in FamilyState
  <2>1. r.adopters = << >> => 1..Len(r.adopters) = {}
    BY EmptySeq
  <2> QED
    BY <1>1, <1>3, <1>4, <2>1 DEF FamilyState, Family
<1>7. (IF r.adopters # << >> THEN DoAdopt(r) ELSE r) \in FamilyState
  BY <1>5, <1>6
<1>8. SetAct(s, a, IF r.adopters # << >> THEN DoAdopt(r) ELSE r) \in FamilyStates
  BY <1>7, SetActFamily
<1> QED
  BY <1>8 DEF Release, p, r

LEMMA YieldActivityFamily ==
  ASSUME NEW s \in FamilyStates, NEW a \in Activities
  PROVE  YieldActivity(s, a) \in FamilyStates
<1> DEFINE p == s.act[a]
           q == [p EXCEPT !.yielding = TRUE, !.requeue = TRUE]
           r == [q EXCEPT !.told = p.subscriptions]
<1>1. p \in FamilyState
  BY ActFamily
<1> HIDE DEF p
<1>2. q \in FamilyState /\ q \in ActivityState /\ Family(q)
  BY <1>1, FlagFamily DEF FamilyState
<1>3. p.subscriptions \in SUBSET Subscribers /\ q.subscriptions = p.subscriptions
  BY <1>1 DEF FamilyState, ActivityState
<1> HIDE DEF q
<1>4. /\ r \in ActivityState /\ r.told = q.subscriptions
      /\ r.subscriptions = q.subscriptions /\ r.parent = q.parent
      /\ r.releasedParent = q.releasedParent /\ r.adopters = q.adopters
  BY <1>2, <1>3 DEF ActivityState
<1> HIDE DEF r
<1>5. r \in FamilyState
  BY <1>2, <1>4 DEF FamilyState, Family, InLine
<1> QED
  BY <1>5, SetActFamily, EndActivityFamily DEF YieldActivity, p, q, r

-----------------------------------------------------------------------------
(* Persist commands, and the calls that wait for them.                     *)

LEMMA FinishCallFamily ==
  ASSUME NEW s \in FamilyStates, NEW a \in Activities, NEW command \in PersistCommand
  PROVE  FinishCall(s, a, command) \in FamilyStates
<1>1. /\ command.finish \in {"create", "end", "restart"}
      /\ command.sub \in Subscribers \cup {None}
  BY DEF PersistCommand
<1>2. ASSUME NEW b \in Subscribers \cup {None}, NEW start
      PROVE  FinishCreateActivity(s, a, b, start) \in FamilyStates
  <2> DEFINE p == s.act[a]
             r == IF b = None THEN p ELSE AddSubscription(p, b)
             q == IF b = None THEN r ELSE SetParent(r, b)
             u == SetAct(s, a, r)
             t == SetAct(s, a, q)
  <2>1. p \in FamilyState /\ p \in ActivityState
    BY ActFamily DEF FamilyState
  <2> HIDE DEF p
  <2>2. r \in FamilyState
    BY <1>2, <2>1, AddSubscriptionFamily
  <2>3. b # None => r.parent = p.parent /\ b \in r.subscriptions
    BY <2>1 DEF AddSubscription, ActivityState
  <2> HIDE DEF r
  <2>4. b = None \/ r.parent = None => q \in FamilyState
    BY <1>2, <2>2, <2>3, SetParentFamily
  <2> HIDE DEF q
  <2>5. u \in FamilyStates /\ (b = None \/ r.parent = None => t \in FamilyStates)
    BY <2>2, <2>4, SetActFamily
  <2> HIDE DEF t, u
  <2>6. t \in FamilyStates => SendCommand(t, a, "start", FALSE) \in FamilyStates
    BY SendCommandFamily DEF ActivityCommand
  <2> QED
    BY <2>5, <2>6 DEF FinishCreateActivity, p, q, r, t, u
<1>3. FinishEnd(s, a) \in FamilyStates
  BY ActFamily, FlagFamily, SetActFamily DEF FinishEnd
<1> QED
  BY <1>1, <1>2, <1>3 DEF FinishCall

LEMMA EnsureCompletionFamily ==
  ASSUME NEW s \in FamilyStates, NEW a \in Activities, NEW command \in PersistCommand
  PROVE  EnsureCompletion(s, a, command) \in FamilyStates
<1> DEFINE r == s.act[a]
           commands == Append(r.persistCommands, command)
<1>1. r \in FamilyState /\ r \in ActivityState
  BY ActFamily DEF FamilyState
<1> HIDE DEF r
<1>2. commands \in Seq(PersistCommand)
  BY <1>1, AppendProperties DEF ActivityState
<1> HIDE DEF commands
<1>3. SetAct(s, a, [r EXCEPT !.persistCommands = commands]) \in FamilyStates
  <2>1. [r EXCEPT !.persistCommands = commands] \in FamilyState
    BY <1>1, <1>2, PersistCommandsFamily
  <2> QED
    BY <2>1, SetActFamily
<1>4. HookPersistCommand(s, a, command) \in FamilyStates
  BY <1>3, SMTT(60) DEF HookPersistCommand, r, commands
<1> QED
  BY <1>4, FinishCallFamily DEF EnsureCompletion

LEMMA CompletePersistCommandFamily ==
  ASSUME NEW s \in FamilyStates, NEW a \in Activities,
         s.act[a].persistCommands # << >>
  PROVE  CompletePersistCommand(s, a) \in FamilyStates
<1> DEFINE command == Head(s.act[a].persistCommands)
           t == FinishCall(s, a, command)
           p == t.act[a]
           rest == Tail(p.persistCommands)
           r == [p EXCEPT !.persistCommands = rest]
           u == SetAct(t, a, r)
<1>1. s \in ManagerState
  BY DEF FamilyStates
<1>2. s.act[a].persistCommands \in Seq(PersistCommand)
  BY <1>1, ActType DEF ActivityState
<1>3. command \in PersistCommand /\ Tail(s.act[a].persistCommands) \in Seq(PersistCommand)
  BY <1>2, HeadTailProperties
<1> HIDE DEF command
<1>4. t \in FamilyStates /\ p.persistCommands = s.act[a].persistCommands
  BY <1>1, <1>3, FinishCallStep, FinishCallFamily
<1> HIDE DEF t
<1>5. rest \in Seq(PersistCommand) /\ p \in FamilyState
  BY <1>3, <1>4, ActFamily
<1> HIDE DEF p, rest
<1>6. r \in FamilyState
  BY <1>5, PersistCommandsFamily
<1> HIDE DEF r
<1>7. u \in FamilyStates
  BY <1>4, <1>6, SetActFamily
<1> HIDE DEF u
<1>8. EndActivity(u, a) \in FamilyStates
  BY <1>7, EndActivityFamily
<1> QED
  BY <1>7, <1>8 DEF CompletePersistCommand, command, t, p, rest, r, u

LEMMA EndCallFamily ==
  ASSUME NEW s \in FamilyStates, NEW a \in Activities, NEW command \in FinalCommand
  PROVE  EndCall(s, a, command) \in FamilyStates
<1> DEFINE t == SetAct(s, a, [s.act[a] EXCEPT !.terminate = TRUE])
           u == SendCommand(t, a, command, FALSE)
           end == [finish |-> "end", sub |-> None, start |-> FALSE]
<1>1. t \in FamilyStates
  BY ActFamily, FlagFamily, SetActFamily
<1> HIDE DEF t
<1>2. command \in ActivityCommand /\ FALSE \in BOOLEAN
  BY DEF ActivityCommand
<1>3. u \in FamilyStates
  BY <1>1, <1>2, SendCommandFamily
<1> HIDE DEF u
<1>4. end \in PersistCommand
  BY DEF PersistCommand
<1> HIDE DEF end
<1>5. EnsureCompletion(u, a, end) \in FamilyStates
  BY <1>3, <1>4, EnsureCompletionFamily
<1> QED
  BY <1>1, <1>5 DEF EndCall, t, u, end

LEMMA UpdateActivityFamily ==
  ASSUME NEW s \in FamilyStates, NEW a \in Activities, NEW update \in UpdateName
  PROVE  UpdateActivity(s, a, update) \in FamilyStates
<1> DEFINE r == s.act[a]
<1>1. r \in FamilyState
  BY ActFamily
<1>2. ASSUME NEW q \in FamilyState
      PROVE  /\ SetAct(s, a, q) \in FamilyStates
             /\ WithdrawIfReady(SetAct(s, a, q), a) \in FamilyStates
             /\ RunIfRunnable(SetAct(s, a, q), a) \in FamilyStates
  BY <1>2, SetActFamily, WithdrawIfReadyFamily, RunIfRunnableFamily
<1> HIDE DEF r
<1>3. /\ [r EXCEPT !.trigger = "idle"] \in FamilyState
      /\ [r EXCEPT !.trigger = "none"] \in FamilyState
  BY <1>1, TriggerFamily
<1>4. /\ [r EXCEPT !.schedule = "idle"] \in FamilyState
      /\ [r EXCEPT !.schedule = "none"] \in FamilyState
  BY <1>1, ScheduleFamily
<1>5. [r EXCEPT !.callback = "idle"] \in FamilyState
  BY <1>1, CallbackFamily
<1>6. /\ [r EXCEPT !.requirement = "unmet"] \in FamilyState
      /\ [r EXCEPT !.requirement = "none"] \in FamilyState
  BY <1>1, RequirementFamily
<1>7. CASE update \in {"nothing", "trigger", "noTrigger"}
  BY <1>2, <1>3, <1>7 DEF UpdateActivity, r
<1>8. CASE update \in {"schedule", "noSchedule", "callback"}
  BY <1>2, <1>4, <1>5, <1>8 DEF UpdateActivity, r
<1>9. CASE update \in {"requirement", "noRequirement"}
  BY <1>2, <1>6, <1>9 DEF UpdateActivity, r
<1> QED
  BY <1>7, <1>8, <1>9 DEF UpdateName

-----------------------------------------------------------------------------
(* The actions.                                                            *)

AllFamily == \A a \in Activities : Family(act[a])

LEMMA NowFamily ==
  ASSUME TypeOK, AllFamily
  PROVE  /\ Now \in FamilyStates
         /\ \A a \in Activities : Now.act[a] = act[a] /\ act[a] \in FamilyState
BY NowType DEF AllFamily, FamilyState, FamilyStates

LEMMA SetNowFamily ==
  ASSUME TypeOK, AllFamily, NEW a \in Activities, NEW r \in FamilyState
  PROVE  SetAct(Now, a, r) \in FamilyStates
BY NowFamily, SetActFamily

LEMMA BecomeFamily ==
  ASSUME NEW s \in FamilyStates, Become(s)
  PROVE  AllFamily'
BY BecomeStep DEF FamilyStates, AllFamily

LEMMA HandleFamily ==
  ASSUME NEW s \in FamilyStates, NEW a \in Activities, Handle(s, a)
  PROVE  AllFamily'
BY HandleStep DEF FamilyStates, AllFamily

LEMMA ClientFamily ==
  ASSUME TypeOK, AllFamily, Client
  PROVE  AllFamily'
<1>1. Now \in FamilyStates
  BY NowFamily
<1>2. /\ {"start", "pause", "complete"} \cup FinalCommand \subseteq ActivityCommand
      /\ "stop" \in FinalCommand /\ "cancel" \in FinalCommand /\ "complete" \in FinalCommand
      /\ TRUE \in BOOLEAN /\ FALSE \in BOOLEAN
  BY DEF ActivityCommand, FinalCommand
<1>3. PICK a \in Activities :
        \/ \E b \in Subscribers \cup {None}, start \in BOOLEAN,
              requirement \in {"none", "met", "unmet"} :
             CreateActivity(a, b, start, requirement)
        \/ \E b \in Subscribers : JoinActivity(a, b)
        \/ \E b \in Subscribers : AdoptActivity(a, b)
        \/ ReleaseCall(a)
        \/ StartActivity(a)
        \/ PauseActivity(a)
        \/ StopActivity(a)
        \/ CancelActivity(a)
        \/ CompleteActivity(a)
        \/ \E update \in Updates : CompleteAndRestart(a, update)
        \/ RefusedComplete(a)
        \/ \E update \in Updates : RefusedCompleteAndRestart(a, update)
        \/ \E b \in Subscribers : LeaveWhenTold(a, b)
        \/ \E b \in Subscribers : LeaveUntold(a, b)
  BY DEF Client, ClientCall
<1>4. act[a] \in FamilyState
  BY NowFamily
<1>5. ASSUME NEW b \in Subscribers \cup {None}, NEW start \in BOOLEAN,
             NEW requirement \in {"none", "met", "unmet"},
             CreateActivity(a, b, start, requirement)
      PROVE  AllFamily'
  <2> DEFINE p == [act[a] EXCEPT !.life = "live", !.named = TRUE]
             r == [p EXCEPT !.requirement = requirement]
             create == [finish |-> "create", sub |-> b, start |-> start]
             s == SetAct(Now, a, r)
  <2>1. p \in FamilyState
    <3>1. act[a] \in ActivityState
      BY <1>4 DEF FamilyState
    <3>2. /\ p \in ActivityState
          /\ p.subscriptions = act[a].subscriptions /\ p.told = act[a].told
          /\ p.parent = act[a].parent /\ p.releasedParent = act[a].releasedParent
          /\ p.adopters = act[a].adopters
      BY <3>1 DEF ActivityState
    <3> HIDE DEF p
    <3> QED
      BY <1>4, <3>2, SameFamily
  <2>2. r \in FamilyState
    BY <2>1, RequirementFamily
  <2>3. s \in FamilyStates
    BY <2>2, SetNowFamily
  <2>4. create \in PersistCommand
    BY DEF PersistCommand
  <2>5. Handle(EnsureCompletion(s, a, create), a)
    BY <1>5 DEF CreateActivity
  <2> HIDE DEF s, create
  <2> QED
    BY <2>3, <2>4, <2>5, EnsureCompletionFamily, HandleFamily
<1>6. ASSUME NEW b \in Subscribers, JoinActivity(a, b)
      PROVE  AllFamily'
  BY <1>4, <1>6, AddSubscriptionFamily, SetNowFamily, HandleFamily DEF JoinActivity
<1>7. ASSUME NEW b \in Subscribers, AdoptActivity(a, b)
      PROVE  AllFamily'
  <2>1. Now.act[a] = act[a]
    BY NowFamily
  <2>2. Adopt(SetAct(Now, a, AddSubscription(act[a], b)), a, b) \in FamilyStates
    BY <1>1, <1>7, <2>1, AdoptFamily DEF AdoptActivity
  <2> QED
    BY <1>7, <2>2, HandleFamily DEF AdoptActivity
<1>8. CASE ReleaseCall(a)
  BY <1>1, <1>8, ReleaseFamily, HandleFamily DEF ReleaseCall
<1>9. CASE StartActivity(a)
  BY <1>1, <1>2, <1>9, SendCommandFamily, HandleFamily DEF StartActivity
<1>10. CASE PauseActivity(a)
  BY <1>1, <1>2, <1>10, SendCommandFamily, HandleFamily DEF PauseActivity
<1>11. CASE StopActivity(a)
  BY <1>1, <1>2, <1>11, EndCallFamily, HandleFamily DEF StopActivity
<1>12. CASE CancelActivity(a)
  BY <1>1, <1>2, <1>12, EndCallFamily, HandleFamily DEF CancelActivity
<1>13. CASE CompleteActivity(a)
  BY <1>1, <1>2, <1>13, EndCallFamily, HandleFamily DEF CompleteActivity
<1>14. ASSUME NEW update \in Updates, CompleteAndRestart(a, update)
       PROVE  AllFamily'
  <2> DEFINE s == UpdateActivity(Now, a, update)
             t == SetAct(s, a, [s.act[a] EXCEPT !.restart = TRUE])
             u == SendCommand(t, a, "complete", FALSE)
             restart == [finish |-> "restart", sub |-> None, start |-> FALSE]
             v == EnsureCompletion(u, a, restart)
  <2>1. s \in FamilyStates
    BY <1>1, UpdateActivityFamily, EnvironmentAssumption
  <2>2. Handle(IF AlreadyEnded(t.act[a], FALSE) THEN t ELSE v, a)
    BY <1>14 DEF CompleteAndRestart
  <2> HIDE DEF s
  <2>3. t \in FamilyStates
    BY <2>1, ActFamily, FlagFamily, SetActFamily
  <2> HIDE DEF t
  <2>4. u \in FamilyStates
    BY <1>2, <2>3, SendCommandFamily
  <2>5. restart \in PersistCommand
    BY DEF PersistCommand
  <2> HIDE DEF u, restart
  <2>6. v \in FamilyStates
    BY <2>4, <2>5, EnsureCompletionFamily
  <2> HIDE DEF v
  <2> QED
    BY <2>2, <2>3, <2>6, HandleFamily
<1>15. CASE RefusedComplete(a)
  BY <1>4, <1>15, FlagFamily, SetNowFamily, HandleFamily DEF RefusedComplete
<1>16. ASSUME NEW update \in Updates, RefusedCompleteAndRestart(a, update)
       PROVE  AllFamily'
  <2> DEFINE s == UpdateActivity(Now, a, update)
             r == [s.act[a] EXCEPT !.restart = TRUE, !.terminate = FALSE]
  <2>1. s \in FamilyStates
    BY <1>1, UpdateActivityFamily, EnvironmentAssumption
  <2>2. Handle(SetAct(s, a, r), a)
    BY <1>16 DEF RefusedCompleteAndRestart
  <2> HIDE DEF s
  <2>3. r \in FamilyState
    BY <2>1, ActFamily, FlagFamily
  <2> HIDE DEF r
  <2> QED
    BY <2>1, <2>2, <2>3, SetActFamily, HandleFamily
<1>17. ASSUME NEW b \in Subscribers, LeaveWhenTold(a, b) \/ LeaveUntold(a, b)
       PROVE  AllFamily'
  <2>1. Handle(RemoveSubscription(Now, a, b), a)
    BY <1>17 DEF LeaveWhenTold, LeaveUntold, Leave
  <2> QED
    BY <1>1, <2>1, RemoveSubscriptionFamily, HandleFamily
<1> QED
  BY <1>3, <1>5, <1>6, <1>7, <1>8, <1>9, <1>10, <1>11, <1>12, <1>13, <1>14,
     <1>15, <1>16, <1>17

LEMMA ReplyFamily ==
  ASSUME TypeOK, AllFamily, Reply
  PROVE  AllFamily'
<1>1. Now \in FamilyStates
  BY NowFamily
<1>2. PICK a \in Activities :
        \/ CallbackSucceeds(a)
        \/ CallbackFailsTransiently(a)
        \/ CallbackFailsPermanently(a)
        \/ TriggerFires(a)
        \/ ScheduleComesDue(a)
        \/ RequirementMet(a)
        \/ RequirementUnmet(a)
        \/ PowerLockedNotification(a)
        \/ PowerUnlockedNotification(a)
        \/ PersistCommandCompletes(a)
  BY DEF Reply, ReplyTo
<1>3. act[a] \in FamilyState
  BY NowFamily
<1> DEFINE quiet == [act[a] EXCEPT !.callback = "idle"]
<1>4. quiet \in FamilyState
  BY <1>3, CallbackFamily
<1>5. CASE CallbackSucceeds(a)
  BY <1>4, <1>5, SetNowFamily, HandleFamily DEF CallbackSucceeds
<1>6. CASE CallbackFailsTransiently(a)
  <2> DEFINE r == [act[a] EXCEPT !.callback = "idle", !.requeue = TRUE]
  <2>1. r \in FamilyState
    BY <1>4, FlagFamily
  <2>2. Handle(EndActivity(SetAct(Now, a, r), a), a)
    BY <1>6 DEF CallbackFailsTransiently
  <2> HIDE DEF r
  <2> QED
    BY <2>1, <2>2, SetNowFamily, EndActivityFamily, HandleFamily
<1>7. CASE CallbackFailsPermanently(a)
  <2> DEFINE r == [act[a] EXCEPT !.callback = "idle", !.terminate = TRUE]
  <2>1. r \in FamilyState
    BY <1>4, FlagFamily
  <2>2. Handle(SendCommand(SetAct(Now, a, r), a, "cancel", TRUE), a)
    BY <1>7 DEF CallbackFailsPermanently
  <2> HIDE DEF r
  <2>3. "cancel" \in ActivityCommand /\ TRUE \in BOOLEAN
    BY DEF ActivityCommand, FinalCommand
  <2> QED
    BY <2>1, <2>2, <2>3, SetNowFamily, SendCommandFamily, HandleFamily
<1>8. CASE TriggerFires(a)
  BY <1>3, <1>8, TriggerFamily, SetNowFamily, RunIfRunnableFamily, HandleFamily DEF TriggerFires
<1>9. CASE ScheduleComesDue(a)
  BY <1>3, <1>9, ScheduleFamily, SetNowFamily, RunIfRunnableFamily, HandleFamily DEF ScheduleComesDue
<1>10. CASE RequirementMet(a)
  BY <1>3, <1>10, RequirementFamily, SetNowFamily, RunIfRunnableFamily, HandleFamily DEF RequirementMet
<1>11. CASE RequirementUnmet(a)
  BY <1>3, <1>11, RequirementFamily, SetNowFamily, WithdrawIfReadyFamily, HandleFamily
     DEF RequirementUnmet
<1>12. CASE PowerLockedNotification(a)
  <2> DEFINE r == [act[a] EXCEPT !.power = "locked"]
  <2>1. r \in FamilyState
    BY <1>3, PowerFamily
  <2>2. Handle(SetAct(Now, a, IF r.ending THEN r ELSE DoRunActivity(r)), a)
    BY <1>12 DEF PowerLockedNotification
  <2> HIDE DEF r
  <2>3. (IF r.ending THEN r ELSE DoRunActivity(r)) \in FamilyState
    BY <2>1, DoRunActivityFamily
  <2> QED
    BY <2>2, <2>3, SetNowFamily, HandleFamily
<1>13. CASE PowerUnlockedNotification(a)
  <2> DEFINE s == SetAct(Now, a, [act[a] EXCEPT !.power = "unlocked"])
  <2>1. s \in FamilyStates
    BY <1>3, PowerFamily, SetNowFamily
  <2>2. Handle(IF act[a].ending THEN EndActivity(s, a) ELSE s, a)
    BY <1>13 DEF PowerUnlockedNotification
  <2> HIDE DEF s
  <2> QED
    BY <2>1, <2>2, EndActivityFamily, HandleFamily
<1>14. CASE PersistCommandCompletes(a)
  <2>1. Now.act[a] = act[a]
    BY NowFamily
  <2>2. CompletePersistCommand(Now, a) \in FamilyStates
    BY <1>1, <1>14, <2>1, CompletePersistCommandFamily DEF PersistCommandCompletes
  <2> QED
    BY <1>14, <2>2, HandleFamily DEF PersistCommandCompletes
<1> QED
  BY <1>2, <1>5, <1>6, <1>7, <1>8, <1>9, <1>10, <1>11, <1>12, <1>13, <1>14

LEMMA ManagerFamily ==
  ASSUME TypeOK, AllFamily,
         \/ InteractiveYieldTimeout
         \/ \E bit \in EnableBits : Enable(bit)
         \/ \E bit \in EnableBits : Disable(bit)
         \/ Develop
         \/ ScheduleNextActivity
  PROVE  AllFamily'
<1>1. Now \in FamilyStates
  BY NowFamily
<1>2. CASE InteractiveYieldTimeout
  <2> DEFINE first == CHOOSE i \in Candidates : \A j \in Candidates : i <= j
             victim == queue["backgroundInteractive"][first]
             s == YieldActivity(Now, victim)
             t == [s EXCEPT !.yieldTimer = TRUE]
  <2>1. \/ act' = act
        \/ Candidates # {} /\ Handle(t, victim)
    BY <1>2 DEF InteractiveYieldTimeout, Victim, Become, Now
  <2>2. Candidates # {} => victim \in Activities
    BY FirstCandidate
  <2> HIDE DEF first, victim
  <2>3. CASE act' = act
    BY <2>3 DEF AllFamily
  <2>4. CASE Candidates # {} /\ Handle(t, victim)
    <3>1. s \in FamilyStates /\ s \in ManagerState
      BY <1>1, <2>2, <2>4, YieldActivityFamily DEF FamilyStates
    <3> HIDE DEF s
    <3>2. t \in ManagerState /\ t.act = s.act
      BY <3>1 DEF ManagerState
    <3> HIDE DEF t
    <3>3. t \in FamilyStates
      BY <3>1, <3>2, SameActFamily
    <3> QED
      BY <2>2, <2>4, <3>3, HandleFamily
  <2> QED
    BY <2>1, <2>3, <2>4
<1>3. ASSUME NEW bit \in EnableBits, Enable(bit) \/ Disable(bit)
      PROVE  AllFamily'
  BY <1>3 DEF Enable, Disable, Become, Now, AllFamily
<1>4. CASE Develop
  <2>1. PICK s : Become(s) /\
          \/ \E n \in Levels : s = SetBackgroundConcurrencyLevel(Now, n)
          \/ \E a \in Activities : s = EvictBackgroundActivity(Now, a)
          \/ s = EvictAllBackgroundActivities(Now)
          \/ \E a \in Activities : s = RunReadyBackgroundActivity(Now, a)
          \/ s = RunAllReadyActivities(Now)
    BY <1>4 DEF Develop, SetConcurrency, Evict, EvictAll, Run, RunAll
  <2>2. s \in FamilyStates
    BY <1>1, <2>1, DevelFamily
  <2> QED
    BY <2>1, <2>2, BecomeFamily
<1>5. CASE ScheduleNextActivity
  <2> DEFINE a == Head(queue["initialized"])
  <2>1. queue["initialized"] \in Seq(Activities) /\ queue["initialized"] # << >>
    BY <1>5 DEF ScheduleNextActivity, Scheduling, TypeOK, Now, ManagerState, QueueName
  <2>2. a \in Activities
    BY <2>1, HeadTailProperties
  <2>3. Handle(ScheduleActivity(MoveTo(Now, a, "scheduled"), a), a)
    BY <1>5 DEF ScheduleNextActivity
  <2> HIDE DEF a
  <2>4. MoveTo(Now, a, "scheduled") \in FamilyStates
    BY <1>1, <2>2, MoveToFamily DEF QueueName
  <2> QED
    BY <2>2, <2>3, <2>4, ScheduleActivityFamily, HandleFamily
<1> QED
  BY <1>2, <1>3, <1>4, <1>5


-----------------------------------------------------------------------------
(* The invariant as the runs check it: the size of a set for distinctness. *)

LEMMA DistinctCount ==
  ASSUME NEW S, NEW list \in Seq(S),
         \A i, j \in 1..Len(list) : list[i] = list[j] => i = j
  PROVE  Cardinality(ToSet(list)) = Len(list)
<1>1. Len(list) \in Nat /\ DOMAIN list = 1..Len(list)
  BY LenProperties
<1>2. ToSet(list) = {list[i] : i \in 1..Len(list)}
  BY <1>1 DEF ToSet
<1> DEFINE f == [i \in 1..Len(list) |-> list[i]]
<1>3. f \in Bijection(1..Len(list), ToSet(list))
  BY <1>2 DEF Bijection, Injection, Surjection, IsInjective
<1>4. ExistsBijection(1..Len(list), ToSet(list))
  BY <1>3 DEF ExistsBijection
<1> QED
  BY <1>1, <1>4, FS_CountingElements

LEMMA FamilyIsSubscribed ==
  ASSUME TypeOK, AllFamily
  PROVE  FamilySubscribes
<1> SUFFICES ASSUME NEW a \in Activities
             PROVE  LET r == act[a]
                        waiting == ToSet(r.adopters)
                    IN /\ ({r.parent, r.releasedParent} \ {None}) \cup waiting \cup r.told
                            \subseteq r.subscriptions
                       /\ Cardinality(waiting) = Len(r.adopters)
                       /\ waiting # {} => r.parent # None
                       /\ r.parent \notin waiting
  BY DEF FamilySubscribes
<1> DEFINE r == act[a]
<1>1. r \in ActivityState /\ Family(r)
  BY NowType DEF AllFamily
<1> HIDE DEF r
<1>2. r.adopters \in Seq(Subscribers)
  BY <1>1 DEF ActivityState
<1>3. ToSet(r.adopters) = {r.adopters[i] : i \in 1..Len(r.adopters)}
  BY <1>2, LenProperties DEF ToSet
<1>4. Cardinality(ToSet(r.adopters)) = Len(r.adopters)
  BY <1>1, <1>2, DistinctCount DEF Family, InLine
<1>5. ToSet(r.adopters) # {} => r.adopters # << >>
  BY <1>3, EmptySeq
<1> QED
  BY <1>1, <1>3, <1>4, <1>5 DEF Family, InLine, r

-----------------------------------------------------------------------------
\* The parent, the released parent and the adopters in line are subscribers, the
\* line has no repetitions and nobody waits without a parent to wait for: for
\* any set of subscribers, however joins, adoptions, releases and departures
\* cross with the end of a create that was stored meanwhile.
THEOREM FamilySubscribed == Spec => []FamilySubscribes
<1>1. Init => AllFamily
  <2> SUFFICES ASSUME Init, NEW a \in Activities PROVE Family(act[a])
    BY DEF AllFamily
  <2>1. act[a] = NewActivity(a)
    BY DEF Init
  <2> QED
    BY <2>1, NewActivityFamily DEF FamilyState
<1>2. TypeOK /\ AllFamily /\ [Next]_vars => AllFamily'
  <2>1. ASSUME TypeOK, AllFamily, Next
        PROVE  AllFamily'
    BY <2>1, ClientFamily, ReplyFamily, ManagerFamily DEF Next
  <2>2. ASSUME AllFamily, UNCHANGED vars
        PROVE  AllFamily'
    BY <2>2 DEF vars, AllFamily
  <2> QED
    BY <2>1, <2>2
<1>3. TypeOK /\ AllFamily => FamilySubscribes
  BY FamilyIsSubscribed
<1> QED
  BY <1>1, <1>2, <1>3, TypeCorrect, PTL DEF Spec

-----------------------------------------------------------------------------
(* Lists without repetitions.                                              *)

Once(list) == \A i, j \in 1..Len(list) : list[i] = list[j] => i = j

\* The parts of a list up to and after a position.
LEMMA SplitList ==
  ASSUME NEW S, NEW list \in Seq(S), NEW n \in 0..Len(list)
  PROVE  LET first == SubSeq(list, 1, n)
             rest == SubSeq(list, n + 1, Len(list))
         IN /\ first \in Seq(S) /\ Len(first) = n
            /\ \A i \in 1..n : first[i] = list[i]
            /\ rest \in Seq(S) /\ Len(rest) = Len(list) - n
            /\ \A i \in 1..(Len(list) - n) : rest[i] = list[n + i]
<1> DEFINE first == SubSeq(list, 1, n)
           rest == SubSeq(list, n + 1, Len(list))
<1>1. Len(list) \in Nat /\ n \in Nat /\ n <= Len(list)
  BY LenProperties
<1>2. /\ \A i \in 1..n : list[i] \in S
      /\ \A i \in (n + 1)..Len(list) : list[i] \in S
  BY <1>1, LenProperties
<1>3. /\ first \in Seq(S) /\ Len(first) = n
      /\ \A i \in 1..n : first[i] = list[i]
  <2>1. /\ 1 \in Int /\ n \in Int /\ n - 1 + 1 = n
        /\ (IF 1 <= n THEN n - 1 + 1 ELSE 0) = n
    BY <1>1
  <2>2. \A i \in 1..n : 1 + i - 1 = i
    BY <1>1
  <2> QED
    BY <1>2, <2>1, <2>2, SubSeqProperties
<1>4. /\ rest \in Seq(S) /\ Len(rest) = Len(list) - n
      /\ \A i \in 1..(Len(list) - n) : rest[i] = list[n + i]
  <2> DEFINE m == n + 1
             l == Len(list)
  <2>1. /\ m \in Int /\ l \in Int /\ l - m + 1 = l - n
        /\ (IF m <= l THEN l - m + 1 ELSE 0) = l - n
    BY <1>1
  <2>2. \A i \in 1..(l - n) : m + i - 1 = n + i
    BY <1>1
  <2>3. \A i \in m..l : list[i] \in S
    BY <1>2
  <2> HIDE DEF m, l
  <2>4. /\ SubSeq(list, m, l) \in Seq(S)
        /\ Len(SubSeq(list, m, l)) = (IF m <= l THEN l - m + 1 ELSE 0)
        /\ \A i \in 1..(l - m + 1) : SubSeq(list, m, l)[i] = list[m + i - 1]
    BY <2>1, <2>3, SubSeqProperties
  <2>5. rest = SubSeq(list, m, l)
    BY DEF m, l
  <2> HIDE DEF rest
  <2>6. /\ rest \in Seq(S) /\ Len(rest) = l - n
        /\ \A i \in 1..(l - n) : rest[i] = list[n + i]
    BY <2>1, <2>2, <2>4, <2>5
  <2> QED
    BY <2>6 DEF l
<1> QED
  BY <1>3, <1>4

\* They have its members between them, and none in common if it repeats none.
LEMMA SplitOnce ==
  ASSUME NEW S, NEW list \in Seq(S), NEW n \in 0..Len(list), Once(list)
  PROVE  LET first == SubSeq(list, 1, n)
             rest == SubSeq(list, n + 1, Len(list))
         IN /\ Once(first) /\ Once(rest)
            /\ \A x : Contains(list, x) <=> Contains(first, x) \/ Contains(rest, x)
            /\ \A x : ~(Contains(first, x) /\ Contains(rest, x))
<1> DEFINE first == SubSeq(list, 1, n)
           rest == SubSeq(list, n + 1, Len(list))
<1>1. Len(list) \in Nat /\ n \in Nat /\ n <= Len(list)
  BY LenProperties
<1>2. /\ Len(first) = n /\ \A i \in 1..n : first[i] = list[i]
      /\ Len(rest) = Len(list) - n
      /\ \A i \in 1..(Len(list) - n) : rest[i] = list[n + i]
  BY SplitList
<1> HIDE DEF first, rest
<1>3. Once(first)
  BY <1>1, <1>2 DEF Once
<1>4. Once(rest)
  <2> SUFFICES ASSUME NEW i \in 1..Len(rest), NEW j \in 1..Len(rest), rest[i] = rest[j]
               PROVE  i = j
    BY DEF Once
  <2>1. i \in Int /\ j \in Int /\ n + i \in 1..Len(list) /\ n + j \in 1..Len(list)
    BY <1>1, <1>2
  <2>2. list[n + i] = list[n + j]
    BY <1>2
  <2>3. n + i = n + j
    BY <2>1, <2>2 DEF Once
  <2> QED
    BY <1>1, <2>1, <2>3
<1>5. ASSUME NEW x, Contains(list, x)
      PROVE  Contains(first, x) \/ Contains(rest, x)
  <2>1. PICK i \in 1..Len(list) : list[i] = x
    BY <1>5 DEF Contains
  <2>2. CASE i <= n
    BY <1>1, <1>2, <2>1, <2>2 DEF Contains
  <2>3. CASE i > n
    <3>1. i - n \in 1..Len(rest) /\ n + (i - n) = i
      BY <1>1, <1>2, <2>3
    <3>2. rest[i - n] = x
      BY <1>2, <2>1, <3>1
    <3> QED
      BY <3>1, <3>2 DEF Contains
  <2> QED
    BY <1>1, <2>2, <2>3
<1>6. ASSUME NEW x, Contains(first, x)
      PROVE  \E i \in 1..n : list[i] = x
  BY <1>2, <1>6 DEF Contains
<1>7. ASSUME NEW x, Contains(rest, x)
      PROVE  \E i \in (n + 1)..Len(list) : list[i] = x
  <2>1. PICK j \in 1..Len(rest) : rest[j] = x
    BY <1>7 DEF Contains
  <2>2. n + j \in (n + 1)..Len(list) /\ list[n + j] = x
    BY <1>1, <1>2, <2>1
  <2> QED
    BY <2>2
<1>8. ASSUME NEW x, Contains(first, x) \/ Contains(rest, x)
      PROVE  Contains(list, x)
  BY <1>1, <1>6, <1>7, <1>8 DEF Contains
<1>9. ASSUME NEW x, Contains(first, x), Contains(rest, x)
      PROVE  FALSE
  <2>1. PICK i \in 1..n : list[i] = x
    BY <1>6, <1>9
  <2>2. PICK j \in (n + 1)..Len(list) : list[j] = x
    BY <1>7, <1>9
  <2>3. i \in 1..Len(list) /\ j \in 1..Len(list) /\ i # j
    BY <1>1
  <2> QED
    BY <2>1, <2>2, <2>3 DEF Once
<1>10. \A x : Contains(list, x) <=> Contains(first, x) \/ Contains(rest, x)
  BY <1>5, <1>8
<1>11. \A x : ~(Contains(first, x) /\ Contains(rest, x))
  BY <1>9
<1> QED
  BY <1>3, <1>4, <1>10, <1>11 DEF first, rest

\* Two lists, one behind the other.
LEMMA ConcatOnce ==
  ASSUME NEW S, NEW left \in Seq(S), NEW right \in Seq(S)
  PROVE  LET list == left \o right
         IN /\ Len(list) = Len(left) + Len(right)
            /\ \A x : Contains(list, x) <=> Contains(left, x) \/ Contains(right, x)
            /\ Once(left) /\ Once(right) /\ (\A x : ~(Contains(left, x) /\ Contains(right, x)))
                 => Once(list)
<1> DEFINE list == left \o right
<1>1. Len(left) \in Nat /\ Len(right) \in Nat
  BY LenProperties
<1>2. /\ Len(list) = Len(left) + Len(right)
      /\ \A i \in 1..(Len(left) + Len(right)) :
           list[i] = IF i <= Len(left) THEN left[i] ELSE right[i - Len(left)]
  BY ConcatProperties
<1> HIDE DEF list
<1>3. \A i \in 1..Len(left) : i \in 1..Len(list) /\ list[i] = left[i]
  BY <1>1, <1>2
<1>4. \A i \in 1..Len(right) :
        Len(left) + i \in 1..Len(list) /\ list[Len(left) + i] = right[i]
  <2> SUFFICES ASSUME NEW i \in 1..Len(right)
               PROVE  Len(left) + i \in 1..Len(list) /\ list[Len(left) + i] = right[i]
    OBVIOUS
  <2>1. /\ Len(left) + i \in 1..(Len(left) + Len(right)) /\ ~(Len(left) + i <= Len(left))
        /\ Len(left) + i - Len(left) = i
    BY <1>1
  <2> QED
    BY <1>2, <2>1
<1>5. \A i \in 1..Len(list) :
        \/ i \in 1..Len(left) /\ list[i] = left[i]
        \/ i - Len(left) \in 1..Len(right) /\ list[i] = right[i - Len(left)] /\ i > Len(left)
  BY <1>1, <1>2
<1>6. ASSUME NEW x
      PROVE  Contains(list, x) <=> Contains(left, x) \/ Contains(right, x)
  BY <1>3, <1>4, <1>5 DEF Contains
<1>7. ASSUME Once(left), Once(right), \A x : ~(Contains(left, x) /\ Contains(right, x))
      PROVE  Once(list)
  <2> SUFFICES ASSUME NEW i \in 1..Len(list), NEW j \in 1..Len(list), list[i] = list[j]
               PROVE  i = j
    BY DEF Once
  <2>1. CASE i \in 1..Len(left) /\ j \in 1..Len(left)
    BY <1>3, <1>7, <2>1 DEF Once
  <2>2. CASE i > Len(left) /\ j > Len(left)
    <3>1. /\ i - Len(left) \in 1..Len(right) /\ j - Len(left) \in 1..Len(right)
          /\ right[i - Len(left)] = right[j - Len(left)]
      BY <1>1, <1>5, <2>2
    <3>2. i - Len(left) = j - Len(left)
      BY <1>7, <3>1 DEF Once
    <3> QED
      BY <1>1, <1>2, <3>2
  <2>3. CASE i \in 1..Len(left) /\ j > Len(left)
    <3>1. Contains(left, list[i])
      BY <1>3, <2>3 DEF Contains
    <3>2. j - Len(left) \in 1..Len(right) /\ right[j - Len(left)] = list[i]
      BY <1>1, <1>5, <2>3
    <3>3. Contains(right, list[i])
      BY <3>2 DEF Contains
    <3> QED
      BY <1>7, <3>1, <3>3
  <2>4. CASE j \in 1..Len(left) /\ i > Len(left)
    <3>1. Contains(left, list[j])
      BY <1>3, <2>4 DEF Contains
    <3>2. i - Len(left) \in 1..Len(right) /\ right[i - Len(left)] = list[j]
      BY <1>1, <1>5, <2>4
    <3>3. Contains(right, list[j])
      BY <3>2 DEF Contains
    <3> QED
      BY <1>7, <3>1, <3>3
  <2> QED
    BY <1>1, <1>2, <2>1, <2>2, <2>3, <2>4
<1> QED
  BY <1>2, <1>6, <1>7 DEF list

\* One more at the end.
LEMMA AppendOnce ==
  ASSUME NEW S, NEW list \in Seq(S), NEW e \in S
  PROVE  /\ \A x : Contains(Append(list, e), x) <=> Contains(list, x) \/ x = e
         /\ Once(list) /\ ~Contains(list, e) => Once(Append(list, e))
         /\ Len(Append(list, e)) = Len(list) + 1
<1> DEFINE longer == Append(list, e)
<1>1. /\ Len(list) \in Nat /\ Len(longer) = Len(list) + 1
      /\ \A i \in 1..Len(list) : longer[i] = list[i]
      /\ longer[Len(list) + 1] = e
  BY AppendProperties, LenProperties
<1> HIDE DEF longer
<1>2. \A i \in 1..Len(longer) : i \in 1..Len(list) \/ i = Len(list) + 1
  BY <1>1
<1>3. \A i \in 1..Len(list) : i \in 1..Len(longer)
  BY <1>1
<1>4. Len(list) + 1 \in 1..Len(longer) /\ Len(list) + 1 \notin 1..Len(list)
  BY <1>1
<1>5. ASSUME NEW x
      PROVE  Contains(longer, x) <=> Contains(list, x) \/ x = e
  BY <1>1, <1>2, <1>3, <1>4 DEF Contains
<1>6. ASSUME Once(list), ~Contains(list, e)
      PROVE  Once(longer)
  <2> SUFFICES ASSUME NEW i \in 1..Len(longer), NEW j \in 1..Len(longer), longer[i] = longer[j]
               PROVE  i = j
    BY DEF Once
  <2>1. \A k \in 1..Len(list) : list[k] # e
    BY <1>6 DEF Contains
  <2> QED
    BY <1>1, <1>2, <1>6, <2>1 DEF Once
<1> QED
  BY <1>1, <1>5, <1>6 DEF longer

\* One taken off.
LEMMA WithoutOnce ==
  ASSUME NEW S, NEW list \in Seq(S), NEW e, Once(list)
  PROVE  LET rest == Without(list, e)
         IN /\ Once(rest)
            /\ \A x : Contains(rest, x) <=> Contains(list, x) /\ x # e
            /\ Len(rest) \in Nat /\ Len(rest) <= Len(list)
            /\ ~Contains(list, e) => rest = list
            /\ Contains(list, e) => Len(rest) = Len(list) - 1
<1> DEFINE rest == Without(list, e)
<1>1. Len(list) \in Nat
  BY LenProperties
<1>2. CASE ~Contains(list, e)
  <2>1. rest = list
    BY <1>2 DEF Without, Contains
  <2> QED
    BY <1>1, <1>2, <2>1
<1>3. CASE Contains(list, e)
  <2> DEFINE k == CHOOSE i \in 1..Len(list) : list[i] = e
             left == SubSeq(list, 1, k - 1)
             tail == SubSeq(list, k, Len(list))
             right == SubSeq(list, k + 1, Len(list))
  <2>1. k \in 1..Len(list) /\ list[k] = e
    BY <1>3 DEF Contains
  <2>2. rest = left \o right
    BY <1>3 DEF Without, RemoveAt, Contains
  <2> HIDE DEF k, rest
  <2>3. k - 1 \in 0..Len(list) /\ k \in 0..Len(list) /\ k - 1 + 1 = k
    BY <1>1, <2>1
  <2>4. /\ left \in Seq(S) /\ Len(left) = k - 1
        /\ tail \in Seq(S) /\ Len(tail) = Len(list) - (k - 1)
        /\ \A i \in 1..(Len(list) - (k - 1)) : tail[i] = list[k - 1 + i]
    <3> DEFINE n == k - 1
    <3>1. n \in 0..Len(list) /\ n + 1 = k
      BY <2>3
    <3> HIDE DEF n
    <3>2. LET before == SubSeq(list, 1, n)
              after == SubSeq(list, n + 1, Len(list))
          IN /\ before \in Seq(S) /\ Len(before) = n
             /\ after \in Seq(S) /\ Len(after) = Len(list) - n
             /\ \A i \in 1..(Len(list) - n) : after[i] = list[n + i]
      BY <3>1, SplitList
    <3> QED
      BY <3>1, <3>2 DEF n
  <2>5. /\ right \in Seq(S) /\ Len(right) = Len(list) - k
        /\ \A i \in 1..(Len(list) - k) : right[i] = list[k + i]
    BY <2>3, SplitList
  <2>6. /\ Once(left) /\ Once(tail)
        /\ \A x : Contains(list, x) <=> Contains(left, x) \/ Contains(tail, x)
        /\ \A x : ~(Contains(left, x) /\ Contains(tail, x))
    BY <2>3, SplitOnce
  <2>7. Once(right)
    BY <2>3, SplitOnce
  <2> HIDE DEF left, tail, right
  <2>8. \A x : Contains(tail, x) <=> x = e \/ Contains(right, x)
    <3>1. 1 \in 1..Len(tail) /\ tail[1] = e
      BY <1>1, <2>1, <2>4
    <3>2. \A i \in 1..Len(right) : i + 1 \in 1..Len(tail) /\ tail[i + 1] = right[i]
      <4> SUFFICES ASSUME NEW i \in 1..Len(right)
                   PROVE  i + 1 \in 1..Len(tail) /\ tail[i + 1] = right[i]
        OBVIOUS
      <4>1. i + 1 \in 1..(Len(list) - (k - 1)) /\ k - 1 + (i + 1) = k + i
        BY <1>1, <2>1, <2>5
      <4> QED
        BY <2>4, <2>5, <4>1
    <3>3. \A i \in 1..Len(tail) :
            i # 1 => i - 1 \in 1..Len(right) /\ tail[i] = right[i - 1]
      <4> SUFFICES ASSUME NEW i \in 1..Len(tail), i # 1
                   PROVE  i - 1 \in 1..Len(right) /\ tail[i] = right[i - 1]
        OBVIOUS
      <4>1. i - 1 \in 1..(Len(list) - k) /\ k - 1 + i = k + (i - 1)
        BY <1>1, <2>1, <2>4
      <4> QED
        BY <2>4, <2>5, <4>1
    <3> SUFFICES ASSUME NEW x
                 PROVE  Contains(tail, x) <=> x = e \/ Contains(right, x)
      OBVIOUS
    <3>4. ASSUME Contains(right, x) PROVE Contains(tail, x)
      <4>1. PICK i \in 1..Len(right) : right[i] = x
        BY <3>4 DEF Contains
      <4> QED
        BY <3>2, <4>1 DEF Contains
    <3>5. ASSUME Contains(tail, x), x # e PROVE Contains(right, x)
      <4>1. PICK i \in 1..Len(tail) : tail[i] = x
        BY <3>5 DEF Contains
      <4>2. i # 1
        BY <3>1, <3>5, <4>1
      <4> QED
        BY <3>3, <4>1, <4>2 DEF Contains
    <3>6. Contains(tail, e)
      BY <3>1 DEF Contains
    <3> QED
      BY <3>4, <3>5, <3>6
  <2>9. ~Contains(right, e)
    <3> SUFFICES ASSUME NEW i \in 1..Len(right), right[i] = e PROVE FALSE
      BY DEF Contains
    <3>1. k + i \in 1..Len(list) /\ k + i # k /\ list[k + i] = e
      BY <1>1, <2>1, <2>5
    <3> QED
      BY <2>1, <3>1 DEF Once
  <2>10. /\ Len(rest) = Len(left) + Len(right)
         /\ \A x : Contains(rest, x) <=> Contains(left, x) \/ Contains(right, x)
         /\ Once(left) /\ Once(right) /\ (\A x : ~(Contains(left, x) /\ Contains(right, x)))
              => Once(rest)
    BY <2>2, <2>4, <2>5, ConcatOnce
  <2>11. Len(rest) \in Nat /\ Len(rest) <= Len(list) /\ Len(rest) = Len(list) - 1
    BY <1>1, <2>1, <2>4, <2>5, <2>10
  <2>12. Once(rest)
    BY <2>6, <2>7, <2>8, <2>10
  <2>13. \A x : Contains(rest, x) <=> Contains(list, x) /\ x # e
    BY <2>6, <2>8, <2>9, <2>10
  <2> QED
    BY <1>3, <2>11, <2>12, <2>13 DEF rest
<1> QED
  BY <1>2, <1>3

-----------------------------------------------------------------------------
(* Places in the queues.                                                   *)

On(s, x, q) == Contains(s.queue[q], x)

\* The hook of an Activity is in one list at most, and there once.
Hooked(s) ==
  /\ \A q \in QueueName : Once(s.queue[q])
  /\ \A x \in Activities : \A p, q \in QueueName : On(s, x, p) /\ On(s, x, q) => p = q

\* What becomes of x in an admission: it stays, or goes from one queue to
\* another, and runs.
Stayed(s, t, x) ==
  /\ t.act[x] = s.act[x]
  /\ \A q \in QueueName : On(t, x, q) <=> On(s, x, q)

Admitted(s, t, x, from, to) ==
  /\ On(s, x, from)
  /\ \A q \in QueueName : On(t, x, q) <=> q = to
  /\ t.act[x] = RunActivity(s.act[x])

LEMMA UnlinkPlaces ==
  ASSUME NEW s \in ManagerState, NEW a \in Activities, Hooked(s)
  PROVE  LET t == Unlink(s, a)
         IN /\ t \in ManagerState /\ Hooked(t)
            /\ \A x \in Activities, q \in QueueName : On(t, x, q) <=> On(s, x, q) /\ x # a
            /\ \A q \in QueueName :
                 /\ Len(t.queue[q]) <= Len(s.queue[q])
                 /\ ~On(s, a, q) => t.queue[q] = s.queue[q]
                 /\ On(s, a, q) => Len(t.queue[q]) = Len(s.queue[q]) - 1
            /\ t.act = s.act /\ t.level = s.level /\ t.enabled = s.enabled
<1> DEFINE t == Unlink(s, a)
<1>1. t \in ManagerState
  BY UnlinkType
<1>2. /\ \A q \in QueueName : t.queue[q] = Without(s.queue[q], a)
      /\ t.act = s.act /\ t.level = s.level /\ t.enabled = s.enabled
  BY DEF Unlink, ManagerState
<1> HIDE DEF t
<1>3. \A q \in QueueName :
        /\ Once(t.queue[q])
        /\ \A x : Contains(t.queue[q], x) <=> Contains(s.queue[q], x) /\ x # a
        /\ Len(t.queue[q]) <= Len(s.queue[q])
        /\ ~Contains(s.queue[q], a) => t.queue[q] = s.queue[q]
        /\ Contains(s.queue[q], a) => Len(t.queue[q]) = Len(s.queue[q]) - 1
  <2> SUFFICES ASSUME NEW q \in QueueName
               PROVE  /\ Once(t.queue[q])
                      /\ \A x : Contains(t.queue[q], x) <=> Contains(s.queue[q], x) /\ x # a
                      /\ Len(t.queue[q]) <= Len(s.queue[q])
                      /\ ~Contains(s.queue[q], a) => t.queue[q] = s.queue[q]
                      /\ Contains(s.queue[q], a) => Len(t.queue[q]) = Len(s.queue[q]) - 1
    OBVIOUS
  <2>1. s.queue[q] \in Seq(Activities) /\ Once(s.queue[q]) /\ t.queue[q] = Without(s.queue[q], a)
    BY <1>2, QueueType DEF Hooked
  <2> QED
    BY <2>1, WithoutOnce
<1>4. \A x \in Activities, q \in QueueName : On(t, x, q) <=> On(s, x, q) /\ x # a
  BY <1>3 DEF On
<1>5. Hooked(t)
  BY <1>3, <1>4 DEF Hooked
<1>6. \A q \in QueueName :
        /\ Len(t.queue[q]) <= Len(s.queue[q])
        /\ ~On(s, a, q) => t.queue[q] = s.queue[q]
        /\ On(s, a, q) => Len(t.queue[q]) = Len(s.queue[q]) - 1
  BY <1>3 DEF On
<1> QED
  BY <1>1, <1>2, <1>4, <1>5, <1>6 DEF t

LEMMA MoveToPlaces ==
  ASSUME NEW s \in ManagerState, NEW a \in Activities, NEW p \in QueueName, Hooked(s)
  PROVE  LET t == MoveTo(s, a, p)
         IN /\ t \in ManagerState /\ Hooked(t)
            /\ \A x \in Activities, q \in QueueName :
                 On(t, x, q) <=> IF x = a THEN q = p ELSE On(s, x, q)
            /\ \A q \in QueueName \ {p} :
                 /\ Len(t.queue[q]) <= Len(s.queue[q])
                 /\ ~On(s, a, q) => t.queue[q] = s.queue[q]
                 /\ On(s, a, q) => Len(t.queue[q]) = Len(s.queue[q]) - 1
            /\ ~On(s, a, p) => Len(t.queue[p]) = Len(s.queue[p]) + 1
            /\ t.act = s.act /\ t.level = s.level /\ t.enabled = s.enabled
<1> DEFINE u == Unlink(s, a)
           t == MoveTo(s, a, p)
<1>1. /\ u \in ManagerState /\ Hooked(u)
      /\ \A x \in Activities, q \in QueueName : On(u, x, q) <=> On(s, x, q) /\ x # a
      /\ \A q \in QueueName :
           /\ Len(u.queue[q]) <= Len(s.queue[q])
           /\ ~On(s, a, q) => u.queue[q] = s.queue[q]
           /\ On(s, a, q) => Len(u.queue[q]) = Len(s.queue[q]) - 1
      /\ u.act = s.act /\ u.level = s.level /\ u.enabled = s.enabled
  BY UnlinkPlaces
<1>2. t \in ManagerState
  BY MoveToType
<1>3. t = [u EXCEPT !.queue[p] = Append(@, a)]
  BY DEF MoveTo
<1> HIDE DEF u, t
<1>4. /\ \A q \in QueueName \ {p} : t.queue[q] = u.queue[q]
      /\ t.queue[p] = Append(u.queue[p], a)
      /\ t.act = u.act /\ t.level = u.level /\ t.enabled = u.enabled
  BY <1>1, <1>3 DEF ManagerState
<1>5. u.queue[p] \in Seq(Activities) /\ Once(u.queue[p]) /\ ~Contains(u.queue[p], a)
  BY <1>1, QueueType DEF Hooked, On
<1>6. /\ \A x : Contains(t.queue[p], x) <=> Contains(u.queue[p], x) \/ x = a
      /\ Once(t.queue[p])
      /\ Len(t.queue[p]) = Len(u.queue[p]) + 1
  BY <1>4, <1>5, AppendOnce
<1>7. \A x \in Activities, q \in QueueName :
        On(t, x, q) <=> IF x = a THEN q = p ELSE On(s, x, q)
  <2> SUFFICES ASSUME NEW x \in Activities, NEW q \in QueueName
               PROVE  On(t, x, q) <=> IF x = a THEN q = p ELSE On(s, x, q)
    OBVIOUS
  <2>1. CASE q = p
    BY <1>1, <1>6, <2>1 DEF On
  <2>2. CASE q # p
    BY <1>1, <1>4, <2>2 DEF On
  <2> QED
    BY <2>1, <2>2
<1>8. \A q \in QueueName : Once(t.queue[q])
  BY <1>1, <1>4, <1>6 DEF Hooked
<1>9. Hooked(t)
  <2>1. ASSUME NEW x \in Activities, NEW q \in QueueName, NEW o \in QueueName,
               On(t, x, q), On(t, x, o)
        PROVE  q = o
    BY <1>7, <2>1 DEF Hooked
  <2> QED
    BY <1>8, <2>1 DEF Hooked
<1>10. \A q \in QueueName \ {p} :
         /\ Len(t.queue[q]) <= Len(s.queue[q])
         /\ ~On(s, a, q) => t.queue[q] = s.queue[q]
         /\ On(s, a, q) => Len(t.queue[q]) = Len(s.queue[q]) - 1
  BY <1>1, <1>4
<1>11. ~On(s, a, p) => Len(t.queue[p]) = Len(s.queue[p]) + 1
  BY <1>1, <1>6
<1> QED
  BY <1>1, <1>2, <1>4, <1>7, <1>9, <1>10, <1>11 DEF t

\* The first n of a queue are admitted to another.
LEMMA RunFirstPlaces ==
  ASSUME NEW s \in ManagerState, Hooked(s),
         NEW from \in QueueName, NEW to \in QueueName, from # to,
         NEW n \in 0..Len(s.queue[from])
  PROVE  LET t == RunFirst(s, n, from, to)
         IN /\ t \in ManagerState /\ Hooked(t)
            /\ \A x \in Activities : Stayed(s, t, x) \/ Admitted(s, t, x, from, to)
            /\ n = 0 => \A x \in Activities : Stayed(s, t, x)
            /\ \A q \in QueueName \ {from, to} : t.queue[q] = s.queue[q]
            /\ Len(t.queue[from]) = Len(s.queue[from]) - n
            /\ Len(t.queue[to]) = Len(s.queue[to]) + n
            /\ t.level = s.level /\ t.enabled = s.enabled /\ t.yieldTimer = s.yieldTimer
<1> DEFINE t == RunFirst(s, n, from, to)
           list == s.queue[from]
           first == SubSeq(list, 1, n)
           rest == SubSeq(list, n + 1, Len(list))
<1>1. t \in ManagerState
  BY RunFirstType
<1>2. /\ t.queue[from] = rest /\ t.queue[to] = s.queue[to] \o first
      /\ \A q \in QueueName \ {from, to} : t.queue[q] = s.queue[q]
      /\ t.level = s.level /\ t.enabled = s.enabled /\ t.yieldTimer = s.yieldTimer
  BY DEF RunFirst, ManagerState
<1>3. \A x \in Activities :
        t.act[x] = IF \E i \in 1..n : first[i] = x THEN RunActivity(s.act[x]) ELSE s.act[x]
  BY DEF RunFirst, ManagerState
<1>4. list \in Seq(Activities) /\ Once(list) /\ s.queue[to] \in Seq(Activities) /\ Once(s.queue[to])
  BY QueueType DEF Hooked
<1>5. n \in 0..Len(list)
  OBVIOUS
<1> HIDE DEF t, list
<1>6. first \in Seq(Activities) /\ Len(first) = n /\ Len(rest) = Len(list) - n
  BY <1>4, <1>5, SplitList
<1>7. /\ Once(first) /\ Once(rest)
      /\ \A x : Contains(list, x) <=> Contains(first, x) \/ Contains(rest, x)
      /\ \A x : ~(Contains(first, x) /\ Contains(rest, x))
  BY <1>4, <1>5, SplitOnce
<1> HIDE DEF first, rest
<1>8. \A x \in Activities : ~(Contains(s.queue[to], x) /\ Contains(list, x))
  BY DEF Hooked, On, list
<1>9. /\ Len(t.queue[to]) = Len(s.queue[to]) + n
      /\ \A x : Contains(t.queue[to], x) <=> Contains(s.queue[to], x) \/ Contains(first, x)
      /\ Once(s.queue[to]) /\ Once(first)
           /\ (\A x : ~(Contains(s.queue[to], x) /\ Contains(first, x))) => Once(t.queue[to])
  <2> DEFINE base == s.queue[to]
             joined == t.queue[to]
  <2>1. base \in Seq(Activities) /\ first \in Seq(Activities) /\ joined = base \o first
    BY <1>2, <1>4, <1>6
  <2> HIDE DEF base, joined
  <2>2. /\ Len(joined) = Len(base) + Len(first)
        /\ \A x : Contains(joined, x) <=> Contains(base, x) \/ Contains(first, x)
        /\ Once(base) /\ Once(first) /\ (\A x : ~(Contains(base, x) /\ Contains(first, x)))
             => Once(joined)
    BY <2>1, ConcatOnce
  <2> QED
    BY <1>6, <2>2 DEF base, joined
<1>10. \A x : Contains(first, x) => x \in Activities
  BY <1>6, ElementOfSeq DEF Contains
<1>11. Once(t.queue[to])
  BY <1>4, <1>7, <1>8, <1>9, <1>10
<1>12. \A x \in Activities :
         t.act[x] = IF Contains(first, x) THEN RunActivity(s.act[x]) ELSE s.act[x]
  BY <1>3, <1>6 DEF Contains
<1>13. ASSUME NEW x \in Activities, Contains(first, x)
       PROVE  Admitted(s, t, x, from, to)
  <2>1. On(s, x, from)
    BY <1>7, <1>13 DEF On, list
  <2>2. \A q \in QueueName \ {from} : ~On(s, x, q)
    BY <2>1 DEF Hooked
  <2>3. \A q \in QueueName : On(t, x, q) <=> q = to
    BY <1>2, <1>7, <1>9, <1>13, <2>2 DEF On
  <2> QED
    BY <1>12, <1>13, <2>1, <2>3 DEF Admitted
<1>14. ASSUME NEW x \in Activities, ~Contains(first, x)
       PROVE  Stayed(s, t, x)
  <2>1. On(t, x, from) <=> On(s, x, from)
    BY <1>2, <1>7, <1>14 DEF On, list
  <2>2. On(t, x, to) <=> On(s, x, to)
    BY <1>9, <1>14 DEF On
  <2>3. \A q \in QueueName \ {from, to} : On(t, x, q) <=> On(s, x, q)
    BY <1>2 DEF On
  <2> QED
    BY <1>12, <1>14, <2>1, <2>2, <2>3 DEF Stayed
<1>15. \A x \in Activities : Stayed(s, t, x) \/ Admitted(s, t, x, from, to)
  BY <1>13, <1>14
<1>16. ASSUME n = 0
       PROVE  \A x \in Activities : Stayed(s, t, x)
  <2>1. \A x : ~Contains(first, x)
    BY <1>6, <1>16 DEF Contains
  <2> QED
    BY <1>14, <2>1
<1>17. \A q \in QueueName : Once(t.queue[q])
  BY <1>2, <1>7, <1>11 DEF Hooked
<1>18. ASSUME NEW x \in Activities, NEW q \in QueueName, NEW o \in QueueName,
              On(t, x, q), On(t, x, o)
       PROVE  q = o
  BY <1>15, <1>18 DEF Stayed, Admitted, Hooked
<1>19. Hooked(t)
  BY <1>17, <1>18 DEF Hooked
<1> QED
  BY <1>1, <1>2, <1>6, <1>9, <1>15, <1>19, <1>16 DEF t, list

-----------------------------------------------------------------------------
(* Admission.                                                              *)

\* How many fit: all, unless that would pass the limit; then up to the limit.
LEMMA RoomFull ==
  ASSUME NEW limit \in Nat, NEW count \in Nat, NEW waiting \in Nat
  PROVE  LET n == Room(limit, count, waiting)
         IN /\ n \in 0..waiting
            /\ n < waiting => limit # 0 /\ count + n >= limit
            /\ n = 0 \/ limit = 0 \/ count + n <= limit
BY DEF Room

\* No slot is idle.
Full(s) ==
  LET busy == GetRunningBackgroundActivitiesCount(s)
  IN /\ Len(s.queue["ready"]) > 0 => s.level # 0 /\ busy >= s.level
     /\ Len(s.queue["readyInteractive"]) > 0 => InteractiveLevel # 0 /\ busy >= InteractiveLevel

\* n interactive Activities are admitted from s to t and then m background ones:
\* all that wait, or up to the limit of each class.
Admission(s, t, n, m) ==
  LET busy == GetRunningBackgroundActivitiesCount(s)
  IN /\ n \in 0..Len(s.queue["readyInteractive"])
     /\ m \in 0..Len(s.queue["ready"])
     /\ Len(t.queue["readyInteractive"]) = Len(s.queue["readyInteractive"]) - n
     /\ Len(t.queue["backgroundInteractive"]) = Len(s.queue["backgroundInteractive"]) + n
     /\ Len(t.queue["background"]) = Len(s.queue["background"]) + m
     /\ n < Len(s.queue["readyInteractive"]) =>
          InteractiveLevel # 0 /\ busy + n >= InteractiveLevel
     /\ n = 0 \/ InteractiveLevel = 0 \/ busy + n <= InteractiveLevel
     /\ m = 0 \/ s.level = 0 \/ busy + n + m <= s.level
     /\ n = 0 => \A x \in Activities :
                  ~Admitted(s, t, x, "readyInteractive", "backgroundInteractive")
     /\ m = 0 => \A x \in Activities : ~Admitted(s, t, x, "ready", "background")

LEMMA QueueNames ==
  /\ {"initialized", "scheduled", "ready", "readyInteractive", "background"} \subseteq QueueName
  /\ {"backgroundInteractive", "longBackground", "immediate", "ended"} \subseteq QueueName
BY DEF QueueName

LEMMA BusySum ==
  ASSUME NEW s \in ManagerState
  PROVE  /\ \A q \in QueueName : Len(s.queue[q]) \in Nat
         /\ GetRunningBackgroundActivitiesCount(s)
              = Len(s.queue["background"]) + Len(s.queue["backgroundInteractive"])
         /\ GetRunningBackgroundActivitiesCount(s) \in Nat
         /\ s.level \in Nat
<1>1. \A q \in QueueName : Len(s.queue[q]) \in Nat
  BY QueueType
<1>2. s.level \in Nat
  BY LevelsAssumption DEF ManagerState
<1> QED
  BY <1>1, <1>2, BusyType DEF GetRunningBackgroundActivitiesCount

\* Admission of the first n of a class.
LEMMA AdmitInteractive ==
  ASSUME NEW s \in ManagerState, Hooked(s), NEW n \in 0..Len(s.queue["readyInteractive"]),
         NEW t, t = RunFirst(s, n, "readyInteractive", "backgroundInteractive")
  PROVE  /\ t \in ManagerState /\ Hooked(t)
         /\ \A x \in Activities :
              Stayed(s, t, x) \/ Admitted(s, t, x, "readyInteractive", "backgroundInteractive")
         /\ n = 0 => \A x \in Activities : Stayed(s, t, x)
         /\ Len(t.queue["readyInteractive"]) = Len(s.queue["readyInteractive"]) - n
         /\ Len(t.queue["backgroundInteractive"]) = Len(s.queue["backgroundInteractive"]) + n
         /\ t.queue["ready"] = s.queue["ready"]
         /\ t.queue["background"] = s.queue["background"]
         /\ GetRunningBackgroundActivitiesCount(t)
              = GetRunningBackgroundActivitiesCount(s) + n
         /\ t.level = s.level /\ t.enabled = s.enabled
<1>1. "readyInteractive" \in QueueName /\ "backgroundInteractive" \in QueueName /\ "readyInteractive" # "backgroundInteractive"
  BY QueueNames
<1>2. /\ t \in ManagerState /\ Hooked(t)
      /\ \A x \in Activities :
           Stayed(s, t, x) \/ Admitted(s, t, x, "readyInteractive", "backgroundInteractive")
      /\ n = 0 => \A x \in Activities : Stayed(s, t, x)
      /\ \A q \in QueueName \ {"readyInteractive", "backgroundInteractive"} : t.queue[q] = s.queue[q]
      /\ Len(t.queue["readyInteractive"]) = Len(s.queue["readyInteractive"]) - n
      /\ Len(t.queue["backgroundInteractive"]) = Len(s.queue["backgroundInteractive"]) + n
      /\ t.level = s.level /\ t.enabled = s.enabled
  BY <1>1, RunFirstPlaces
<1>3. /\ t.queue["ready"] = s.queue["ready"]
      /\ t.queue["background"] = s.queue["background"]
  BY <1>2, QueueNames
<1> DEFINE m == Len(s.queue["backgroundInteractive"])
           o == Len(s.queue["background"])
<1>4. m \in Nat /\ o \in Nat /\ n \in Nat
  BY BusySum, QueueNames
<1>5. GetRunningBackgroundActivitiesCount(s) = o + m
  BY <1>4 DEF GetRunningBackgroundActivitiesCount
<1>6. GetRunningBackgroundActivitiesCount(t) = o + (m + n)
  BY <1>2, <1>3, <1>4 DEF GetRunningBackgroundActivitiesCount
<1> HIDE DEF m, o
<1>7. o + (m + n) = (o + m) + n
  BY <1>4
<1> QED
  BY <1>2, <1>3, <1>5, <1>6, <1>7

LEMMA AdmitReady ==
  ASSUME NEW s \in ManagerState, Hooked(s), NEW n \in 0..Len(s.queue["ready"]),
         NEW t, t = RunFirst(s, n, "ready", "background")
  PROVE  /\ t \in ManagerState /\ Hooked(t)
         /\ \A x \in Activities :
              Stayed(s, t, x) \/ Admitted(s, t, x, "ready", "background")
         /\ n = 0 => \A x \in Activities : Stayed(s, t, x)
         /\ Len(t.queue["ready"]) = Len(s.queue["ready"]) - n
         /\ Len(t.queue["background"]) = Len(s.queue["background"]) + n
         /\ t.queue["readyInteractive"] = s.queue["readyInteractive"]
         /\ t.queue["backgroundInteractive"] = s.queue["backgroundInteractive"]
         /\ GetRunningBackgroundActivitiesCount(t)
              = GetRunningBackgroundActivitiesCount(s) + n
         /\ t.level = s.level /\ t.enabled = s.enabled
<1>1. "ready" \in QueueName /\ "background" \in QueueName /\ "ready" # "background"
  BY QueueNames
<1>2. /\ t \in ManagerState /\ Hooked(t)
      /\ \A x \in Activities :
           Stayed(s, t, x) \/ Admitted(s, t, x, "ready", "background")
      /\ n = 0 => \A x \in Activities : Stayed(s, t, x)
      /\ \A q \in QueueName \ {"ready", "background"} : t.queue[q] = s.queue[q]
      /\ Len(t.queue["ready"]) = Len(s.queue["ready"]) - n
      /\ Len(t.queue["background"]) = Len(s.queue["background"]) + n
      /\ t.level = s.level /\ t.enabled = s.enabled
  BY <1>1, RunFirstPlaces
<1>3. /\ t.queue["readyInteractive"] = s.queue["readyInteractive"]
      /\ t.queue["backgroundInteractive"] = s.queue["backgroundInteractive"]
  BY <1>2, QueueNames
<1> DEFINE m == Len(s.queue["background"])
           o == Len(s.queue["backgroundInteractive"])
<1>4. m \in Nat /\ o \in Nat /\ n \in Nat
  BY BusySum, QueueNames
<1>5. GetRunningBackgroundActivitiesCount(s) = m + o
  BY <1>4 DEF GetRunningBackgroundActivitiesCount
<1>6. GetRunningBackgroundActivitiesCount(t) = (m + n) + o
  BY <1>2, <1>3, <1>4 DEF GetRunningBackgroundActivitiesCount
<1> HIDE DEF m, o
<1>7. (m + n) + o = (m + o) + n
  BY <1>4
<1> QED
  BY <1>2, <1>3, <1>5, <1>6, <1>7

\* Whoever is admitted goes from a ready queue to its background queue and runs;
\* afterwards no slot is idle, and no class has newly passed its limit.
LEMMA CheckReadyQueuePlaces ==
  ASSUME NEW s \in ManagerState, Hooked(s)
  PROVE  LET t == CheckReadyQueue(s)
         IN /\ t \in ManagerState /\ Hooked(t) /\ Full(t)
            /\ t.level = s.level /\ t.enabled = s.enabled
            /\ \A x \in Activities :
                 \/ Stayed(s, t, x)
                 \/ Admitted(s, t, x, "readyInteractive", "backgroundInteractive")
                 \/ Admitted(s, t, x, "ready", "background")
            /\ \E n \in Nat, m \in Nat : Admission(s, t, n, m)
<1> DEFINE c == GetRunningBackgroundActivitiesCount(s)
           i == Len(s.queue["readyInteractive"])
           n == Room(InteractiveLevel, c, i)
           u == RunFirst(s, n, "readyInteractive", "backgroundInteractive")
           t == [u EXCEPT !.yieldTimer = n < i]
           d == GetRunningBackgroundActivitiesCount(t)
           k == Len(t.queue["ready"])
           m == Room(s.level, d, k)
           w == RunFirst(t, m, "ready", "background")
           e == GetRunningBackgroundActivitiesCount(w)
<1>1. CheckReadyQueue(s) = w
  BY DEF CheckReadyQueue
<1> HIDE DEF w
<1>2. c \in Nat /\ i \in Nat /\ s.level \in Nat /\ InteractiveLevel \in Nat
  BY BusySum, QueueNames, LevelsAssumption
<1>3. /\ n \in 0..i
      /\ n < i => InteractiveLevel # 0 /\ c + n >= InteractiveLevel
      /\ n = 0 \/ InteractiveLevel = 0 \/ c + n <= InteractiveLevel
  <2> HIDE DEF c, i
  <2> QED
    BY <1>2, RoomFull
<1>4. (n < i) \in BOOLEAN
  OBVIOUS
<1> HIDE DEF n, t
<1>5. /\ u \in ManagerState /\ Hooked(u)
      /\ \A x \in Activities :
           Stayed(s, u, x) \/ Admitted(s, u, x, "readyInteractive", "backgroundInteractive")
      /\ n = 0 => \A x \in Activities : Stayed(s, u, x)
      /\ Len(u.queue["readyInteractive"]) = i - n
      /\ Len(u.queue["backgroundInteractive"]) = Len(s.queue["backgroundInteractive"]) + n
      /\ u.queue["ready"] = s.queue["ready"] /\ u.queue["background"] = s.queue["background"]
      /\ GetRunningBackgroundActivitiesCount(u) = c + n
      /\ u.level = s.level /\ u.enabled = s.enabled
  <2> HIDE DEF w, e, d, k
  <2>1. u = RunFirst(s, n, "readyInteractive", "backgroundInteractive")
    OBVIOUS
  <2> HIDE DEF u
  <2> QED
    BY <1>3, <2>1, AdmitInteractive
<1> HIDE DEF u
<1>6. /\ t \in ManagerState /\ t.queue = u.queue /\ t.act = u.act
      /\ t.level = u.level /\ t.enabled = u.enabled
  BY <1>4, <1>5 DEF ManagerState, t
<1>7. Hooked(t) /\ d = c + n
  BY <1>5, <1>6 DEF Hooked, On, GetRunningBackgroundActivitiesCount
<1>8. /\ \A x \in Activities :
           Stayed(s, t, x) \/ Admitted(s, t, x, "readyInteractive", "backgroundInteractive")
      /\ n = 0 => \A x \in Activities : Stayed(s, t, x)
  BY <1>5, <1>6 DEF Stayed, Admitted, On
<1>9. d \in Nat /\ k \in Nat
  BY <1>6, BusySum, QueueNames
<1>10. /\ m \in 0..k
       /\ m < k => s.level # 0 /\ d + m >= s.level
       /\ m = 0 \/ s.level = 0 \/ d + m <= s.level
  <2> HIDE DEF d, k
  <2> QED
    BY <1>2, <1>9, RoomFull
<1> HIDE DEF m
<1>11. /\ w \in ManagerState /\ Hooked(w)
       /\ \A x \in Activities : Stayed(t, w, x) \/ Admitted(t, w, x, "ready", "background")
       /\ m = 0 => \A x \in Activities : Stayed(t, w, x)
       /\ Len(w.queue["ready"]) = k - m
       /\ Len(w.queue["background"]) = Len(t.queue["background"]) + m
       /\ w.queue["readyInteractive"] = t.queue["readyInteractive"]
       /\ w.queue["backgroundInteractive"] = t.queue["backgroundInteractive"]
       /\ e = d + m
       /\ w.level = t.level /\ w.enabled = t.enabled
  <2>1. w = RunFirst(t, m, "ready", "background")
    BY DEF w
  <2> QED
    BY <1>6, <1>7, <1>10, <2>1, AdmitReady
<1>12. /\ Len(w.queue["readyInteractive"]) = i - n
       /\ Len(w.queue["ready"]) = k - m
       /\ GetRunningBackgroundActivitiesCount(w) = e
  BY <1>5, <1>6, <1>11
<1>13. /\ Len(w.queue["backgroundInteractive"]) = Len(s.queue["backgroundInteractive"]) + n
       /\ Len(w.queue["background"]) = Len(s.queue["background"]) + m
       /\ k = Len(s.queue["ready"])
  BY <1>5, <1>6, <1>11
<1> HIDE DEF c, d, e, i, k
<1>14. Full(w)
  <2>1. /\ k - m > 0 => s.level # 0 /\ e >= s.level
        /\ i - n > 0 => InteractiveLevel # 0 /\ e >= InteractiveLevel
    BY <1>2, <1>3, <1>7, <1>9, <1>10, <1>11
  <2> QED
    BY <1>5, <1>6, <1>11, <1>12, <2>1 DEF Full
<1>15. \E o \in Nat, p \in Nat : Admission(s, w, o, p)
  <2>1. /\ n = 0 => \A x \in Activities :
                     ~Admitted(s, w, x, "readyInteractive", "backgroundInteractive")
        /\ m = 0 => \A x \in Activities : ~Admitted(s, w, x, "ready", "background")
    <3>1. ASSUME NEW x \in Activities, n = 0,
                 Admitted(s, w, x, "readyInteractive", "backgroundInteractive")
          PROVE  FALSE
      <4>1. Stayed(s, t, x)
        BY <1>8, <3>1
      <4>2. ~On(w, x, "readyInteractive") /\ ~On(w, x, "background") /\ On(t, x, "readyInteractive")
        BY <3>1, <4>1, QueueNames DEF Admitted, Stayed
      <4> QED
        BY <1>11, <4>2, QueueNames DEF Stayed, Admitted
    <3>2. ASSUME NEW x \in Activities, m = 0, Admitted(s, w, x, "ready", "background")
          PROVE  FALSE
      <4>1. Stayed(t, w, x)
        BY <1>11, <3>2
      <4>2. On(t, x, "background") /\ ~On(t, x, "ready") /\ On(s, x, "ready") /\ ~On(t, x, "backgroundInteractive")
        BY <3>2, <4>1, QueueNames DEF Admitted, Stayed
      <4> QED
        BY <1>8, <4>2, QueueNames DEF Stayed, Admitted
    <3> QED
      BY <3>1, <3>2
  <2>2. n \in Nat /\ m \in Nat
    BY <1>2, <1>3, <1>9, <1>10
  <2>3. m = 0 \/ s.level = 0 \/ c + n + m <= s.level
    BY <1>2, <1>7, <1>10
  <2>4. Admission(s, w, n, m)
    BY <1>3, <1>10, <1>12, <1>13, <2>1, <2>3 DEF Admission, c, i
  <2> QED
    BY <2>2, <2>4
<1>16. \A x \in Activities :
         \/ Stayed(s, w, x)
         \/ Admitted(s, w, x, "readyInteractive", "backgroundInteractive")
         \/ Admitted(s, w, x, "ready", "background")
  <2> SUFFICES ASSUME NEW x \in Activities
               PROVE  \/ Stayed(s, w, x)
                      \/ Admitted(s, w, x, "readyInteractive", "backgroundInteractive")
                      \/ Admitted(s, w, x, "ready", "background")
    OBVIOUS
  <2>1. CASE Stayed(s, t, x) /\ Stayed(t, w, x)
    BY <2>1 DEF Stayed
  <2>2. CASE Stayed(s, t, x) /\ Admitted(t, w, x, "ready", "background")
    BY <2>2, QueueNames DEF Stayed, Admitted
  <2>3. CASE Admitted(s, t, x, "readyInteractive", "backgroundInteractive")
    <3>1. ~On(t, x, "ready")
      BY <2>3, QueueNames DEF Admitted
    <3>2. Stayed(t, w, x)
      BY <1>11, <3>1 DEF Admitted
    <3> QED
      BY <2>3, <3>2 DEF Stayed, Admitted
  <2> QED
    BY <1>8, <1>11, <2>1, <2>2, <2>3
<1> QED
  BY <1>1, <1>5, <1>6, <1>11, <1>12, <1>14, <1>15, <1>16 DEF c
================================================================================
