------------------------------- MODULE Scheduler -------------------------------
(***************************************************************************)
(* The Scheduler (Scheduler.cpp): two queues of schedules, one in UTC and  *)
(* one in local time, and the one wake-up that the power daemon keeps for  *)
(* both (PowerdScheduler.cpp). The time and its zone may change meanwhile, *)
(* and the Manager may be restarted.                                       *)
(*                                                                         *)
(* An Activity is reduced to what its schedule sees of it: it is queued,   *)
(* started, finished, and its record is stored when it completes.          *)
(***************************************************************************)
EXTENDS Schedules, Sequences, FiniteSets, SequencesExt

CONSTANTS
  Activities,
  Specs,        \* the schedules clients may ask for, of each Activity
  Zones,        \* what the local offset may be
  Start,        \* the time at the start
  Step,         \* granularity of the clock
  MaxClock,     \* bound: the clock
  MaxChanges,   \* bound: changes of time and zone, and restarts
  MaxRequests,  \* bound: requests the power daemon has not read
  Faults        \* what may go wrong, out of FaultName

\* The time is set; the zone changes; the Manager restarts; the power daemon's
\* call fails and is repeated; and it fails for good.
FaultName == {"time", "zone", "restart", "error", "refuse"}

ASSUME SchedulerAssumption ==
  /\ Specs \in [Activities -> SUBSET Specification]
  /\ Zones \subseteq Int /\ Zones # {}
  /\ Start \in Int /\ MaxClock \in Int
  /\ Faults \subseteq FaultName
  /\ Step \in Nat \ {0}

VARIABLES
  clock,    \* time(2), and the zone, as they are
  news,     \* a response of getSystemTime is under way
  plan,     \* the schedules of the Activities
  item,     \* their state
  queue,    \* m_queue ("utc") and m_localQueue ("local")
  offset,   \* m_localOffset, m_localOffsetSet
  wake,     \* m_nextWakeup, m_wakeScheduled
  powerd,   \* m_call, and the power daemon
  changes   \* (history, bound) how often time or zone changed, or it restarted

vars == <<clock, news, plan, item, queue, offset, wake, powerd, changes>>

-----------------------------------------------------------------------------
(* State.                                                                  *)

QueueName == {"utc", "local"}

Request == [kind : {"set", "clear"}, at : Int]

NoCall == [kind |-> "none", at |-> 0]

ItemState ==
  [phase        : {"idle", "queued", "started", "gone"},
   next         : Int,        \* m_nextStart
   lastFinished : Int,        \* m_lastFinished
   stored       : Int,        \* lastFinished, in db8
   scheduled    : BOOLEAN,    \* m_scheduled
   began        : Int]        \* (history) when it last started

PowerDaemon ==
  [call     : Request \cup {NoCall},               \* m_call
   reply    : {"none", "ok", "error", "refuse"},  \* its response, under way
   requests : Seq(Request),                       \* those it has not read
   alarm    : Int,
   waking   : BOOLEAN,                            \* scheduledwakeup is under way
   refused  : BOOLEAN]                            \* it failed for good

SchedulerState ==
  [item   : [Activities -> ItemState],
   queue  : [QueueName -> Seq(Activities)],
   offset : [set : BOOLEAN, value : Int],
   wake   : [scheduled : BOOLEAN, at : Int],
   powerd : PowerDaemon]

Init ==
  /\ clock = [now |-> Start, zone |-> CHOOSE z \in Zones : TRUE]
  /\ news = TRUE
  /\ plan \in {p \in [Activities -> {CreateSchedule(spec) : spec \in UNION Range(Specs)} \ {Error}] :
               \A a \in Activities : \E spec \in Specs[a] : p[a] = CreateSchedule(spec)}
  /\ item = [a \in Activities |->
               [phase |-> "idle", next |-> plan[a].start, lastFinished |-> Never,
                stored |-> Never, scheduled |-> FALSE, began |-> Never]]
  /\ queue = [q \in QueueName |-> << >>]
  /\ offset = [set |-> FALSE, value |-> 0]
  /\ wake = [scheduled |-> FALSE, at |-> 0]
  /\ powerd = [call |-> NoCall, reply |-> "none", requests |-> << >>,
               alarm |-> Never, waking |-> FALSE, refused |-> FALSE]
  /\ changes = 0

Now == [item |-> item, queue |-> queue, offset |-> offset, wake |-> wake, powerd |-> powerd]

\* The next state, evaluated once.
Become(s) ==
  \E r \in {s} :
    /\ item' = r.item
    /\ queue' = r.queue
    /\ offset' = r.offset
    /\ wake' = r.wake
    /\ powerd' = r.powerd

QueueOf(a) == IF plan[a].local THEN "local" ELSE "utc"

\* Schedule::GetTime.
GetTime(s, a) == clock.now + IF plan[a].local THEN s.offset.value ELSE 0

Local(a, time) == IF plan[a].local THEN time + clock.zone ELSE time

-----------------------------------------------------------------------------
(* The wake-up.                                                            *)

\* A new call replaces, and so cancels, the one under way.
Send(s, request) ==
  [s EXCEPT !.powerd.call = request, !.powerd.reply = "none",
            !.powerd.requests = Append(@, request)]

UpdateTimeout(s, at) ==
  [Send(s, [kind |-> "set", at |-> at]) EXCEPT !.wake = [scheduled |-> TRUE, at |-> at]]

CancelTimeout(s) ==
  IF s.wake.scheduled
  THEN [Send(s, [kind |-> "clear", at |-> 0]) EXCEPT !.wake.scheduled = FALSE]
  ELSE s

\* The local queue is not touched until the offset is known.
Usable(s) == {q \in QueueName : s.queue[q] # << >> /\ (q = "local" => s.offset.set)}

\* When the first item of a queue is to start, in UTC.
HeadTime(s, q) ==
  s.item[Head(s.queue[q])].next - IF q = "local" THEN s.offset.value ELSE 0

\* Mutant of GetNextStartTime: the local queue comes first.
GetNextStartTimeLocal(s) ==
  HeadTime(s, IF "local" \in Usable(s) THEN "local" ELSE "utc")

GetNextStartTime(s) ==
  LET q == CHOOSE q \in Usable(s) : \A r \in Usable(s) : HeadTime(s, q) <= HeadTime(s, r)
  IN HeadTime(s, q)

\* The items at the front of a queue that are due.
Due(s, q) ==
  {i \in DOMAIN s.queue[q] :
     \A j \in 1..i : s.item[s.queue[q][j]].next <= GetTime(s, s.queue[q][j])}

\* ProcessQueue, of each of the queues that may be touched: what is due leaves
\* them, and is Scheduled.
ProcessQueue(s) ==
  LET due == [q \in QueueName |-> IF q \in Usable(s) THEN Due(s, q) ELSE {}]
      gone == UNION {{s.queue[q][i] : i \in due[q]} : q \in QueueName}
  IN [s EXCEPT !.queue = [q \in QueueName |->
                            SubSeq(@[q], Cardinality(due[q]) + 1, Len(@[q]))],
               !.item = [a \in Activities |->
                           IF a \in gone
                           THEN [@[a] EXCEPT !.phase = "started", !.scheduled = TRUE,
                                             !.began = Local(a, clock.now)]
                           ELSE @[a]]]

\* Op(v), with v evaluated once.
Then(v, Op(_)) == CHOOSE r \in {Op(x) : x \in {v}} : TRUE

\* The end of DequeueAndUpdateTimeout: the wake-up is moved, set or cleared.
SetWake(s) ==
  IF Usable(s) = {} THEN CancelTimeout(s)
  ELSE Then(GetNextStartTime(s),
            LAMBDA at : IF s.wake = [scheduled |-> TRUE, at |-> at] THEN s
                        ELSE UpdateTimeout(s, at))

\* Mutant of DequeueAndUpdateTimeout: a wake-up that is set is never moved.
DequeueAndUpdateTimeoutOnce(s) ==
  Then(ProcessQueue(s), LAMBDA t : IF Usable(t) # {} /\ t.wake.scheduled THEN t ELSE SetWake(t))

\* What is due is started, and the wake-up follows what is left.
DequeueAndUpdateTimeout(s) == Then(ProcessQueue(s), SetWake)

-----------------------------------------------------------------------------
(* The queues.                                                             *)

\* Insertion into a multiset: after the items that start no later.
Insert(items, seq, a) ==
  InsertAt(seq, Cardinality({i \in DOMAIN seq : items[seq[i]].next <= items[a].next}) + 1, a)

AddItem(s, a) ==
  LET q == QueueOf(a)
      t == [s EXCEPT !.queue[q] = Insert(s.item, @, a)]
  IN IF Head(t.queue[q]) = a THEN DequeueAndUpdateTimeout(t) ELSE t

Unlink(s, a) ==
  [s EXCEPT !.queue[QueueOf(a)] = RemoveAt(@, CHOOSE i \in DOMAIN @ : @[i] = a)]

RemoveItem(s, a) ==
  IF Head(s.queue[QueueOf(a)]) = a THEN DequeueAndUpdateTimeout(Unlink(s, a)) ELSE Unlink(s, a)

\* The items with the start times of those in A calculated again.
Recalc(s, A) ==
  [a \in Activities |->
     IF a \in A
     THEN [s.item[a] EXCEPT !.next =
            CalcNextStartTime(plan[a], s.item[a].lastFinished, GetTime(s, a))]
     ELSE s.item[a]]

\* Where the item at i of seq comes to stand when all of them are inserted, one
\* after the other, into an empty queue: the number of those before it.
Rank(items, seq, i) ==
  Cardinality({j \in DOMAIN seq :
    \/ items[seq[j]].next < items[seq[i]].next
    \/ items[seq[j]].next = items[seq[i]].next /\ j < i})

Sorted(items, seq) ==
  [k \in DOMAIN seq |-> seq[CHOOSE i \in DOMAIN seq : Rank(items, seq, i) = k - 1]]

\* ReQueue, of both queues: each item is taken out, calculated and inserted into
\* a new queue.
ReQueue(s) ==
  LET items == Recalc(s, ToSet(s.queue["utc"] \o s.queue["local"]))
  IN [s EXCEPT !.item = items, !.queue = [q \in QueueName |-> Sorted(items, @[q])]]

SetLocalOffset(s, value) ==
  IF s.offset = [set |-> TRUE, value |-> value] THEN s
  ELSE DequeueAndUpdateTimeout([s EXCEPT !.offset = [set |-> TRUE, value |-> value]])

TimeChanged(s) == Then(ReQueue(s), DequeueAndUpdateTimeout)

-----------------------------------------------------------------------------
(* The Activities.                                                         *)

Room == Len(powerd.requests) < MaxRequests

\* Schedule::Queue, called by ScheduleActivity. A restarted Activity is due no
\* earlier than it ended.
QueueItem(a) ==
  /\ Room
  /\ item[a].phase = "idle"
  /\ LET s == [Now EXCEPT !.item = Recalc(Now, {a})]
     IN Become(AddItem([s EXCEPT !.item[a].scheduled = FALSE, !.item[a].phase = "queued"], a))
  /\ UNCHANGED <<clock, news, plan, changes>>

\* Schedule::UnQueue, called by EndActivity.
UnQueueItem(a) ==
  /\ Room
  /\ item[a].phase = "queued"
  /\ Become([RemoveItem(Now, a) EXCEPT !.item[a].scheduled = FALSE, !.item[a].phase = "gone"])
  /\ UNCHANGED <<clock, news, plan, changes>>

\* Activity::ClearSchedule, called by an update: the item unlinks itself as it
\* is destroyed, and the wake-up stays.
ClearSchedule(a) ==
  /\ item[a].phase = "queued"
  /\ Become([Unlink(Now, a) EXCEPT !.item[a].phase = "gone"])
  /\ UNCHANGED <<clock, news, plan, changes>>

\* The Activity completes: its record is stored, and then the schedule is told,
\* and asked whether it is to be queued again. (One that is done in the second
\* it starts in has not finished, to its schedule, and is started once more.)
FinishItem(a) ==
  /\ item[a].phase = "started"
  /\ item[a].began # Local(a, clock.now)
  /\ LET last == item[a].lastFinished
         again == ShouldReschedule(plan[a], item[a].next)
     IN item' = [item EXCEPT
                   ![a].phase = IF again THEN "idle" ELSE "gone",
                   ![a].stored = last,
                   ![a].lastFinished = InformActivityFinished(plan[a], last, GetTime(Now, a))]
  /\ UNCHANGED <<clock, news, plan, queue, offset, wake, powerd, changes>>

-----------------------------------------------------------------------------
(* Time.                                                                   *)

\* Nothing that is due goes unnoticed while the clock ticks on.
Tick ==
  /\ clock.now + Step <= MaxClock
  /\ clock' = [clock EXCEPT !.now = @ + Step]
  /\ UNCHANGED <<news, plan, item, queue, offset, wake, powerd, changes>>

Change(fault) == fault \in Faults /\ changes < MaxChanges /\ changes' = changes + 1

\* The time is set, or the zone changes; getSystemTime's subscribers are told.
SetTime(now) ==
  /\ Change("time")
  /\ now # clock.now
  /\ clock' = [clock EXCEPT !.now = now]
  /\ news' = TRUE
  /\ UNCHANGED <<plan, item, queue, offset, wake, powerd>>

SetZone(zone) ==
  /\ Change("zone")
  /\ zone # clock.zone
  /\ clock' = [clock EXCEPT !.zone = zone]
  /\ news' = TRUE
  /\ UNCHANGED <<plan, item, queue, offset, wake, powerd>>

\* HandleSystemTimeResponse. A failure subscribes again, which changes nothing.
HandleSystemTimeResponse ==
  /\ Room
  /\ news
  /\ news' = FALSE
  /\ Become(Then(SetLocalOffset(Now, clock.zone), TimeChanged))
  /\ UNCHANGED <<clock, plan, changes>>

-----------------------------------------------------------------------------
(* The power daemon.                                                       *)

\* It reads a request, and answers; only the last call is still listening.
\* An alarm that is set replaces the one before.
PowerdReads(outcome) ==
  /\ powerd.requests # << >>
  /\ outcome # "ok" => outcome \in Faults
  /\ LET r == Head(powerd.requests)
     IN powerd' = [powerd EXCEPT
          !.requests = Tail(@),
          !.alarm = IF outcome # "ok" THEN @ ELSE IF r.kind = "set" THEN r.at ELSE Never,
          !.refused = IF outcome = "ok" THEN FALSE ELSE @ \/ outcome = "refuse",
          !.reply = IF Len(powerd.requests) = 1 /\ powerd.call # NoCall THEN outcome ELSE @]
  /\ UNCHANGED <<clock, news, plan, item, queue, offset, wake, changes>>

\* Mutant of HandleTimeoutResponse: the call is not repeated.
HandleTimeoutResponseOnce ==
  /\ powerd.reply # "none"
  /\ powerd' = [powerd EXCEPT !.call = NoCall, !.reply = "none"]
  /\ UNCHANGED <<clock, news, plan, item, queue, offset, wake, changes>>

\* HandleTimeoutSetResponse and HandleTimeoutClearResponse.
HandleTimeoutResponse ==
  /\ powerd.reply # "none"
  /\ powerd' = IF powerd.reply = "error"
               THEN Send(Now, powerd.call).powerd
               ELSE [powerd EXCEPT !.call = NoCall, !.reply = "none"]
  /\ UNCHANGED <<clock, news, plan, item, queue, offset, wake, changes>>

\* The alarm goes off, and the daemon calls scheduledwakeup.
AlarmGoesOff ==
  /\ powerd.alarm # Never /\ powerd.alarm <= clock.now
  /\ powerd' = [powerd EXCEPT !.alarm = Never, !.waking = TRUE]
  /\ UNCHANGED <<clock, news, plan, item, queue, offset, wake, changes>>

Wake ==
  /\ Room
  /\ powerd.waking
  /\ Become(DequeueAndUpdateTimeout([Now EXCEPT !.powerd.waking = FALSE,
                                                !.wake.scheduled = FALSE]))
  /\ UNCHANGED <<clock, news, plan, changes>>

\* The Manager restarts: Activities that have not ended are loaded, with the
\* lastFinished of their records. The daemon keeps its alarm.
Restart ==
  /\ Change("restart")
  /\ item' = [a \in Activities |->
       IF item[a].phase = "gone" THEN item[a]
       ELSE [item[a] EXCEPT !.phase = "idle", !.scheduled = FALSE,
               !.lastFinished = SetLastFinishedTime(plan[a], item[a].stored, clock.now)]]
  /\ queue' = [q \in QueueName |-> << >>]
  /\ offset' = [set |-> FALSE, value |-> 0]
  /\ wake' = [scheduled |-> FALSE, at |-> 0]
  /\ powerd' = [powerd EXCEPT !.call = NoCall, !.reply = "none"]
  /\ news' = TRUE
  /\ UNCHANGED <<clock, plan>>

-----------------------------------------------------------------------------
Next ==
  \/ \E a \in Activities : QueueItem(a)
  \/ \E a \in Activities : UnQueueItem(a)
  \/ \E a \in Activities : ClearSchedule(a)
  \/ \E a \in Activities : FinishItem(a)
  \/ Tick
  \/ \E now \in {Start, MaxClock} : SetTime(now)
  \/ \E zone \in Zones : SetZone(zone)
  \/ HandleSystemTimeResponse
  \/ \E outcome \in {"ok", "error", "refuse"} : PowerdReads(outcome)
  \/ HandleTimeoutResponse
  \/ AlarmGoesOff
  \/ Wake
  \/ Restart

\* The daemon answers, not with an error forever, its alarm goes off, and the
\* bus delivers.
Spec ==
  /\ Init /\ [][Next]_vars
  /\ WF_vars(HandleSystemTimeResponse)
  /\ SF_vars(PowerdReads("ok"))
  /\ WF_vars(HandleTimeoutResponse)
  /\ WF_vars(AlarmGoesOff)
  /\ SF_vars(Wake)

-----------------------------------------------------------------------------
(* Properties.                                                             *)

TypeOK ==
  /\ Now \in SchedulerState
  /\ clock \in [now : Int, zone : Int]
  /\ plan \in [Activities -> Schedule]

\* An item is in the queue of its kind exactly while it is queued, and once.
Linked(s) ==
  \A q \in QueueName :
    /\ IsInjective(s.queue[q])
    /\ ToSet(s.queue[q]) = {a \in Activities : s.item[a].phase = "queued" /\ QueueOf(a) = q}

\* The queues stay in the order they are dequeued in, though start times change.
InOrder(s) ==
  \A q \in QueueName : \A i, j \in DOMAIN s.queue[q] :
    i < j => s.item[s.queue[q][i]].next <= s.item[s.queue[q][j]].next

\* While an item could be started, a wake-up is set, and for no later than its
\* start.
WakeIsSet(s) ==
  Usable(s) # {} => s.wake.scheduled /\ s.wake.at <= GetNextStartTime(s)

\* Queues and wake-up are ready for the next start: nothing that is queued can be
\* overtaken or slept through (Scheduler.cpp, DequeueAndUpdateTimeout and ReQueue).
Consistent == TypeOK /\ Linked(Now) /\ InOrder(Now) /\ WakeIsSet(Now)

\* What the Scheduler holds to be set is what the daemon has, or is about to,
\* unless it has refused, or the wake-up itself is under way.
WakeIsHeard(s) ==
  LET set == [kind |-> "set", at |-> s.wake.at]
  IN s.wake.scheduled =>
       \/ s.powerd.alarm = s.wake.at /\ s.powerd.requests = << >>
       \/ s.powerd.requests # << >> /\ Last(s.powerd.requests) = set
       \/ s.powerd.reply = "error" /\ s.powerd.call = set
       \/ s.powerd.waking \/ s.powerd.refused

\* The daemon and the Scheduler have the same wake-up (PowerdScheduler.cpp, UpdateTimeout
\* and HandleTimeoutSetResponse).
DaemonAgrees == WakeIsHeard(Now)

\* An item that is due does not stay queued, however time and zone change.
DueStarts ==
  "refuse" \notin Faults =>
  \A a \in Activities :
    (item[a].phase = "queued" /\ item[a].next <= Local(a, clock.now))
      ~> (item[a].phase # "queued" \/ item[a].next > Local(a, clock.now))

\* Between two starts there is a scheduling point: an Activity catches up once,
\* and goes on at its points.
Points(a, from, to) ==
  {t \in (from + 1)..to :
     (t - GetBaseStartTime(plan[a], item[a].lastFinished)) % plan[a].interval = 0}

\* a is started in this step.
Begins(a) == item[a].phase # "started" /\ item'[a].phase = "started"

CatchUpOnce ==
  [][ \A a \in Activities :
        Begins(a) /\ changes = 0 /\ item[a].began # Never /\ plan[a].kind # "relative" =>
        Points(a, item[a].began, item'[a].began) # {} ]_vars
=============================================================================
