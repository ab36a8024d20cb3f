------------------------------ MODULE RunQueues -------------------------------
(***************************************************************************)
(* The run queues of the Activity Manager (ActivityManager.cpp) and the    *)
(* admission of ready Activities to the running ones.                      *)
(*                                                                         *)
(* The program is one thread, and a handler calls the Manager and the      *)
(* Activity in turn, so an operation maps a whole state to a whole state:  *)
(* s is a record of the Activities (act), the queues (queue), the yield    *)
(* timeout's pointer (yieldTimer), the background concurrency level (level)*)
(* and the enable bits (enabled).                                          *)
(***************************************************************************)
EXTENDS Activity

CONSTANTS
  InteractiveLevel, \* DefaultBackgroundInteractiveConcurrencyLevel
  DefaultLevel,     \* DefaultBackgroundConcurrencyLevel
  Levels,           \* the levels a developer may set
  EnableBits        \* the bits of ENABLE_MASK

\* Zero is UnlimitedBackgroundConcurrency.
ASSUME LevelsAssumption ==
  /\ InteractiveLevel \in Nat
  /\ Levels \subseteq Nat
  /\ DefaultLevel \in Levels

QueueName ==
  {"initialized", "scheduled", "ready", "readyInteractive", "background",
   "backgroundInteractive", "longBackground", "immediate", "ended"}

ManagerState ==
  [act        : [Activities -> ActivityState],
   queue      : [QueueName -> Seq(Activities)],
   yieldTimer : BOOLEAN,
   level      : Levels,
   enabled    : SUBSET EnableBits]

IsEnabled(s) == s.enabled = EnableBits

SetAct(s, a, r) == [s EXCEPT !.act[a] = r]

\* a leaves the queue it is on: the hook is in one list at most, and unlinks
\* itself when the object is destroyed.
Unlink(s, a) ==
  [s EXCEPT !.queue = [q \in QueueName |-> Without(s.queue[q], a)]]

MoveTo(s, a, q) == [Unlink(s, a) EXCEPT !.queue[q] = Append(@, a)]

GetRunningBackgroundActivitiesCount(s) ==
  Len(s.queue["background"]) + Len(s.queue["backgroundInteractive"])

-----------------------------------------------------------------------------
(* Admission.                                                              *)

\* How many of the waiting Activities fit below a concurrency limit while
\* count Activities run.
Room(limit, count, waiting) ==
  IF limit = 0 \/ limit - count >= waiting THEN waiting
  ELSE IF limit > count THEN limit - count
  ELSE 0

\* The first n Activities of one queue move to the end of another, and run.
RunFirst(s, n, from, to) ==
  LET first == SubSeq(s.queue[from], 1, n)
      rest  == SubSeq(s.queue[from], n + 1, Len(s.queue[from]))
  IN [s EXCEPT
       !.queue = [s.queue EXCEPT ![from] = rest, ![to] = s.queue[to] \o first],
       !.act = [a \in Activities |->
                  IF \E i \in 1..n : first[i] = a THEN RunActivity(s.act[a])
                  ELSE s.act[a]]]

\* Mutant of CheckReadyQueue: one limit for both classes.
CheckReadyQueueOneLimit(s) ==
  LET n == Room(InteractiveLevel, GetRunningBackgroundActivitiesCount(s),
                Len(s.queue["readyInteractive"]))
      t == [RunFirst(s, n, "readyInteractive", "backgroundInteractive")
              EXCEPT !.yieldTimer = n < Len(s.queue["readyInteractive"])]
      m == Room(InteractiveLevel, GetRunningBackgroundActivitiesCount(t),
                Len(t.queue["ready"]))
  IN RunFirst(t, m, "ready", "background")

\* Interactive Activities are admitted first; the timeout that asks running
\* ones to yield is armed exactly while some still wait.
CheckReadyQueue(s) ==
  LET n == Room(InteractiveLevel, GetRunningBackgroundActivitiesCount(s),
                Len(s.queue["readyInteractive"]))
      t == [RunFirst(s, n, "readyInteractive", "backgroundInteractive")
              EXCEPT !.yieldTimer = n < Len(s.queue["readyInteractive"])]
      m == Room(s.level, GetRunningBackgroundActivitiesCount(t),
                Len(t.queue["ready"]))
  IN RunFirst(t, m, "ready", "background")

-----------------------------------------------------------------------------
(* What an Activity tells the Manager.                                     *)

\* Mutant of InformActivityReady: all classes share a queue.
InformActivityReadyUnsorted(s, a) == CheckReadyQueue(MoveTo(s, a, "ready"))

InformActivityReady(s, a) ==
  IF a \in Immediate
  THEN SetAct(MoveTo(s, a, "immediate"), a, RunActivity(s.act[a]))
  ELSE CheckReadyQueue(
         MoveTo(s, a, IF a \in UserInitiated THEN "readyInteractive" ELSE "ready"))

InformActivityNotReady(s, a) == MoveTo(s, a, "scheduled")

InformActivityEnd(s, a) == CheckReadyQueue(MoveTo(s, a, "ended"))

\* ReleaseActivity of the Manager: off its queue and out of m_activities.
ReleaseActivity(s, a) ==
  CheckReadyQueue(SetAct(Unlink(s, a), a, [s.act[a] EXCEPT !.life = "released"]))

\* RequestRunActivity.
RequestRunActivity(s, a) ==
  InformActivityReady(SetAct(s, a, [s.act[a] EXCEPT !.ready = TRUE]), a)

\* Arm the trigger and queue the schedule, both from scratch, and run if
\* nothing else is missing.
ScheduleActivity(s, a) ==
  LET r == [s.act[a] EXCEPT
              !.trigger = IF @ = "none" THEN "none" ELSE "armed",
              !.schedule = IF @ = "none" THEN "none" ELSE "queued",
              !.scheduled = TRUE]
      t == SetAct(s, a, r)
  IN IF IsRunnable(r) THEN RequestRunActivity(t, a) ELSE t

\* RequestScheduleActivity and InformActivityInitialized: until the Manager
\* is enabled, Activities only queue.
RequestScheduleActivity(s, a) ==
  LET t == SetAct(s, a, [s.act[a] EXCEPT !.initialized = TRUE])
  IN IF IsEnabled(s) THEN ScheduleActivity(MoveTo(t, a, "scheduled"), a)
     ELSE MoveTo(t, a, "initialized")

-----------------------------------------------------------------------------
(* Developer methods.                                                      *)

\* Mutant of SetBackgroundConcurrencyLevel: nobody is let in.
SetBackgroundConcurrencyLevelOnly(s, n) == [s EXCEPT !.level = n]

SetBackgroundConcurrencyLevel(s, n) == CheckReadyQueue([s EXCEPT !.level = n])

EvictBackgroundActivity(s, a) == CheckReadyQueue(MoveTo(s, a, "longBackground"))

EvictAllBackgroundActivities(s) ==
  CheckReadyQueue(
    [s EXCEPT !.queue["longBackground"] = @ \o s.queue["background"],
              !.queue["background"] = << >>])

RunReadyBackgroundActivity(s, a) ==
  LET to == IF \E i \in 1..Len(s.queue["ready"]) : s.queue["ready"][i] = a
            THEN "background" ELSE "backgroundInteractive"
  IN SetAct(MoveTo(s, a, to), a, RunActivity(s.act[a]))

RunAllReadyActivities(s) ==
  LET t == RunFirst(s, Len(s.queue["readyInteractive"]),
                    "readyInteractive", "backgroundInteractive")
  IN RunFirst(t, Len(t.queue["ready"]), "ready", "background")
=============================================================================
