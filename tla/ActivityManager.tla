---------------------------- MODULE ActivityManager ----------------------------
(***************************************************************************)
(* The Activity Manager as its clients, its subscribers, the power daemon, *)
(* the database, the triggers and the timers drive it: one action for each *)
(* handler the event loop may call next.                                   *)
(***************************************************************************)
EXTENDS Lifecycle

CONSTANTS
  Calls,   \* the kinds of call clients make in this instance, out of CallName
  Updates  \* the changes a restarting complete may ask for, out of UpdateName

CallName ==
  {"join", "adopt", "release", "start", "stop", "cancel", "pause", "complete",
   "restart", "refused", "leave", "disable", "develop", "callbackFails"}

UpdateName ==
  {"nothing", "trigger", "noTrigger", "schedule", "noSchedule", "callback",
   "requirement", "noRequirement"}

ASSUME EnvironmentAssumption ==
  /\ Calls \subseteq CallName
  /\ Updates \subseteq UpdateName
  /\ "external" \in EnableBits

VARIABLES
  act,        \* the Activities
  queue,      \* m_runQueue
  yieldTimer, \* m_interactiveYieldTimeout is set
  level,      \* m_backgroundConcurrencyLevel
  enabled     \* m_enabled

vars == <<act, queue, yieldTimer, level, enabled>>

Now == [act |-> act, queue |-> queue, yieldTimer |-> yieldTimer,
        level |-> level, enabled |-> enabled]

Become(s) ==
  /\ act' = s.act
  /\ queue' = s.queue
  /\ yieldTimer' = s.yieldTimer
  /\ level' = s.level
  /\ enabled' = s.enabled

\* The end of a handler of Activity a: if nothing refers to the object any
\* more it is destroyed, and a hook still in a queue unlinks itself.
Reap(s, a) == IF Exists(s.act[a]) THEN s ELSE Unlink(s, a)

\* A handler of Activity a that changes the state to s.
Handle(s, a) == Become(Reap(s, a))

Init ==
  /\ act = [a \in Activities |-> NewActivity(a)]
  /\ queue = [q \in QueueName |-> << >>]
  /\ yieldTimer = FALSE
  /\ level = DefaultLevel
  /\ enabled = {"external"}

-----------------------------------------------------------------------------
(* Calls on com.palm.activitymanager (ActivityCategory.cpp).               *)

\* create: b is the subscription, or None. Somebody must hear that the
\* Activity starts: a subscriber or, if it starts now, its callback.
CreateActivity(a, b, start, requirement) ==
  /\ act[a].life = "new"
  /\ b # None \/ (start /\ act[a].callback # "none")
  /\ requirement \in IF a \in Requiring THEN {"met", "unmet"} ELSE {"none"}
  /\ LET r == [act[a] EXCEPT !.life = "live", !.named = TRUE,
                             !.requirement = requirement]
         create == [finish |-> "create", sub |-> b, start |-> start]
     IN Handle(EnsureCompletion(SetAct(Now, a, r), a, create), a)

\* join and monitor with subscribe.
JoinActivity(a, b) ==
  /\ "join" \in Calls
  /\ CanLookup(act[a])
  /\ b \notin act[a].subscriptions
  /\ Handle(SetAct(Now, a, AddSubscription(act[a], b)), a)

AdoptActivity(a, b) ==
  /\ "adopt" \in Calls
  /\ CanLookup(act[a])
  /\ b \notin act[a].subscriptions
  /\ Handle(Adopt(SetAct(Now, a, AddSubscription(act[a], b)), a, b), a)

\* Only the parent may release, and only once.
ReleaseCall(a) ==
  /\ "release" \in Calls
  /\ CanLookup(act[a])
  /\ ~act[a].released
  /\ act[a].parent # None
  /\ Handle(Release(Now, a), a)

\* start and schedule.
StartActivity(a) ==
  /\ "start" \in Calls
  /\ CanLookup(act[a])
  /\ Handle(SendCommand(Now, a, "start", FALSE), a)

PauseActivity(a) ==
  /\ "pause" \in Calls
  /\ CanLookup(act[a])
  /\ Handle(SendCommand(Now, a, "pause", FALSE), a)

StopActivity(a) ==
  /\ "stop" \in Calls
  /\ CanLookup(act[a])
  /\ Handle(EndCall(Now, a, "stop"), a)

CancelActivity(a) ==
  /\ "cancel" \in Calls
  /\ CanLookup(act[a])
  /\ Handle(EndCall(Now, a, "cancel"), a)

\* complete by the parent or the creator (or with force).
CompleteActivity(a) ==
  /\ "complete" \in Calls
  /\ CanLookup(act[a])
  /\ Handle(EndCall(Now, a, "complete"), a)

\* What a restarting complete changes: a trigger, schedule or callback it sets
\* is a new object, and a requirement it adds is not met yet.
UpdateActivity(s, a, update) ==
  LET r == s.act[a]
      Set(q) == SetAct(s, a, q)
  IN CASE update = "nothing"       -> s
       [] update = "trigger"       -> Set([r EXCEPT !.trigger = "idle"])
       [] update = "noTrigger"     -> Set([r EXCEPT !.trigger = "none"])
       [] update = "schedule"      -> Set([r EXCEPT !.schedule = "idle"])
       [] update = "noSchedule"    -> Set([r EXCEPT !.schedule = "none"])
       [] update = "callback"      -> Set([r EXCEPT !.callback = "idle"])
       [] update = "requirement"   -> WithdrawIfReady(Set([r EXCEPT !.requirement = "unmet"]), a)
       [] update = "noRequirement" -> RunIfRunnable(Set([r EXCEPT !.requirement = "none"]), a)

\* complete with restart, by the parent or the creator.
CompleteAndRestart(a, update) ==
  /\ "restart" \in Calls
  /\ CanLookup(act[a])
  /\ LET s == UpdateActivity(Now, a, update)
         t == SetAct(s, a, [s.act[a] EXCEPT !.restart = TRUE])
         restart == [finish |-> "restart", sub |-> None, start |-> FALSE]
     IN Handle(IF AlreadyEnded(t.act[a], FALSE) THEN t
               ELSE EnsureCompletion(SendCommand(t, a, "complete", FALSE), a, restart),
               a)

\* complete by anybody else is refused with MojErrAccessDenied, after the
\* flags have been set and the update, if any, has been made.
RefusedComplete(a) ==
  /\ "refused" \in Calls
  /\ CanLookup(act[a])
  /\ Handle(SetAct(Now, a, [act[a] EXCEPT !.terminate = FALSE]), a)

RefusedCompleteAndRestart(a, update) ==
  /\ "refused" \in Calls
  /\ CanLookup(act[a])
  /\ LET s == UpdateActivity(Now, a, update)
     IN Handle(SetAct(s, a, [s.act[a] EXCEPT !.restart = TRUE, !.terminate = FALSE]), a)

-----------------------------------------------------------------------------
(* Subscribers leave: when they were told to, or because they quit.        *)

Leave(a, b) ==
  /\ Exists(act[a])
  /\ b \in act[a].subscriptions
  /\ Handle(RemoveSubscription(Now, a, b), a)

LeaveWhenTold(a, b) == b \in act[a].told /\ Leave(a, b)

LeaveUntold(a, b) == "leave" \in Calls /\ b \notin act[a].told /\ Leave(a, b)

-----------------------------------------------------------------------------
(* Replies and notifications.                                              *)

CallbackSucceeds(a) ==
  /\ Exists(act[a])
  /\ act[a].callback = "calling"
  /\ Handle(SetAct(Now, a, [act[a] EXCEPT !.callback = "idle"]), a)

\* A bus failure: end this run of the Activity and queue it again.
CallbackFailsTransiently(a) ==
  /\ "callbackFails" \in Calls
  /\ Exists(act[a])
  /\ act[a].callback = "calling"
  /\ LET r == [act[a] EXCEPT !.callback = "idle", !.requeue = TRUE]
     IN Handle(EndActivity(SetAct(Now, a, r), a), a)

\* An error from the service called: cancel the Activity.
CallbackFailsPermanently(a) ==
  /\ "callbackFails" \in Calls
  /\ Exists(act[a])
  /\ act[a].callback = "calling"
  /\ LET r == [act[a] EXCEPT !.callback = "idle", !.terminate = TRUE]
     IN Handle(SendCommand(SetAct(Now, a, r), a, "cancel", TRUE), a)

TriggerFires(a) ==
  /\ Exists(act[a])
  /\ act[a].trigger = "armed"
  /\ Handle(RunIfRunnable(SetAct(Now, a, [act[a] EXCEPT !.trigger = "fired"]), a), a)

ScheduleComesDue(a) ==
  /\ Exists(act[a])
  /\ act[a].schedule = "queued"
  /\ Handle(RunIfRunnable(SetAct(Now, a, [act[a] EXCEPT !.schedule = "due"]), a), a)

RequirementMet(a) ==
  /\ Exists(act[a])
  /\ act[a].requirement = "unmet"
  /\ Handle(RunIfRunnable(SetAct(Now, a, [act[a] EXCEPT !.requirement = "met"]), a), a)

RequirementUnmet(a) ==
  /\ Exists(act[a])
  /\ act[a].requirement = "met"
  /\ Handle(WithdrawIfReady(SetAct(Now, a, [act[a] EXCEPT !.requirement = "unmet"]), a), a)

PowerLockedNotification(a) ==
  /\ Exists(act[a])
  /\ act[a].power = "locking"
  /\ LET r == [act[a] EXCEPT !.power = "locked"]
     IN Handle(SetAct(Now, a, IF r.ending THEN r ELSE DoRunActivity(r)), a)

\* Mutant of PowerUnlockedNotification: it does not go on ending.
PowerUnlockedNotificationOnly(a) ==
  /\ Exists(act[a])
  /\ act[a].power = "unlocking"
  /\ Handle(SetAct(Now, a, [act[a] EXCEPT !.power = "unlocked"]), a)

PowerUnlockedNotification(a) ==
  /\ Exists(act[a])
  /\ act[a].power = "unlocking"
  /\ LET s == SetAct(Now, a, [act[a] EXCEPT !.power = "unlocked"])
     IN Handle(IF act[a].ending THEN EndActivity(s, a) ELSE s, a)

\* db8 has answered, for good: the command at the head of the chain is done.
PersistCommandCompletes(a) ==
  /\ act[a].persistCommands # << >>
  /\ Handle(CompletePersistCommand(Now, a), a)

-----------------------------------------------------------------------------
(* The Manager's timer, and its enable bits.                               *)

\* The running interactive Activities, by place, that have been asked to yield,
\* and those that have not.
Yielding ==
  {i \in 1..Len(queue["backgroundInteractive"]) :
     act[queue["backgroundInteractive"][i]].yielding}
Candidates == (1..Len(queue["backgroundInteractive"])) \ Yielding

\* The next one to be asked.
Victim ==
  LET first == CHOOSE i \in Candidates : \A j \in Candidates : i <= j
  IN queue["backgroundInteractive"][first]

\* Ask one more to yield, if fewer do than wait.
InteractiveYieldTimeout ==
  LET waiting == Len(queue["readyInteractive"])
  IN /\ yieldTimer
     /\ IF waiting = 0 THEN Become([Now EXCEPT !.yieldTimer = FALSE])
        ELSE IF Cardinality(Yielding) >= waiting \/ Candidates = {} THEN Become(Now)
        ELSE Handle([YieldActivity(Now, Victim) EXCEPT !.yieldTimer = TRUE], Victim)

Enable(bit) ==
  /\ bit \in EnableBits \ enabled
  /\ Become([Now EXCEPT !.enabled = @ \cup {bit}])

Disable(bit) ==
  /\ "disable" \in Calls
  /\ bit \in enabled
  /\ Become([Now EXCEPT !.enabled = @ \ {bit}])

\* Enable ends with a loop that schedules every Activity waiting for it. Its
\* body is a step; nothing else happens until the loop is done.
Scheduling == IsEnabled(Now) /\ queue["initialized"] # << >>

ScheduleNextActivity ==
  /\ Scheduling
  /\ LET a == Head(queue["initialized"])
     IN Handle(ScheduleActivity(MoveTo(Now, a, "scheduled"), a), a)

-----------------------------------------------------------------------------
(* Calls on com.palm.activitymanager/devel (DevelCategory.cpp).            *)

SetConcurrency(n) ==
  /\ "develop" \in Calls
  /\ Become(SetBackgroundConcurrencyLevel(Now, n))

Evict(a) ==
  /\ "develop" \in Calls
  /\ \E i \in 1..Len(queue["background"]) : queue["background"][i] = a
  /\ Become(EvictBackgroundActivity(Now, a))

EvictAll ==
  /\ "develop" \in Calls
  /\ Become(EvictAllBackgroundActivities(Now))

Run(a) ==
  /\ "develop" \in Calls
  /\ \E q \in {"ready", "readyInteractive"} :
       \E i \in 1..Len(queue[q]) : queue[q][i] = a
  /\ Become(RunReadyBackgroundActivity(Now, a))

RunAll ==
  /\ "develop" \in Calls
  /\ Become(RunAllReadyActivities(Now))

-----------------------------------------------------------------------------
ClientCall(a) ==
  \/ \E b \in Subscribers \cup {None}, start \in BOOLEAN,
        requirement \in {"none", "met", "unmet"} :
       CreateActivity(a, b, start, requirement)
  \/ \E b \in Subscribers : JoinActivity(a, b)
  \/ \E b \in Subscribers : AdoptActivity(a, b)
  \/ ReleaseCall(a)
  \/ StartActivity(a)
  \/ PauseActivity(a)
  \/ StopActivity(a)
  \/ CancelActivity(a)
  \/ CompleteActivity(a)
  \/ \E update \in Updates : CompleteAndRestart(a, update)
  \/ RefusedComplete(a)
  \/ \E update \in Updates : RefusedCompleteAndRestart(a, update)
  \/ \E b \in Subscribers : LeaveWhenTold(a, b)
  \/ \E b \in Subscribers : LeaveUntold(a, b)

ReplyTo(a) ==
  \/ CallbackSucceeds(a)
  \/ CallbackFailsTransiently(a)
  \/ CallbackFailsPermanently(a)
  \/ TriggerFires(a)
  \/ ScheduleComesDue(a)
  \/ RequirementMet(a)
  \/ RequirementUnmet(a)
  \/ PowerLockedNotification(a)
  \/ PowerUnlockedNotification(a)
  \/ PersistCommandCompletes(a)

Client == \E a \in Activities : ClientCall(a)

Reply == \E a \in Activities : ReplyTo(a)

Develop ==
  \/ \E n \in Levels : SetConcurrency(n)
  \/ \E a \in Activities : Evict(a)
  \/ EvictAll
  \/ \E a \in Activities : Run(a)
  \/ RunAll

Next ==
  \/ ScheduleNextActivity
  \/ /\ ~Scheduling
     /\ \/ Client
        \/ Reply
        \/ InteractiveYieldTimeout
        \/ \E bit \in EnableBits : Enable(bit)
        \/ \E bit \in EnableBits : Disable(bit)
        \/ Develop

Spec == Init /\ [][Next]_vars

-----------------------------------------------------------------------------
(* Vocabulary of the properties.                                           *)

Live(a) == act[a].life = "live"

\* The places of a in the queues.
Places(a) == UNION {{<<q, i>> : i \in {j \in 1..Len(queue[q]) : queue[q][j] = a}} : q \in QueueName}

\* The queues where the flags of a live Activity say it is; none before its
\* first start.
Home(a) ==
  LET r == act[a]
  IN IF ~r.initialized THEN {}
     ELSE IF r.running
       THEN IF a \in Immediate THEN {"immediate"}
            ELSE IF a \in UserInitiated THEN {"backgroundInteractive"}
            ELSE {"background", "longBackground"}
     ELSE IF r.ready THEN IF a \in UserInitiated THEN {"readyInteractive"} ELSE {"ready"}
     ELSE IF r.scheduled THEN {"scheduled"}
     ELSE {"initialized"}

Busy == GetRunningBackgroundActivitiesCount(Now)

-----------------------------------------------------------------------------
(* Invariants.                                                             *)

\* The state is what its declarations say.
TypeOK == Now \in ManagerState

\* The flags of a live Activity and the queue it is on never disagree: it is
\* on one queue, once, and on the one its flags name. The flags change in
\* Activity.cpp and the queues in ActivityManager.cpp, in calls back and forth.
QueueMatchesFlags ==
  \A a \in Activities :
    Live(a) => IF Home(a) = {} THEN Places(a) = {}
               ELSE \E q \in Home(a) : \E i \in 1..Len(queue[q]) : Places(a) = {<<q, i>>}

\* No slot is idle: while a background Activity waits, the limit is reached,
\* and likewise for interactive ones. Every handler that frees a slot, or
\* raises the limit, must reach CheckReadyQueue.
NoIdleSlot ==
  /\ queue["ready"] # << >> => level # 0 /\ Busy >= level
  /\ queue["readyInteractive"] # << >> => InteractiveLevel # 0 /\ Busy >= InteractiveLevel

\* An Activity that waits for a slot has its trigger fired, its schedule due
\* and its requirements met: it was withdrawn if it lost one since.
QueuedIsStillWanted ==
  \A q \in {"ready", "readyInteractive"} :
    \A i \in 1..Len(queue[q]) : PrerequisitesMet(act[queue[q][i]])

\* No start is lost: a live Activity that may run is running or has asked to.
\* Whichever prerequisite, command or end of an earlier run came last asked.
NoLostStart ==
  \A a \in Activities :
    Live(a) /\ IsRunnable(act[a]) => act[a].running \/ act[a].ready

\* Power is asked for, held or being given back only by a live Activity on a
\* running queue, so no lock outlives the Activity it was taken for.
NoLeakedPower ==
  \A a \in Activities :
    act[a].power \in {"locking", "locked", "unlocking"} => Live(a) /\ act[a].running

\* An Activity that was released waits for nothing: no trigger or timer is
\* left to call an object that is going away, and it holds no slot and is not
\* in line for one. (It may be back on the scheduled queue: one that was
\* cancelled in line is still marked ready, and RequirementUnmet withdraws it.)
ReleasedIsQuiet ==
  \A a \in Activities :
    act[a].life = "released" =>
      /\ act[a].trigger # "armed"
      /\ act[a].schedule # "queued"
      /\ Places(a) \subseteq {"scheduled"} \X Nat

\* Parent, released parent and adopters are subscribers; the adopters are
\* distinct, wait only while there is a parent, and the parent is none of them.
FamilySubscribes ==
  \A a \in Activities :
    LET r == act[a]
        waiting == ToSet(r.adopters)
    IN /\ ({r.parent, r.releasedParent} \ {None}) \cup waiting \cup r.told \subseteq r.subscriptions
       /\ Cardinality(waiting) = Len(r.adopters)
       /\ waiting # {} => r.parent # None
       /\ r.parent \notin waiting

\* A live Activity whose name was given back, so that another may be created
\* under it, has been told to end by a client and will not start over.
NameFreedByFinalCommand ==
  \A a \in Activities :
    Live(a) /\ ~act[a].named => act[a].extCommand \in FinalCommand /\ act[a].terminate

-----------------------------------------------------------------------------
(* Action properties.                                                      *)

\* The handler of a.
HandlerOf(a) ==
  \/ ClientCall(a) \/ ReplyTo(a)
  \/ InteractiveYieldTimeout /\ a = Victim
  \/ ScheduleNextActivity /\ a = Head(queue["initialized"])

Entered(q) == ToSet(queue'[q]) \ ToSet(queue[q])

\* n Activities are within a limit. One more may run if the step is its own
\* handler's, and it is on q: it ended, another was let in, and it started over.
Within(n, limit, q) ==
  \/ limit = 0
  \/ n <= limit
  \/ n - 1 <= limit /\ \E a \in ToSet(queue'[q]) : HandlerOf(a)

\* Nobody is let in past the limit of its own class: after a background
\* Activity started no more run than the background limit, and after an
\* interactive one no more than the interactive limit, not counting the
\* background ones, which are let in after it. A handler may let Activities of
\* both classes in, several times. Only a developer's Run and RunAll ignore the
\* limits.
LimitRespected ==
  [][ \/ /\ Entered("background") # {} =>
              Within(Busy', level', "backgroundInteractive")
         /\ Entered("backgroundInteractive") # {} =>
              Within(Busy' - Cardinality(Entered("background")), InteractiveLevel,
                     "background")
      \/ RunAll \/ \E a \in Activities : Run(a) ]_vars

\* A cancel or stop a client was told is accepted stands: the Activity is
\* never started over, whatever its persistence, schedule or callback say.
EndIsForGood ==
  [][\A a \in Activities :
       act[a].extCommand \in {"cancel", "stop"} => act'[a].extCommand = act[a].extCommand]_vars

Lock(a) == INSTANCE PowerLock WITH lock <- act[a].power

\* Each Activity uses its power as the lock it is (PowerLock, which Power
\* implements): it begins only what is unlocked, ends only what it began, waits
\* for the notifications, also when it is adopted while it ends, and has its
\* callback called only with the lock on. A handler may take two steps of the
\* lock: a run that ended starts over, or one that just began is completed.
PowerIsALock ==
  [][\A a \in Powered :
       /\ \/ [Lock(a)!Next]_(act[a].power)
          \/ act[a].power = "unlocking" /\ act'[a].power = "locking"
          \/ act[a].power = "unlocked" /\ act'[a].power = "unlocking"
       /\ act[a].callback # "calling" /\ act'[a].callback = "calling" =>
            act'[a].power = "locked"]_vars

-----------------------------------------------------------------------------
(* Liveness.                                                               *)

\* What an Activity waits for outside the Manager, and gets: the power
\* daemon's and the database's replies, and its subscribers' leaving.
Settle(a) ==
  \/ PowerLockedNotification(a)
  \/ PowerUnlockedNotification(a)
  \/ PersistCommandCompletes(a)
  \/ \E b \in Subscribers : LeaveWhenTold(a, b)

CanSettle(a) ==
  /\ ~Scheduling
  /\ Exists(act[a])
  /\ \/ act[a].power \in {"locking", "unlocking"}
     \/ act[a].persistCommands # << >>
     \/ act[a].told \cap act[a].subscriptions # {}

CanYield ==
  /\ ~Scheduling
  /\ yieldTimer
  /\ \/ queue["readyInteractive"] = << >>
     \/ Cardinality(Yielding) < Len(queue["readyInteractive"]) /\ Candidates # {}

\* The loop of Enable goes on, the yield timer goes off, and no Activity is
\* kept waiting for all of these forever: weak fairness, with each ENABLED
\* <<A>>_vars written out. (Fairness of each reply on its own would be as
\* justified, and is not needed.)
Fairness ==
  /\ []<>~Scheduling \/ []<><<ScheduleNextActivity>>_vars
  /\ []<>~CanYield \/ []<><<InteractiveYieldTimeout>>_vars
  /\ \A a \in Activities : []<>~CanSettle(a) \/ []<><<Settle(a)>>_vars

FairSpec == Spec /\ Fairness

\* An Activity is not left ending forever once its subscribers all know: it is
\* released or starts over, after subscribers, power and db8 have let go.
EndingEnds ==
  \A a \in Activities :
    []<>~(Live(a) /\ act[a].ending /\ act[a].subscriptions = act[a].told)

\* An interactive Activity does not wait forever behind others of its class.
InteractiveGetsIn ==
  \A a \in UserInitiated :
    Places(a) \cap ({"readyInteractive"} \X Nat) # {}
      ~> Places(a) \cap ({"readyInteractive"} \X Nat) = {}
=============================================================================
