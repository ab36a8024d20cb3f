------------------------------- MODULE Activity -------------------------------
(***************************************************************************)
(* One Activity (Activity.cpp): its flags, the commands it has been given, *)
(* its subscriptions and the prerequisites it waits for, as a record; the  *)
(* predicates the code asks of it; and the operations that touch nothing   *)
(* but the Activity itself.                                                *)
(*                                                                         *)
(* A subscription stands for the subscriber that made it: a client that    *)
(* subscribes twice is two members of Subscribers.                         *)
(***************************************************************************)
EXTENDS Integers, Sequences, SequencesExt

CONSTANTS
  Activities,     \* the Activities clients ever create
  Subscribers,    \* the subscriptions clients ever hold on them
  None,           \* an expired weak pointer to a subscription
  \* How each Activity was specified when it was created:
  Immediate,      \* skips the ready queues
  UserInitiated,  \* a background Activity of the interactive class
  WithCallback,   \* has a callback
  Persistent,     \* is stored in db8
  Explicit,       \* restarts until it is completed explicitly
  Powered,        \* keeps the device awake while it runs
  Triggered,      \* has a trigger
  Timed,          \* has a schedule
  Recurring,      \* has a schedule that is an unbounded interval
  Requiring       \* has a requirement

ASSUME SubscribersAssumption == None \notin Subscribers

ASSUME SpecificationsAssumption ==
  /\ Immediate \subseteq Activities
  /\ UserInitiated \subseteq Activities
  /\ WithCallback \subseteq Activities
  /\ Persistent \subseteq Activities
  /\ Explicit \subseteq Activities
  /\ Powered \subseteq Activities
  /\ Triggered \subseteq Activities
  /\ Timed \subseteq Activities
  /\ Recurring \subseteq Activities
  /\ Requiring \subseteq Activities

-----------------------------------------------------------------------------
(* The state of an Activity.                                               *)

FinalCommand == {"stop", "cancel", "complete"}
ActivityCommand == {"none", "start", "pause"} \cup FinalCommand

\* A persist command hooked to an Activity, by what runs when it completes:
\* FinishCreateActivity (with the call's subscribe and start parameters), the
\* Finish methods of stop, cancel and complete, which unregister the name,
\* and FinishCompleteActivity of a restarting complete, which does not.
PersistCommand ==
  [finish : {"create", "end", "restart"},
   sub    : Subscribers \cup {None},
   start  : BOOLEAN]

ActivityState ==
  [life : {"new", "live", "released"}, \* never created, in m_activities, removed
   named       : BOOLEAN,              \* m_nameTableItem.is_linked()
   initialized : BOOLEAN,
   scheduled   : BOOLEAN,
   ready       : BOOLEAN,
   running     : BOOLEAN,
   ending      : BOOLEAN,
   terminate   : BOOLEAN,
   restart     : BOOLEAN,
   requeue     : BOOLEAN,
   yielding    : BOOLEAN,
   released    : BOOLEAN,
   intCommand  : ActivityCommand,
   extCommand  : ActivityCommand,
   sentCommand : ActivityCommand,
   subscriptions  : SUBSET Subscribers,
   told           : SUBSET Subscribers, \* sent an event that asks them to leave
   parent         : Subscribers \cup {None},
   releasedParent : Subscribers \cup {None},
   adopters       : Seq(Subscribers),
   trigger     : {"none", "idle", "armed", "fired"},
   schedule    : {"none", "idle", "queued", "due"},
   requirement : {"none", "met", "unmet"},
   power       : {"none", "unlocked", "locking", "locked", "unlocking"},
   callback    : {"none", "idle", "calling"},
   persistCommands : Seq(PersistCommand)]

\* An Activity as the constructor and the specification leave it.
NewActivity(a) ==
  [life |-> "new", named |-> FALSE,
   initialized |-> FALSE, scheduled |-> FALSE, ready |-> FALSE,
   running |-> FALSE, ending |-> FALSE, terminate |-> FALSE,
   restart |-> FALSE, requeue |-> FALSE, yielding |-> FALSE,
   released |-> TRUE,
   intCommand |-> "none", extCommand |-> "none", sentCommand |-> "none",
   subscriptions |-> {}, told |-> {}, parent |-> None,
   releasedParent |-> None, adopters |-> << >>,
   trigger     |-> IF a \in Triggered    THEN "idle"     ELSE "none",
   schedule    |-> IF a \in Timed        THEN "idle"     ELSE "none",
   requirement |-> IF a \in Requiring    THEN "unmet"    ELSE "none",
   power       |-> IF a \in Powered      THEN "unlocked" ELSE "none",
   callback    |-> IF a \in WithCallback THEN "idle"     ELSE "none",
   persistCommands |-> << >>]

-----------------------------------------------------------------------------
(* Predicates.                                                             *)

\* The object exists: the id table, a subscription or a persist command
\* holds a reference to it.
Exists(r) ==
  \/ r.life = "live"
  \/ r.life = "released" /\ (r.subscriptions # {} \/ r.persistCommands # << >>)

\* A call can find it, by its id or by its name.
CanLookup(r) == r.life = "live" \/ (Exists(r) /\ r.named)

\* Commands in priority order: cancel, stop, complete, pause, start.
ComputeNextExternalCommand(r) ==
  IF      "cancel" \in {r.intCommand, r.extCommand} THEN "cancel"
  ELSE IF "stop"   \in {r.intCommand, r.extCommand} THEN "stop"
  ELSE IF r.extCommand = "complete"                 THEN "complete"
  ELSE IF "pause"  \in {r.intCommand, r.extCommand} THEN "pause"
  ELSE IF r.extCommand = "start"                    THEN "start"
  ELSE "none"

PrerequisitesMet(r) ==
  /\ r.trigger \in {"none", "fired"}
  /\ r.schedule \in {"none", "due"}
  /\ r.requirement # "unmet"

IsRunnable(r) ==
  /\ r.scheduled
  /\ ~r.ending
  /\ ComputeNextExternalCommand(r) = "start"
  /\ PrerequisitesMet(r)

ShouldRequeue(r) ==
  r.callback # "none" /\ ~r.terminate /\ r.requeue /\ ~r.restart

\* Mutant of ShouldRestart: the terminate flag is not looked at.
ShouldRestartTerminated(r, a) ==
  /\ r.callback # "none"
  /\ r.restart \/ a \in Persistent \/ a \in Explicit \/ (r.schedule # "none" /\ a \in Recurring)

\* Only an interval schedule is ever rescheduled.
ShouldRestart(r, a) ==
  /\ r.callback # "none"
  /\ ~r.terminate
  /\ \/ r.restart
     \/ a \in Persistent
     \/ a \in Explicit
     \/ r.schedule # "none" /\ a \in Recurring

\* A command sent now throws, because a final one was accepted before.
AlreadyEnded(r, internal) ==
  IF internal THEN r.intCommand \in {"cancel", "stop"}
  ELSE r.extCommand \in FinalCommand

-----------------------------------------------------------------------------
(* Operations on the Activity alone.                                       *)

BroadcastCommand(r, command) ==
  [r EXCEPT !.sentCommand = command,
            !.told = IF command \in FinalCommand THEN r.subscriptions ELSE @]

\* DoRunActivity and DoCallback: a new call replaces one still in flight.
DoRunActivity(r) ==
  [BroadcastCommand(r, "start") EXCEPT
     !.callback = IF @ = "none" THEN "none" ELSE "calling"]

\* RunActivity, PowerManager::RequestBeginPowerActivity and
\* PowerdPowerActivity::Begin: run now, or when the power has been locked on.
RunActivity(r) ==
  LET q == [r EXCEPT !.running = TRUE]
  IN IF r.power \in {"none", "locked"} THEN DoRunActivity(q)
     ELSE [q EXCEPT !.power = "locking"]

AddSubscription(r, b) == [r EXCEPT !.subscriptions = @ \cup {b}]

SetParent(r, b) == [r EXCEPT !.parent = b, !.released = FALSE]

\* The first adopter becomes the parent, and the Activity is not ending.
DoAdopt(r) ==
  [r EXCEPT !.releasedParent = None,
            !.parent = Head(r.adopters),
            !.adopters = Tail(@),
            !.released = FALSE,
            !.ending = FALSE]

\* The member e of a list, taken off it (the list is as it was if e is not
\* a member): an intrusive hook's unlink, or a find and erase.
Without(list, e) ==
  IF \E i \in 1..Len(list) : list[i] = e
  THEN RemoveAt(list, CHOOSE i \in 1..Len(list) : list[i] = e)
  ELSE list
=============================================================================
