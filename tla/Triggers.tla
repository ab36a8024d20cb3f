------------------------------- MODULE Triggers --------------------------------
(***************************************************************************)
(* Activities that wait for a response of a service, and call their        *)
(* creator back when they run: triggers and their subscriptions            *)
(* (MojoTrigger.cpp, MojoTriggerSubscription.cpp, MojoMatcher.cpp), calls  *)
(* (MojoCall.cpp), callbacks (MojoCallback.cpp), and as much of the        *)
(* Activity as those see (Activity.cpp): it is explicit and not stored, so *)
(* it starts over until it is terminated, "watched" while anyone           *)
(* subscribes to it, and perhaps powered: then it runs before it has the   *)
(* power lock, and its callback is made when it has.                       *)
(***************************************************************************)
EXTENDS Matchers

CONSTANTS
  Activities,
  Specs,        \* the triggers an Activity may be given
  Updates,      \* those among them a complete may bring
  Responses,    \* what a trigger's service may have to say
  Faults,       \* how a call may fail: "transient", "permanent"
  None,         \* no value
  MaxChanges,   \* bound: changes of what a service has to say
  MaxFailures,  \* bound: failed calls
  MaxCompletes, \* bound: complete calls
  MaxWatches,   \* bound: subscriptions to Activities
  MaxEvents     \* bound: all of these together

ASSUME TriggersAssumption ==
  /\ Updates \subseteq Specs
  /\ \A m \in Specs : m.kind = "where" => Valid(m.where)
  /\ \A v \in Responses : v.type = "object"
  /\ Faults \subseteq {"transient", "permanent"}

VARIABLES
  act,    \* the Activities
  says,   \* what the service of each one's trigger has to say
  known,  \* the callbacks its creator has had, by serial and run
  counts  \* (bounds) changes, failures, completes and watches so far

vars == <<act, says, known, counts>>

\* CreateTrigger: disarmed, with a matcher that has matched nothing.
NewTrigger(m) ==
  [matcher |-> m, setupComplete |-> FALSE, triggered |-> FALSE,
   call |-> "none", messages |-> << >>,
   response |-> None,  \* (history) what it fired for
   armed |-> 0]        \* (history) how often it was armed

\* Created and started, but not yet scheduled; power is "none" if it needs none,
\* and otherwise as in PowerLock.
NewActivity(m, watched, power) ==
  [life |-> "live", scheduled |-> FALSE, ready |-> FALSE, running |-> FALSE,
   ending |-> FALSE, terminate |-> FALSE, restart |-> FALSE, requeue |-> FALSE,
   completed |-> FALSE,  \* m_extCommand is complete
   cancelled |-> FALSE,  \* m_intCommand is cancel
   watched |-> watched, power |-> power, trigger |-> NewTrigger(m),
   calling |-> FALSE, serial |-> 0,
   runs |-> 0,       \* (history) how often it ran
   called |-> 0,     \* (history) the last run it was called back for
   owed |-> FALSE]   \* (history) a callback failed, and is to be made again

Init ==
  /\ \E m \in Specs, watched \in BOOLEAN, power \in {"none", "unlocked"} :
       act = [a \in Activities |-> NewActivity(m, watched, power)]
  /\ says \in [Activities -> Responses]
  /\ known = [a \in Activities |-> {}]
  /\ counts = [changes |-> 0, failures |-> 0, completes |-> 0, watches |-> 0]

-----------------------------------------------------------------------------
(* The trigger.                                                            *)

Arm(t) ==
  LET u == [t EXCEPT !.triggered = FALSE, !.response = None]
  IN IF t.call = "none"
     THEN [u EXCEPT !.call = "sent", !.messages = << >>, !.armed = @ + 1] ELSE u

Unsubscribe(t) == [t EXCEPT !.call = "none", !.messages = << >>]

\* Disarm, which is called only while the trigger is armed.
Disarm(t) ==
  IF t.call # "none" THEN Unsubscribe([t EXCEPT !.triggered = FALSE, !.response = None]) ELSE t

Fire(t, response) == Unsubscribe([t EXCEPT !.triggered = TRUE, !.response = response])

-----------------------------------------------------------------------------
(* The Activity.                                                           *)

IsRunnable(r) ==
  r.scheduled /\ ~r.ending /\ ~r.completed /\ ~r.cancelled /\ r.trigger.triggered

ShouldRequeue(r) == ~r.terminate /\ r.requeue /\ ~r.restart

\* Mutant of DoCallback: the serial stays.
DoCallbackAgain(r) ==
  [r EXCEPT !.calling = TRUE, !.serial = 1, !.called = r.runs, !.owed = FALSE]

\* DoRunActivity and MojoCallback::Call; random serials are taken never to meet.
DoCallback(r) ==
  [r EXCEPT !.calling = TRUE, !.serial = r.runs, !.called = r.runs, !.owed = FALSE]

\* Activity::RunActivity: it runs, but a powered one waits for its lock.
Run(r) ==
  LET q == [r EXCEPT !.running = TRUE, !.runs = @ + 1]
  IN IF r.power \in {"none", "locked"} THEN DoCallback(q)
     ELSE [q EXCEPT !.power = "locking"]

\* RequestRunActivity: the Manager runs it now if it has room.
RequestRunActivity(r, room) ==
  LET q == [r EXCEPT !.ready = TRUE]
  IN IF room THEN Run(q) ELSE q

RequeueActivity(r, room) ==
  LET q == [r EXCEPT !.running = FALSE, !.ending = FALSE, !.restart = FALSE,
                     !.requeue = FALSE]
  IN IF IsRunnable(q) THEN RequestRunActivity(q, room) ELSE [q EXCEPT !.ready = FALSE]

Schedule(r) == [r EXCEPT !.scheduled = TRUE, !.trigger = Arm(@)]

\* RestartActivity; the Manager schedules it now if it is enabled.
RestartActivity(r, room) ==
  LET q == [r EXCEPT !.scheduled = FALSE, !.ready = FALSE, !.running = FALSE,
                     !.ending = FALSE, !.restart = FALSE, !.requeue = FALSE,
                     !.completed = FALSE, !.cancelled = FALSE]
  IN IF room THEN Schedule(q) ELSE q

\* The last part of EndActivity: nobody subscribes, and the power is off.
Finish(r, room) ==
  IF ShouldRequeue(r) THEN RequeueActivity(r, room)
  ELSE IF r.terminate THEN [r EXCEPT !.life = "released"]
  ELSE RestartActivity(r, room)

\* Called again when the last subscriber has left, and when the power is off.
EndActivity(r, room) ==
  LET q == [r EXCEPT !.ending = TRUE,
                     !.trigger = IF ShouldRequeue(r) THEN @ ELSE Disarm(@),
                     !.owed = @ /\ ShouldRequeue(r)]
  IN IF q.watched THEN q
     ELSE IF q.power \in {"none", "unlocked"} THEN Finish(q, room)
     ELSE [q EXCEPT !.power = "unlocking"]

\* SendCommand of a final command, which is refused (by a throw) if the same side
\* has sent one.
SendFinal(r, side, room) ==
  LET q == [r EXCEPT ![side] = TRUE, !.owed = FALSE]
  IN IF r[side] THEN r ELSE IF r.ending THEN q ELSE EndActivity(q, room)

\* Activity::Triggered.
Triggered(r, room) ==
  IF ~r.running /\ ~r.ready /\ IsRunnable(r) THEN RequestRunActivity(r, room) ELSE r

\* Mutant of CallbackFailed: the Activity starts over from the top.
CallbackFailedRestarting(r, kind, room) ==
  IF kind = "transient" THEN EndActivity([r EXCEPT !.calling = FALSE], room)
  ELSE SendFinal([r EXCEPT !.calling = FALSE, !.terminate = TRUE], "cancelled", room)

\* MojoCallback::Failed and Activity::CallbackFailed.
CallbackFailed(r, kind, room) ==
  IF kind = "transient" THEN EndActivity([r EXCEPT !.calling = FALSE, !.requeue = TRUE], room)
  ELSE SendFinal([r EXCEPT !.calling = FALSE, !.terminate = TRUE], "cancelled", room)

-----------------------------------------------------------------------------
(* Handlers.                                                               *)

\* What the creator has been called back with, if a is now r.
Learn(a, r) ==
  IF r.called # act[a].called THEN known[a] \cup {<<r.serial, r.called>>} ELSE known[a]

Become(a, r) ==
  /\ act' = [act EXCEPT ![a] = r]
  /\ known' = [known EXCEPT ![a] = Learn(a, r)]

Spare ==
  counts.changes + counts.failures + counts.completes + counts.watches < MaxEvents

Live(a) == act[a].life = "live"

\* The Manager is enabled, which it may not have been when the Activity asked.
ScheduleActivity(a) ==
  /\ Live(a) /\ ~act[a].scheduled
  /\ Become(a, Schedule(act[a]))
  /\ UNCHANGED <<says, counts>>

\* The Manager runs it from the queue.
RunActivity(a) ==
  /\ Live(a) /\ act[a].ready /\ ~act[a].running
  /\ Become(a, Run(act[a]))
  /\ UNCHANGED <<says, counts>>

\* The lock is taken; the callback is made, unless the Activity is ending.
PowerLockedNotification(a) ==
  /\ Live(a) /\ act[a].power = "locking"
  /\ LET r == [act[a] EXCEPT !.power = "locked"]
     IN Become(a, IF r.ending THEN r ELSE DoCallback(r))
  /\ UNCHANGED <<says, counts>>

PowerUnlockedNotification(a) ==
  /\ Live(a) /\ act[a].power = "unlocking"
  /\ \E room \in BOOLEAN : Become(a, EndActivity([act[a] EXCEPT !.power = "unlocked"], room))
  /\ UNCHANGED <<says, counts>>

Message(kind, a, body) ==
  [kind |-> kind, body |-> body, armed |-> act[a].trigger.armed]

\* The service answers the subscription, with what it has to say.
Answer(a) ==
  /\ Live(a) /\ act[a].trigger.call = "sent"
  /\ act' = [act EXCEPT ![a].trigger.call = "open",
                        ![a].trigger.messages = << Message("setup", a, says[a]) >>]
  /\ UNCHANGED <<says, known, counts>>

\* It has something else to say, and says so to those that subscribe.
Publish(a, response) ==
  /\ counts.changes < MaxChanges /\ Spare
  /\ response # says[a]
  /\ says' = [says EXCEPT ![a] = response]
  /\ act' = IF Live(a) /\ act[a].trigger.call = "open"
            THEN [act EXCEPT ![a].trigger.messages =
                    Append(@, Message("update", a, response))]
            ELSE act
  /\ counts' = [counts EXCEPT !.changes = @ + 1]
  /\ UNCHANGED known

FailSubscription(a, kind) ==
  /\ kind \in Faults /\ counts.failures < MaxFailures /\ Spare
  /\ Live(a) /\ act[a].trigger.call \in {"sent", "open"}
  /\ act' = [act EXCEPT ![a].trigger.call = "failed",
                        ![a].trigger.messages = Append(@, Message(kind, a, None))]
  /\ counts' = [counts EXCEPT !.failures = @ + 1]
  /\ UNCHANGED <<says, known>>

\* Mutant of ProcessResponse: the failed call is not made again.
ProcessResponseDropped(r, room) ==
  LET m == Head(r.trigger.messages)
      t == [r.trigger EXCEPT !.messages = Tail(@), !.setupComplete = TRUE]
  IN CASE m.kind = "transient" -> [r EXCEPT !.trigger.messages = Tail(@)]
       [] m.kind = "permanent" \/ (/\ m.kind \in {"setup", "update"}
                                   /\ Match(t.matcher, r.trigger.setupComplete, m.body)) ->
            Triggered([r EXCEPT !.trigger = Fire(t, m)], room)
       [] OTHER -> [r EXCEPT !.trigger = t]

\* ProcessResponse of the subscription and of the trigger.  MojoCall::Call drops
\* what the failed call still had to deliver.
ProcessResponse(r, room) ==
  LET m == Head(r.trigger.messages)
      t == [r.trigger EXCEPT !.messages = Tail(@)]
      set == [t EXCEPT !.setupComplete = TRUE]
      matches == Match(t.matcher, t.setupComplete, m.body)
  IN CASE m.kind = "transient" -> [r EXCEPT !.trigger.call = "sent", !.trigger.messages = << >>]
       [] m.kind = "permanent" -> Triggered([r EXCEPT !.trigger = Fire(t, m)], room)
       [] OTHER -> IF matches THEN Triggered([r EXCEPT !.trigger = Fire(set, m)], room)
                   ELSE [r EXCEPT !.trigger = set]

Respond(a) ==
  /\ Live(a) /\ act[a].trigger.messages # << >>
  /\ \E room \in BOOLEAN : Become(a, ProcessResponse(act[a], room))
  /\ UNCHANGED <<says, counts>>

\* The creator replies to the callback, or the call fails.
CallbackSucceeds(a) ==
  /\ Live(a) /\ act[a].calling
  /\ act' = [act EXCEPT ![a].calling = FALSE]
  /\ UNCHANGED <<says, known, counts>>

CallbackFails(a, kind) ==
  /\ kind \in Faults /\ counts.failures < MaxFailures /\ Spare
  /\ Live(a) /\ act[a].calling
  /\ \E room \in BOOLEAN :
       LET r == CallbackFailed(act[a], kind, room)
           again == /\ kind = "transient" /\ act[a].running /\ act[a].trigger.triggered
                    /\ ~act[a].ending /\ ~act[a].restart /\ ~act[a].terminate
       IN Become(a, [r EXCEPT !.owed = again /\ ~r.calling])
  /\ counts' = [counts EXCEPT !.failures = @ + 1]
  /\ UNCHANGED says

CheckSerial(r, serial) == serial = None \/ serial = r.serial

\* What a complete to restart brings: another trigger, perhaps.
UpdateActivity(r, m) ==
  IF m = None THEN r ELSE [r EXCEPT !.trigger = NewTrigger(m), !.owed = FALSE]

\* complete, to restart or to be done.  If the caller is neither the parent nor
\* the creator (not allowed), or a complete was accepted before, it is refused
\* only after the update has been made and the flags have been set.
Complete(a, serial, restart, m, allowed) ==
  /\ counts.completes < MaxCompletes /\ Spare
  /\ Live(a)
  /\ CheckSerial(act[a], serial)
  /\ LET r == IF restart THEN [UpdateActivity(act[a], m) EXCEPT !.restart = TRUE]
              ELSE [act[a] EXCEPT !.terminate = TRUE]
     IN \E room \in BOOLEAN :
          Become(a, IF allowed THEN SendFinal(r, "completed", room)
                    ELSE [r EXCEPT !.terminate = FALSE])
  /\ counts' = [counts EXCEPT !.completes = @ + 1]
  /\ UNCHANGED says

Completes(a) ==
  \E serial \in {None} \cup {k[1] : k \in known[a]}, allowed \in BOOLEAN :
    \/ Complete(a, serial, FALSE, None, allowed)
    \/ \E m \in Updates \cup {None} : Complete(a, serial, TRUE, m, allowed)

Watch(a) ==
  /\ counts.watches < MaxWatches /\ Spare
  /\ Live(a) /\ ~act[a].watched
  /\ act' = [act EXCEPT ![a].watched = TRUE]
  /\ counts' = [counts EXCEPT !.watches = @ + 1]
  /\ UNCHANGED <<says, known>>

\* The last subscriber leaves, and the Activity ends.
Leave(a) ==
  /\ Live(a) /\ act[a].watched
  /\ \E room \in BOOLEAN : Become(a, EndActivity([act[a] EXCEPT !.watched = FALSE], room))
  /\ UNCHANGED <<says, counts>>

Next ==
  \E a \in Activities :
    \/ ScheduleActivity(a) \/ RunActivity(a)
    \/ PowerLockedNotification(a) \/ PowerUnlockedNotification(a)
    \/ Answer(a) \/ Respond(a)
    \/ \E response \in Responses : Publish(a, response)
    \/ \E kind \in Faults : FailSubscription(a, kind) \/ CallbackFails(a, kind)
    \/ CallbackSucceeds(a)
    \/ Completes(a)
    \/ Watch(a) \/ Leave(a)

\* The Manager gets to the Activity, the power daemon and the service answer, and
\* what is sent arrives.  Nobody has to complete, reply or leave.
Progress(a) ==
  \/ ScheduleActivity(a) \/ RunActivity(a)
  \/ PowerLockedNotification(a) \/ PowerUnlockedNotification(a)
  \/ Answer(a) \/ Respond(a)

Spec == Init /\ [][Next]_vars /\ \A a \in Activities : WF_vars(Progress(a))

-----------------------------------------------------------------------------
(* Properties.                                                             *)

TypeOK ==
  /\ says \in [Activities -> Responses]
  /\ \A a \in Activities :
       LET r == act[a]
           t == r.trigger
       IN /\ r.life \in {"live", "released"}
          /\ \A flag \in {r.scheduled, r.ready, r.running, r.ending, r.terminate,
                          r.restart, r.requeue, r.completed, r.cancelled, r.watched,
                          r.calling} :
               flag \in BOOLEAN
          /\ r.power \in {"none", "unlocked", "locking", "locked", "unlocking"}
          /\ t.matcher \in Specs /\ t.call \in {"none", "sent", "open", "failed"}
          /\ t.triggered \in BOOLEAN /\ t.setupComplete \in BOOLEAN
          /\ t.call = "none" => t.messages = << >>
          /\ t.triggered => t.response # None
          /\ r.ready => r.scheduled
          /\ \A k \in known[a] : k[1] \in Nat /\ k[2] \in 1..r.runs

\* The condition a trigger states, of a response.
Asks(m, response) ==
  CASE m.kind = "simple"  -> TRUE
    [] m.kind = "key"     -> Has(response, m.key)
    [] m.kind = "compare" -> Has(response, m.key) /\ response.props[m.key] # m.value
    [] m.kind = "where"   -> Satisfies(m.where, response, "and")

\* A trigger that has fired did so for a response of the subscription it was last
\* armed with that fulfils its condition, or because that subscription failed for
\* good; and it takes no further response (MojoTrigger.cpp, Arm, Fire and
\* ProcessResponse).
FiredForCause ==
  \A a \in Activities :
    LET t == act[a].trigger
    IN t.triggered =>
         /\ t.call = "none"
         /\ t.response.armed = t.armed
         /\ \/ t.response.kind = "permanent"
            \/ t.response.kind \in {"setup", "update"} /\ Asks(t.matcher, t.response.body)

\* An Activity in a ready queue, and one that runs, was triggered: restarting,
\* requeueing and late answers to an old callback never run it for nothing
\* (Activity.cpp, RequeueActivity, RestartActivity and CallbackFailed). If it has
\* a trigger that was never armed, a refused complete has put it there since
\* (ActivityCategory.cpp, CompleteActivity).
ReadyIsTriggered ==
  \A a \in Activities :
    act[a].ready /\ ~act[a].ending =>
      act[a].trigger.triggered \/ act[a].trigger.armed = 0

\* The state is what its declarations say; a trigger fires, and an Activity runs,
\* for cause.
Consistent == TypeOK /\ FiredForCause /\ ReadyIsTriggered

\* Once the creator has been called back for a run, whoever completes it with the
\* serial of a callback names this one: no complete meant for an earlier run is
\* accepted any more (ActivityCategory.cpp, CheckSerial; MojoCallback.cpp, Call).
\* Before, while a powered Activity that runs waits for its lock, the serial of
\* the earlier run is still the one that counts, and ends the new run.
SerialNamesRun ==
  [][\A a \in Activities : \A k \in known[a] :
       (/\ counts'.completes # counts.completes
        /\ act[a].running /\ act[a].called = act[a].runs
        /\ \E restart \in BOOLEAN, m \in Updates \cup {None}, allowed \in BOOLEAN :
             Complete(a, k[1], restart, m, allowed))
         => k[2] = act[a].runs]_vars

\* A service does not keep saying what an armed trigger waits for without the
\* trigger firing, whatever happens to the subscription
\* (MojoTriggerSubscription.cpp, ProcessResponse).
NothingMissed ==
  \A a \in Activities :
    []<>~(/\ Live(a) /\ act[a].trigger.call # "none"
          /\ act[a].trigger.matcher.kind # "simple"
          /\ Asks(act[a].trigger.matcher, says[a]))

\* An Activity whose callback failed for a passing reason is called back again
\* for the same trigger, unless it ends for good or is given another trigger
\* first, or someone stays subscribed to it
\* (Activity.cpp, RequestRequeueActivity: "start from the scheduled point, rather
\* than all the way at the top").
CalledAgain ==
  \A a \in Activities : act[a].owed ~> (~act[a].owed \/ act[a].watched \/ ~Live(a))
=============================================================================
