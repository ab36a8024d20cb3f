------------------------------ MODULE Lifecycle -------------------------------
(***************************************************************************)
(* What happens to an Activity from its first command to its end: commands *)
(* (SendCommand), ending, requeueing and restarting (EndActivity),         *)
(* subscriptions and adoption, and the persist commands that hold it up    *)
(* (Activity.cpp, with the Finish methods of ActivityCategory.cpp).        *)
(*                                                                         *)
(* A C++ exception ends a handler and leaves what it changed so far; an    *)
(* operation that throws returns the state at the throw.                   *)
(***************************************************************************)
EXTENDS RunQueues

-----------------------------------------------------------------------------
(* Starting, requeueing, restarting.                                       *)

\* SendCommand, once the command is stored, when the next command is neither
\* final nor the one last sent: a start waits until the Activity may run, a
\* change between running and paused is only passed on.
Advance(s, a) ==
  LET r == s.act[a]
      next == ComputeNextExternalCommand(r)
  IN IF next = "start" /\ ~r.running
     THEN IF IsRunnable(r) /\ ~r.ready THEN RequestRunActivity(s, a) ELSE s
     ELSE SetAct(s, a, BroadcastCommand(r, next))

\* Mutants of RequeueActivity: the ready flag stays set; or the Activity waits
\* for an event that has happened already.
RequeueActivityReady(s, a) ==
  LET r == [s.act[a] EXCEPT !.running = FALSE, !.ending = FALSE,
                            !.restart = FALSE, !.requeue = FALSE,
                            !.yielding = FALSE]
      t == SetAct(s, a, r)
  IN IF IsRunnable(r) THEN RequestRunActivity(t, a) ELSE InformActivityNotReady(t, a)

RequeueActivityWaiting(s, a) ==
  LET r == [s.act[a] EXCEPT !.running = FALSE, !.ending = FALSE,
                            !.restart = FALSE, !.requeue = FALSE,
                            !.yielding = FALSE, !.ready = FALSE]
  IN InformActivityNotReady(SetAct(s, a, r), a)

\* Back to the scheduled queue, or to a ready queue, with the trigger and the
\* schedule as they are.
RequeueActivity(s, a) ==
  LET r == [s.act[a] EXCEPT !.running = FALSE, !.ending = FALSE,
                            !.restart = FALSE, !.requeue = FALSE,
                            !.yielding = FALSE]
      t == SetAct(s, a, r)
  IN IF IsRunnable(r) THEN RequestRunActivity(t, a)
     ELSE InformActivityNotReady(SetAct(t, a, [r EXCEPT !.ready = FALSE]), a)

\* From the top: every flag and command is cleared and start is sent again.
RestartActivity(s, a) ==
  LET r == [s.act[a] EXCEPT !.initialized = FALSE, !.scheduled = FALSE,
                            !.ready = FALSE, !.running = FALSE,
                            !.ending = FALSE, !.restart = FALSE,
                            !.requeue = FALSE, !.yielding = FALSE,
                            !.intCommand = "none", !.extCommand = "none",
                            !.sentCommand = "none"]
      t == RequestScheduleActivity(SetAct(s, a, r), a)
  IN Advance(SetAct(t, a, [t.act[a] EXCEPT !.extCommand = "start"]), a)

-----------------------------------------------------------------------------
(* Ending.                                                                 *)

\* Mutant of Disarm: the schedule stays queued.
DisarmTriggerOnly(r) ==
  IF ShouldRequeue(r) THEN r
  ELSE [r EXCEPT !.trigger = IF @ = "armed" THEN "idle" ELSE @]

\* Unless it will only requeue, an ending Activity gives up what it waits for.
Disarm(r) ==
  IF ShouldRequeue(r) THEN r
  ELSE [r EXCEPT !.trigger = IF @ = "armed" THEN "idle" ELSE @,
                 !.schedule = IF @ = "queued" THEN "idle" ELSE @]

\* EndActivity's last part: no subscriber, no power, no persist command.
Finish(s, a) ==
  LET t == InformActivityEnd(s, a)
  IN IF ShouldRequeue(s.act[a]) THEN RequeueActivity(t, a)
     ELSE IF ShouldRestart(s.act[a], a) THEN RestartActivity(t, a)
     ELSE ReleaseActivity(t, a)

\* Mutant of EndActivity: the power stays on.
EndActivityPowered(s, a) ==
  LET r == Disarm([s.act[a] EXCEPT !.ending = TRUE])
      t == SetAct(s, a, r)
  IN IF r.subscriptions # {} \/ r.persistCommands # << >> THEN t
     ELSE Finish(t, a)

\* Mutant of EndActivity: it does not wait for the power.
EndActivityUnwaited(s, a) ==
  LET r == Disarm([s.act[a] EXCEPT !.ending = TRUE,
                                   !.power = IF @ = "locked" THEN "unlocking" ELSE @])
      t == SetAct(s, a, r)
  IN IF r.subscriptions # {} \/ r.persistCommands # << >> THEN t
     ELSE Finish(t, a)

\* Called again by whatever it waits for: first the subscribers, then the
\* power (RequestEndPowerActivity, PowerdPowerActivity::End), then the persist
\* commands.
EndActivity(s, a) ==
  LET r == Disarm([s.act[a] EXCEPT !.ending = TRUE])
      t == SetAct(s, a, r)
  IN IF r.subscriptions # {} THEN t
     ELSE IF r.power \notin {"none", "unlocked"}
       THEN SetAct(t, a, [r EXCEPT !.power = "unlocking"])
     ELSE IF r.persistCommands # << >> THEN t
     ELSE Finish(t, a)

\* SendCommand: store it (or throw), and act on the command that now counts.
SendCommand(s, a, command, internal) ==
  LET t == IF ~internal /\ command = "start"
              /\ ~s.act[a].initialized /\ ~s.act[a].ending
           THEN RequestScheduleActivity(s, a) ELSE s
      r == IF internal THEN [t.act[a] EXCEPT !.intCommand = command]
           ELSE [t.act[a] EXCEPT !.extCommand = command]
      next == ComputeNextExternalCommand(r)
  IN IF AlreadyEnded(t.act[a], internal) THEN t
     ELSE IF r.ending \/ next = r.sentCommand THEN SetAct(t, a, r)
     ELSE IF next \in FinalCommand
       THEN EndActivity(SetAct(t, a, BroadcastCommand(r, next)), a)
     ELSE Advance(SetAct(t, a, r), a)

\* A prerequisite changed: run if that was the last one missing.
RunIfRunnable(s, a) ==
  LET r == s.act[a]
  IN IF ~r.running /\ ~r.ready /\ IsRunnable(r) THEN RequestRunActivity(s, a) ELSE s

\* Mutant of WithdrawIfReady: the Activity stays in line.
WithdrawNever(s, a) == s

\* A prerequisite went away: leave the ready queue.
WithdrawIfReady(s, a) ==
  LET r == s.act[a]
  IN IF ~r.running /\ r.ready
     THEN InformActivityNotReady(SetAct(s, a, [r EXCEPT !.ready = FALSE]), a)
     ELSE s

-----------------------------------------------------------------------------
(* Subscribers.                                                            *)

\* The parent left and nobody waits to adopt.
Orphaned(s, a) ==
  LET r == s.act[a]
  IN IF r.ending \/ (~r.running /\ r.scheduled /\ r.callback # "none") THEN s
     ELSE SendCommand(s, a, "cancel", TRUE)

\* Mutant of RemoveSubscription: an adopter that left stays in line.
RemoveSubscriptionOnly(s, a, b) ==
  LET r == s.act[a]
      lost == r.parent = b
      q == [r EXCEPT
              !.subscriptions = @ \ {b},
              !.told = @ \ {b},
              !.releasedParent = IF @ = b THEN None ELSE @,
              !.parent = IF ~lost THEN @
                         ELSE IF r.adopters = << >> THEN None ELSE Head(r.adopters),
              !.adopters = IF lost /\ r.adopters # << >> THEN Tail(@) ELSE @]
      t == SetAct(s, a, q)
  IN IF q.subscriptions = {} THEN EndActivity(t, a)
     ELSE IF lost /\ r.adopters = << >> THEN Orphaned(t, a)
     ELSE t

RemoveSubscription(s, a, b) ==
  LET r == s.act[a]
      waiting == Without(r.adopters, b)
      lost == r.parent = b
      q == [r EXCEPT
              !.subscriptions = @ \ {b},
              !.told = @ \ {b},
              !.releasedParent = IF @ = b THEN None ELSE @,
              !.parent = IF ~lost THEN @
                         ELSE IF waiting = << >> THEN None ELSE Head(waiting),
              !.adopters = IF lost /\ waiting # << >> THEN Tail(waiting) ELSE waiting]
      t == SetAct(s, a, q)
  IN IF q.subscriptions = {} THEN EndActivity(t, a)  \* Abandoned
     ELSE IF lost /\ waiting = << >> THEN Orphaned(t, a)
     ELSE t

\* A waiting adopter and one that will not wait leave the same state behind.
Adopt(s, a, b) ==
  LET r == [s.act[a] EXCEPT !.adopters = Append(@, b)]
  IN SetAct(s, a, IF r.parent # None THEN r ELSE DoAdopt(r))

\* The parent gives the Activity up.
Release(s, a) ==
  LET r == [s.act[a] EXCEPT !.releasedParent = s.act[a].parent,
                            !.parent = None, !.released = TRUE]
  IN SetAct(s, a, IF r.adopters # << >> THEN DoAdopt(r) ELSE r)

\* Mutant of YieldActivity: the subscribers are not told.
YieldActivitySilently(s, a) ==
  EndActivity(SetAct(s, a, [s.act[a] EXCEPT !.yielding = TRUE, !.requeue = TRUE]), a)

\* The victim of the interactive yield timeout.
YieldActivity(s, a) ==
  LET r == s.act[a]
  IN EndActivity(SetAct(s, a, [r EXCEPT !.yielding = TRUE, !.requeue = TRUE,
                                        !.told = r.subscriptions]), a)

-----------------------------------------------------------------------------
(* Persist commands, and the end of the calls that wait for them.          *)

HookPersistCommand(s, a, command) ==
  SetAct(s, a, [s.act[a] EXCEPT !.persistCommands = Append(@, command)])

\* Mutant of FinishCreateActivity: a creator that does not subscribe becomes
\* the parent all the same.
FinishCreateActivityWithParent(s, a, b, start) ==
  LET t == SetAct(s, a, SetParent(AddSubscription(s.act[a], b), b))
  IN IF s.act[a].parent # None THEN SetAct(s, a, AddSubscription(s.act[a], b))
     ELSE IF start THEN SendCommand(t, a, "start", FALSE)
     ELSE t

\* FinishCreateActivity: SetParent throws if somebody adopted the Activity
\* while it was being stored, and then it is not started.
FinishCreateActivity(s, a, b, start) ==
  LET r == IF b = None THEN s.act[a] ELSE AddSubscription(s.act[a], b)
      t == SetAct(s, a, IF b = None THEN r ELSE SetParent(r, b))
  IN IF b # None /\ r.parent # None THEN SetAct(s, a, r)
     ELSE IF start THEN SendCommand(t, a, "start", FALSE)
     ELSE t

\* FinishStopActivity, FinishCancelActivity and FinishCompleteActivity.
FinishEnd(s, a) == SetAct(s, a, [s.act[a] EXCEPT !.named = FALSE])

FinishCall(s, a, command) ==
  CASE command.finish = "create"  -> FinishCreateActivity(s, a, command.sub, command.start)
    [] command.finish = "end"     -> FinishEnd(s, a)
    [] command.finish = "restart" -> s

\* The call's effect waits for db8 if the Activity is persistent or if a
\* command is pending already, and otherwise finishes at once.
EnsureCompletion(s, a, command) ==
  IF a \in Persistent \/ s.act[a].persistCommands # << >>
  THEN HookPersistCommand(s, a, command)
  ELSE FinishCall(s, a, command)

\* PersistCommand::Complete: finish the call, then unhook the command.
CompletePersistCommand(s, a) ==
  LET t == FinishCall(s, a, Head(s.act[a].persistCommands))
      r == [t.act[a] EXCEPT !.persistCommands = Tail(@)]
      u == SetAct(t, a, r)
  IN IF r.ending /\ r.persistCommands = << >> THEN EndActivity(u, a) ELSE u

\* Mutant of EndCall: the terminate flag is not set.
EndCallRestartable(s, a, command) ==
  IF AlreadyEnded(s.act[a], FALSE) THEN s
  ELSE EnsureCompletion(SendCommand(s, a, command, FALSE), a,
                        [finish |-> "end", sub |-> None, start |-> FALSE])

\* stop, cancel and complete without restart: the terminate flag is set
\* first, and stays set if the command is refused.
EndCall(s, a, command) ==
  LET t == SetAct(s, a, [s.act[a] EXCEPT !.terminate = TRUE])
      end == [finish |-> "end", sub |-> None, start |-> FALSE]
  IN IF AlreadyEnded(s.act[a], FALSE) THEN t
     ELSE EnsureCompletion(SendCommand(t, a, command, FALSE), a, end)
=============================================================================
