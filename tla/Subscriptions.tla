----------------------------- MODULE Subscriptions -----------------------------
(***************************************************************************)
(* The events of one Activity on their way to its subscribers              *)
(* (Subscription.cpp, MojoSubscription.cpp).  A call that changes what db8 *)
(* holds plugs the subscriptions, and they stay plugged as long as a       *)
(* persist command is hooked to the Activity: events are held meanwhile,   *)
(* and come out when the last command has completed.  A call that throws   *)
(* behind its plug leaves the subscriptions plugged.                       *)
(*                                                                         *)
(* Which events an Activity broadcasts is decided elsewhere; here it may   *)
(* broadcast any.                                                          *)
(***************************************************************************)
EXTENDS Naturals, Sequences, SequencesExt

CONSTANTS
  Clients,     \* who may subscribe, each with one subscription at a time
  Calls,       \* calls that are completed by a persist command, once each
  MaxHeld      \* bound: events one subscription holds when another is broadcast

VARIABLES
  sub,        \* the subscriptions by client
  commands,   \* m_persistCommands, each as the call that waits for it
  persistent, \* the Activity is stored in db8
  call,       \* how far each call is
  ended,      \* who has sent a final command: m_extCommand, m_intCommand
  out         \* the messages sent by the last handler, in order

vars == <<sub, commands, persistent, call, ended, out>>

\* Who may send the Activity a final command: its clients, or the Manager.
Side == {"external", "internal"}

\* An event, and the call it is sent because of, if any.
Event == [name : {"update", "command", "other"}, cause : Calls \cup {"none"}]

Subscription ==
  [subscribed : {TRUE},
   detailed   : BOOLEAN,    \* m_detailedEvents
   plugged    : BOOLEAN,    \* m_plugged
   eventQueue : Seq(Event),
   left       : BOOLEAN,    \* (history) plugged by a call that threw
   stale      : BOOLEAN]    \* (history) the details have changed since it was
                            \* last sent them, or subscribed

NoSubscription ==
  [subscribed |-> FALSE, detailed |-> FALSE, plugged |-> FALSE,
   eventQueue |-> << >>, left |-> FALSE, stale |-> FALSE]

Message ==
  [to : Clients, event : {"answer", "update", "command", "other"}, cause : Calls \cup {"none"}]
    \cup [to : Calls, event : {"answer"}, cause : {"none"}]

Now == [sub |-> sub, commands |-> commands, call |-> call, ended |-> ended, out |-> << >>]

Become(s) ==
  /\ sub' = s.sub
  /\ commands' = s.commands
  /\ call' = s.call
  /\ ended' = s.ended
  /\ out' = s.out
  /\ UNCHANGED persistent

Init ==
  /\ sub = [x \in Clients |-> NoSubscription]
  /\ commands = << >>
  /\ persistent \in BOOLEAN
  /\ call = [c \in Calls |-> "none"]
  /\ ended = {}
  /\ out = << >>

Subscribed(s) == {x \in Clients : s.sub[x].subscribed}

-----------------------------------------------------------------------------
(* A subscription.                                                         *)

\* SendEvent: the details are those of the moment.
SendEvent(s, x, event) ==
  [s EXCEPT !.out = Append(@, [to |-> x, event |-> event.name, cause |-> event.cause]),
            !.sub[x].stale = @ /\ ~s.sub[x].detailed]

IsPersistCommandHooked(s) == s.commands # << >>

IsPlugged(s, x) == s.sub[x].plugged \/ IsPersistCommandHooked(s)

\* An update is for those who asked for details; none is held behind another
\* event, which will carry the details.
QueueEvent(s, x, event) ==
  LET update == event.name = "update"
  IN IF update /\ ~s.sub[x].detailed THEN s
     ELSE IF ~IsPlugged(s, x) THEN SendEvent(s, x, event)
     ELSE IF update /\ s.sub[x].eventQueue # << >> THEN s
     ELSE [s EXCEPT !.sub[x].eventQueue = Append(@, event)]

\* Mutant of SendHeld: the latest first.
SendHeldLatestFirst(s, x) ==
  FoldLeft(LAMBDA t, event : SendEvent(t, x, event),
           [s EXCEPT !.sub[x].eventQueue = << >>], Reverse(s.sub[x].eventQueue))

SendHeld(s, x) ==
  FoldLeft(LAMBDA t, event : SendEvent(t, x, event),
           [s EXCEPT !.sub[x].eventQueue = << >>], s.sub[x].eventQueue)

\* The plug is pulled, but nothing is sent while a command is hooked.
Unplug(s, x) ==
  LET t == [s EXCEPT !.sub[x].plugged = FALSE, !.sub[x].left = FALSE]
  IN IF IsPersistCommandHooked(t) THEN t ELSE SendHeld(t, x)

-----------------------------------------------------------------------------
(* All subscriptions of the Activity.                                      *)

ForAll(s, Op(_, _)) == FoldSeq(LAMBDA x, t : Op(t, x), s, SetToSeq(Subscribed(s)))

BroadcastEvent(s, event) == ForAll(s, LAMBDA t, x : QueueEvent(t, x, event))

PlugAllSubscriptions(s) ==
  [s EXCEPT !.sub = [x \in Clients |->
      IF s.sub[x].subscribed THEN [s.sub[x] EXCEPT !.plugged = TRUE] ELSE s.sub[x]]]

UnplugAllSubscriptions(s) == ForAll(s, Unplug)

\* Whether there is room for one more event to be held.
Room == \A x \in Clients : Len(sub[x].eventQueue) < MaxHeld

-----------------------------------------------------------------------------
(* Calls.                                                                  *)

\* Who subscribes with a call, if anybody, and how.
AddSubscription(s, x, detailed) ==
  [s EXCEPT !.sub[x] = [NoSubscription EXCEPT !.subscribed = TRUE, !.detailed = detailed]]

Answer(s, to) == [s EXCEPT !.out = Append(@, [to |-> to, event |-> "answer", cause |-> "none"])]

\* What may come of the Finish method of a call, when its command is completed
\* or it needed none: create subscribes its caller, answers, and starts the
\* Activity; the others answer.
Finish(s, c) ==
  LET done == [s EXCEPT !.call[c] = "done"]
      Started(t) == {t} \cup {BroadcastEvent(t, [name |-> n, cause |-> c]) : n \in {"command", "update"}}
  IN IF s.call[c] = "create"
     THEN Started(Answer(done, c)) \cup
          UNION {Started(Answer(AddSubscription(done, x, detailed), x)) :
                   x \in Clients \ Subscribed(s), detailed \in BOOLEAN}
     ELSE {Answer(done, c)}

\* The call is completed at once, unless it has to be stored, or to wait for
\* what is being stored.
EnsureCompletion(s, c) ==
  IF persistent \/ IsPersistCommandHooked(s)
  THEN {[s EXCEPT !.commands = Append(@, c)]}
  ELSE Finish(s, c)

CreateActivity(c) ==
  /\ call[c] = "none"
  /\ \A d \in Calls : call[d] = "none"
  /\ \E s \in EnsureCompletion([Now EXCEPT !.call[c] = "create"], c) : Become(s)

\* complete, stop, cancel, and create replacing this Activity (which cancels it
\* internally): the command is sent, if it is not sent already, behind the plug.
AcceptedEndCall(c, side) ==
  /\ side \notin ended
  /\ LET plugged == PlugAllSubscriptions([Now EXCEPT !.call[c] = "end", !.ended = @ \cup {side}])
     IN \E s \in {BroadcastEvent(plugged, [name |-> "command", cause |-> c]), plugged} :
          \E t \in EnsureCompletion(s, c) : Become(UnplugAllSubscriptions(t))

\* There was a final command before: SendCommand throws, the caller is told of the
\* error, and nothing is hooked or unplugged.
ThrowingEndCall(c, side) ==
  /\ side \in ended
  /\ LET s == PlugAllSubscriptions([Now EXCEPT !.call[c] = "done"])
         left == [x \in Clients |-> [s.sub[x] EXCEPT !.left = s.sub[x].subscribed]]
     IN Become(Answer([s EXCEPT !.sub = left], c))

EndCall(c) ==
  /\ call[c] = "none" /\ \E d \in Calls : call[d] # "none"
  /\ Room
  /\ \E side \in Side : AcceptedEndCall(c, side) \/ ThrowingEndCall(c, side)

\* complete is refused: nothing is broadcast.
RefusedComplete(c) ==
  /\ call[c] = "none" /\ \E d \in Calls : call[d] # "none"
  /\ Become(Answer(UnplugAllSubscriptions(PlugAllSubscriptions([Now EXCEPT !.call[c] = "done"])), c))

\* join and monitor.
JoinActivity(x) ==
  /\ ~sub[x].subscribed
  /\ \E detailed \in BOOLEAN : Become(Answer(AddSubscription(Now, x, detailed), x))

\* An adopter that need not wait is told that it is the parent, and then
\* answered.
AdoptActivity(x) ==
  /\ ~sub[x].subscribed
  /\ Room
  /\ \E detailed \in BOOLEAN :
       Become(Answer(QueueEvent(AddSubscription(Now, x, detailed), x,
                                [name |-> "other", cause |-> "none"]), x))

\* Mutant of UnhookPersistCommand: the last one leaves the subscriptions alone.
UnhookPersistCommandOnly(s) == [s EXCEPT !.commands = Tail(@)]

\* The command at the head is completed, and was the last, or not.
UnhookPersistCommand(s) ==
  LET t == [s EXCEPT !.commands = Tail(@)]
  IN IF IsPersistCommandHooked(t) THEN t ELSE UnplugAllSubscriptions(t)

\* Mutant of PersistCommandCompletes: it is unhooked, and then completed.
PersistCommandUnhookedFirst ==
  /\ commands # << >>
  /\ \E s \in Finish(UnhookPersistCommand(Now), Head(commands)) : Become(s)

PersistCommandCompletes ==
  /\ commands # << >>
  /\ \E s \in Finish(Now, Head(commands)) : Become(UnhookPersistCommand(s))

-----------------------------------------------------------------------------
(* Events of other causes.                                                 *)

\* A requirement was met, unmet or updated: the details are no longer what they
\* were.
RequirementUpdated ==
  /\ Room
  /\ LET stale == [x \in Clients |-> [sub[x] EXCEPT !.stale = sub[x].subscribed]]
     IN Become(BroadcastEvent([Now EXCEPT !.sub = stale], [name |-> "update", cause |-> "none"]))

\* The Activity starts, yields or gains focus.
Broadcast ==
  /\ Room
  /\ Become(BroadcastEvent(Now, [name |-> "other", cause |-> "none"]))

\* s, after the Manager has cancelled the Activity and perhaps told so.
Cancelled(s) ==
  LET t == [s EXCEPT !.ended = @ \cup {"internal"}]
  IN {t, BroadcastEvent(t, [name |-> "other", cause |-> "none"])}

\* Its callback has failed for good.
CallbackFails ==
  /\ "internal" \notin ended
  /\ Room
  /\ \E s \in Cancelled(Now) : Become(s)

\* Nobody subscribes and nothing is being stored: it starts over.
RestartActivity ==
  /\ Subscribed(Now) = {} /\ commands = << >>
  /\ ended # {}
  /\ Become([Now EXCEPT !.ended = {}])

\* The parent is told of its release, or an adopter that it is the parent.
Tell(x) ==
  /\ sub[x].subscribed
  /\ Room
  /\ Become(QueueEvent(Now, x, [name |-> "other", cause |-> "none"]))

\* The subscriber is gone; if it was the parent, the Activity may be cancelled,
\* and the others be told to leave.
HandleCancel(x) ==
  /\ sub[x].subscribed
  /\ Room
  /\ LET s == [Now EXCEPT !.sub[x] = NoSubscription]
     IN \/ Become(s)
        \/ "internal" \notin ended /\ \E t \in Cancelled(s) : Become(t)

Next ==
  \/ \E c \in Calls : CreateActivity(c) \/ EndCall(c) \/ RefusedComplete(c)
  \/ PersistCommandCompletes
  \/ \E x \in Clients : JoinActivity(x) \/ AdoptActivity(x) \/ Tell(x) \/ HandleCancel(x)
  \/ RequirementUpdated
  \/ Broadcast
  \/ CallbackFails
  \/ RestartActivity

Spec == Init /\ [][Next]_vars

-----------------------------------------------------------------------------
(* Properties.                                                             *)

\* The state is what its declarations say.
TypeOK ==
  /\ sub \in [Clients -> Subscription \cup {NoSubscription}]
  /\ commands \in Seq(Calls)
  /\ persistent \in BOOLEAN
  /\ call \in [Calls -> {"none", "create", "end", "done"}]
  /\ ended \subseteq Side
  /\ out \in Seq(Message)

\* An event is held only for a command that is still hooked, or behind a plug that
\* a call left because it threw (ActivityCategory.cpp:379 and 1079, the calls on
\* SendCommand marked XXX); no other plug outlives the call that set it.
HeldForACommand ==
  \A x \in Clients :
    /\ sub[x].plugged => sub[x].left
    /\ sub[x].eventQueue # << >> => commands # << >> \/ sub[x].left

\* When the details change, who asked for them is sent the present ones, or will
\* be: an update is left out only behind an event that carries them.
DetailsArrive ==
  \A x \in Clients :
    sub[x].detailed /\ sub[x].stale => sub[x].eventQueue # << >>

\* Nothing else is held back, and no change is left untold (Subscription.cpp,
\* QueueEvent and Unplug; Activity.cpp, UnhookPersistCommand).
Consistent == TypeOK /\ HeldForACommand /\ DetailsArrive

SentTo(x, messages) ==
  LET mine == SelectSeq(messages, LAMBDA m : m.to = x /\ m.event # "answer")
  IN [i \in 1..Len(mine) |-> [name |-> mine[i].event, cause |-> mine[i].cause]]

\* What is held is not lost, sent twice, or overtaken by later events.
HeldInOrder ==
  [][\A x \in Clients :
       sub'[x].subscribed => IsPrefix(sub[x].eventQueue, SentTo(x, out') \o sub'[x].eventQueue)]_vars

\* The i-th message of this step tells what a call did that is completed: db8 has
\* stored it, and the caller has its answer.
TellsCompleted(i) ==
  LET c == out'[i].cause
  IN c = "none" \/ call[c] = "done" \/ \E j \in 1..(i - 1) : out'[j].event = "answer"

\* x, who subscribes in this step, is answered before it is told anything.
AnsweredFirst(x) ==
  \E i \in 1..Len(out') :
    /\ out'[i].to = x /\ out'[i].event = "answer"
    /\ \A j \in 1..(i - 1) : out'[j].to # x

\* Nobody hears what a call did before the call itself is completed, and a client
\* hears nothing on a subscription before the answer to the call it subscribed
\* with, except for an adopter.
ToldAfterCompletion ==
  [][/\ \A i \in 1..Len(out') : TellsCompleted(i)
     /\ \A x \in Clients :
          ~sub[x].subscribed /\ sub'[x].subscribed /\ ~AdoptActivity(x) => AnsweredFirst(x)]_vars
=============================================================================
