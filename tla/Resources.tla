------------------------------- MODULE Resources -------------------------------
(***************************************************************************)
(* Focus, and the priority that Activities lend to the processes they run  *)
(* in: the bus entities subscribed to a running Activity are associated    *)
(* with it (ResourceManager.cpp, BusEntity.cpp), and the container of      *)
(* their processes has the priority of the best of them                    *)
(* (ContainerManager.cpp, ResourceContainer.cpp).                          *)
(*                                                                         *)
(* When an Activity runs and ends is decided elsewhere; here it may at any *)
(* time.  Each operation maps a whole state to a whole state.              *)
(***************************************************************************)
EXTENDS Naturals, Sequences, SequencesExt, FiniteSets

CONSTANTS
  Activities,       \* numbered by their addresses, which settle a tie
  Ids,              \* bus ids; a container is named after one
  Priorities,       \* the priorities an Activity may be created with
  MaxSubscriptions  \* bound: subscriptions of one Activity

\* ActivityPriority_t.
None == 0
Low  == 2
High == 4

ASSUME ActivitiesAssumption == Activities \subseteq Nat
ASSUME IdsAssumption == IsFiniteSet(Ids) /\ "none" \notin Ids
ASSUME PrioritiesAssumption == Priorities \subseteq 1..5
ASSUME BoundAssumption == MaxSubscriptions \in Nat

VARIABLES
  act,         \* the Activities
  focusList,   \* m_focusedActivities
  entity,      \* m_associations of each BusEntity, an ordered set
  containerOf, \* m_entityContainers
  container,   \* the containers by name, with their m_entities
  enabled,     \* m_enabled of the managers
  told         \* (history) what each container's last UpdatePriority found

vars == <<act, focusList, entity, containerOf, container, enabled, told>>

Now == [act |-> act, focusList |-> focusList, entity |-> entity,
        containerOf |-> containerOf, container |-> container,
        enabled |-> enabled, told |-> told]

Become(s) ==
  /\ act' = s.act
  /\ focusList' = s.focusList
  /\ entity' = s.entity
  /\ containerOf' = s.containerOf
  /\ container' = s.container
  /\ enabled' = s.enabled
  /\ told' = s.told

NewActivity(p) ==
  [exists |-> TRUE, priority |-> p, focused |-> FALSE,
   subscribers |-> [e \in Ids |-> 0], \* m_subscribers, a multiset
   running |-> FALSE, ending |-> FALSE]

NoActivity == [NewActivity(Low) EXCEPT !.exists = FALSE]

\* How many subscriptions the multiset has.
SubscriptionsOf(r) ==
  Cardinality({p \in Ids \X (1..MaxSubscriptions) : p[2] <= r.subscribers[p[1]]})

GetUniqueSubscribers(r) == {e \in Ids : r.subscribers[e] > 0}

Init ==
  /\ act = [a \in Activities |-> NoActivity]
  /\ focusList = << >>
  /\ entity = [e \in Ids |-> << >>]
  /\ containerOf = [e \in Ids |-> "none"]
  /\ container = << >>
  /\ enabled = TRUE
  /\ told = << >>

-----------------------------------------------------------------------------
(* Entities and containers.                                                *)

\* The order of the Activities of an entity: focused, then priority.
Precedes(s, x, y) ==
  LET r == s.act[x]
      q == s.act[y]
  IN IF r.focused # q.focused THEN r.focused
     ELSE IF r.priority # q.priority THEN r.priority > q.priority
     ELSE x < y

\* An ordered set with one more member, behind those that precede it.
InsertInOrder(s, set, a) ==
  LET place == CHOOSE i \in 1..(Len(set) + 1) :
                 \A j \in 1..Len(set) : Precedes(s, set[j], a) <=> j < i
  IN InsertAt(set, place, a)

EntityPriority(s, e) ==
  IF s.entity[e] = << >> THEN None ELSE s.act[Head(s.entity[e])].priority

EntityFocused(s, e) == s.entity[e] # << >> /\ s.act[Head(s.entity[e])].focused

\* The priority of a container is that of its best entity: a focused one, or
\* else the highest.
GetPriority(s, c) ==
  LET focused == {e \in s.container[c] : EntityFocused(s, e)}
      best    == {EntityPriority(s, e) : e \in IF focused = {} THEN s.container[c] ELSE focused}
      highest == CHOOSE p \in best : \A q \in best : q <= p
  IN IF ~s.enabled THEN High
     ELSE IF best \subseteq {None} THEN Low
     ELSE highest

IsFocused(s, c) == \E e \in s.container[c] : EntityFocused(s, e)

Standing(s, c) == [priority |-> GetPriority(s, c), focused |-> IsFocused(s, c)]

\* The control groups are told what to be.  (What ControlGroup.cpp does then is
\* compiled out.)
UpdatePriority(s, cs) ==
  [s EXCEPT !.told = [c \in DOMAIN s.container |->
                        IF c \in cs THEN Standing(s, c) ELSE s.told[c]]]

\* InformEntityUpdated, of each entity.
InformEntitiesUpdated(s, es) ==
  UpdatePriority(s, {s.containerOf[e] : e \in es} \ {"none"})

\* Associate an Activity with entities, or dissociate it, as one that may
\* already be, or not.
Associate(s, a, es) ==
  LET t == [s EXCEPT !.entity = [e \in Ids |->
              IF e \in es /\ ~Contains(s.entity[e], a)
              THEN InsertInOrder(s, s.entity[e], a) ELSE s.entity[e]]]
  IN InformEntitiesUpdated(t, es)

Dissociate(s, a, es) ==
  LET t == [s EXCEPT !.entity = [e \in Ids |->
              IF e \in es THEN RemoveFirst(s.entity[e], a) ELSE s.entity[e]]]
  IN InformEntitiesUpdated(t, es)

-----------------------------------------------------------------------------
(* Focus.                                                                  *)

\* Mutant of SetFocus: the order of the associations is left as it was.
SetFocusOnly(s, a, focused) == [s EXCEPT !.act[a].focused = focused]

\* SetFocus of the Activity: each association is taken out and put back.
SetFocus(s, a, focused) ==
  LET t == [s EXCEPT !.act[a].focused = focused]
      Reassociated(set) == InsertInOrder(t, RemoveFirst(set, a), a)
  IN [t EXCEPT !.entity = [e \in Ids |->
        IF Contains(s.entity[e], a) THEN Reassociated(s.entity[e]) ELSE s.entity[e]]]

UpdateAssociations(s, a) == InformEntitiesUpdated(s, GetUniqueSubscribers(s.act[a]))

ChangeFocus(s, a, focused) == UpdateAssociations(SetFocus(s, a, focused), a)

\* Focus is taken from the Activities of a list, one after the other.
UnfocusAll(s, list) ==
  LET after[i \in 0..Len(list)] ==
        IF i = 0 THEN s ELSE ChangeFocus(after[i - 1], list[i], FALSE)
  IN after[Len(list)]

\* Focus goes to the Activity, and then from all that had it; nothing is done
\* if it has it already.
FocusActivity(a) ==
  /\ act[a].exists
  /\ ~act[a].focused
  /\ Become(UnfocusAll([ChangeFocus(Now, a, TRUE) EXCEPT !.focusList = <<a>>], focusList))

UnfocusActivity(a) ==
  /\ act[a].exists
  /\ act[a].focused
  /\ Become([ChangeFocus(Now, a, FALSE) EXCEPT !.focusList = RemoveFirst(@, a)])

AddFocus(source, target) ==
  /\ act[source].exists /\ act[source].focused
  /\ act[target].exists /\ ~act[target].focused
  /\ Become([ChangeFocus(Now, target, TRUE) EXCEPT !.focusList = Append(@, target)])

-----------------------------------------------------------------------------
(* Subscribers, running and ending.                                        *)

\* Starting over drops the associations, if any is left, and the focus.
RestartActivity(s, a) ==
  [s EXCEPT !.act[a] = [@ EXCEPT !.running = FALSE, !.ending = FALSE, !.focused = FALSE],
            !.entity = [e \in Ids |-> RemoveFirst(s.entity[e], a)],
            !.focusList = RemoveFirst(@, a)]

RequeueActivity(s, a) ==
  [s EXCEPT !.act[a] = [@ EXCEPT !.running = FALSE, !.ending = FALSE]]

\* The Activity is released, and its destructor leaves every list it is on.
ReleaseActivity(s, a) == [RestartActivity(s, a) EXCEPT !.act[a] = NoActivity]

\* EndActivity: with no subscriber left, and nothing else to wait for, the
\* Activity has ended, and is queued again, starts over or is released.
EndActivity(s, a, outcome) ==
  LET t     == [s EXCEPT !.act[a].ending = TRUE]
      ended == Dissociate(t, a, GetUniqueSubscribers(t.act[a]))
  IN IF SubscriptionsOf(t.act[a]) > 0 THEN t
     ELSE CASE outcome = "wait"    -> t
            [] outcome = "requeue" -> RequeueActivity(ended, a)
            [] outcome = "restart" -> RestartActivity(ended, a)
            [] outcome = "release" -> ReleaseActivity(ended, a)

Outcome == {"wait", "requeue", "restart", "release"}

\* The first subscription of an id matters only if the Activity is running.
AddSubscription(a, e) ==
  /\ act[a].exists
  /\ SubscriptionsOf(act[a]) < MaxSubscriptions
  /\ LET s == [Now EXCEPT !.act[a].subscribers[e] = @ + 1]
     IN Become(IF act[a].subscribers[e] = 0 /\ act[a].running THEN Associate(s, a, {e}) ELSE s)

\* And so does the last one; the Activity ends when all have left.
RemoveSubscription(a, e) ==
  /\ act[a].exists
  /\ act[a].subscribers[e] > 0
  /\ LET s == [Now EXCEPT !.act[a].subscribers[e] = @ - 1]
         t == IF act[a].subscribers[e] = 1 /\ act[a].running THEN Dissociate(s, a, {e}) ELSE s
     IN IF SubscriptionsOf(t.act[a]) = 0
        THEN \E outcome \in Outcome : Become(EndActivity(t, a, outcome))
        ELSE Become(t)

CreateActivity(a) ==
  /\ ~act[a].exists
  /\ \E p \in Priorities : Become([Now EXCEPT !.act[a] = NewActivity(p)])

\* RunActivity of the Manager: all subscribers are associated first.
RunActivity(a) ==
  /\ act[a].exists
  /\ ~act[a].running
  /\ LET s == Associate(Now, a, GetUniqueSubscribers(act[a]))
     IN Become([s EXCEPT !.act[a].running = TRUE])

\* A command, or what the ending waited for, ends the Activity.
End(a) ==
  /\ act[a].exists
  /\ \E outcome \in Outcome : Become(EndActivity(Now, a, outcome))

-----------------------------------------------------------------------------
(* Containers.                                                             *)

GetContainer(s, c) ==
  IF c \in DOMAIN s.container THEN s
  ELSE [s EXCEPT !.container = [d \in DOMAIN s.container \cup {c} |->
                                  IF d = c THEN {} ELSE s.container[d]],
                 !.told = [d \in DOMAIN s.container \cup {c} |->
                             IF d = c THEN [priority |-> Low, focused |-> FALSE]
                             ELSE s.told[d]]]

\* Mutant of Move: the old container is not updated.
MoveQuietly(s, es, c) ==
  LET t == [s EXCEPT !.container = [d \in DOMAIN s.container |->
                                      IF d = c THEN @[d] \cup es ELSE @[d] \ es],
                     !.containerOf = [e \in Ids |-> IF e \in es THEN c ELSE @[e]]]
  IN UpdatePriority(t, {c})

\* The entities leave the containers they were in, whose priorities are
\* updated, for this one.
Move(s, es, c) ==
  LET t == [s EXCEPT !.container = [d \in DOMAIN s.container |->
                                      IF d = c THEN @[d] \cup es ELSE @[d] \ es],
                     !.containerOf = [e \in Ids |-> IF e \in es THEN c ELSE @[e]]]
      old == {s.containerOf[e] : e \in es} \ {"none"}
  IN UpdatePriority(t, old \cup {c})

\* A service has connected, or a process is mapped by hand.
MapContainer(c, es) == Become(Move(GetContainer(Now, c), es, c))

\* The names of a service that count: neither anonymous nor a pattern.  The
\* first names its container.
ProcessBusUpdate == \E es \in SUBSET Ids \ {{}} : \E c \in es : MapContainer(c, es)

MapProcess == \E es \in SUBSET Ids : \E c \in Ids : MapContainer(c, es)

PriorityControl(on) ==
  /\ enabled # on
  /\ Become(UpdatePriority([Now EXCEPT !.enabled = on], DOMAIN container))

-----------------------------------------------------------------------------
Next ==
  \/ \E a \in Activities :
       \/ CreateActivity(a)
       \/ RunActivity(a)
       \/ End(a)
       \/ FocusActivity(a)
       \/ UnfocusActivity(a)
       \/ \E b \in Activities : AddFocus(a, b)
       \/ \E e \in Ids : AddSubscription(a, e) \/ RemoveSubscription(a, e)
  \/ ProcessBusUpdate
  \/ MapProcess
  \/ \E on \in BOOLEAN : PriorityControl(on)

Spec == Init /\ [][Next]_vars

-----------------------------------------------------------------------------
(* Properties.                                                             *)

\* The state is what its declarations say.
TypeOK ==
  /\ act \in [Activities ->
       [exists : BOOLEAN, priority : 1..5, focused : BOOLEAN,
        subscribers : [Ids -> 0..MaxSubscriptions], running : BOOLEAN, ending : BOOLEAN]]
  /\ focusList \in Seq(Activities)
  /\ entity \in [Ids -> Seq(Activities)]
  /\ containerOf \in [Ids -> {"none"} \cup DOMAIN container]
  /\ container \in [DOMAIN container -> SUBSET Ids]
  /\ enabled \in BOOLEAN
  /\ told \in [DOMAIN container -> [priority : 0..5, focused : BOOLEAN]]

\* An entity's Activities stay in order while their focus changes under it: the
\* first is the best, and a search of the ordered set finds the one it is for.
AssociationsInOrder ==
  \A e \in Ids : \A i, j \in 1..Len(entity[e]) :
    i < j => Precedes(Now, entity[e][i], entity[e][j])

\* An Activity lends its priority to those who subscribe to it while it runs,
\* and to nobody else: whoever joins or leaves at any time, with however many
\* subscriptions, and whatever ends the run.
RunningIsAssociated ==
  \A a \in Activities, e \in Ids :
    Contains(entity[e], a) <=> act[a].running /\ act[a].subscribers[e] > 0

\* The Manager's list has exactly the focused Activities, once each, so that a
\* new focus takes it from everybody.
FocusedAreListed ==
  \A a \in Activities :
    Cardinality({i \in 1..Len(focusList) : focusList[i] = a}) = IF act[a].focused THEN 1 ELSE 0

\* An entity is in one container, the last one it was mapped into.
OneContainerEach ==
  \A e \in Ids : \A c \in DOMAIN container : e \in container[c] <=> containerOf[e] = c

\* Focus list, associations and containers are in step with the Activities.
Consistent ==
  /\ TypeOK
  /\ AssociationsInOrder
  /\ RunningIsAssociated
  /\ FocusedAreListed
  /\ OneContainerEach

\* No container is left with a stale priority: whatever changes that of an
\* entity (an association, a focus, a move, a switch) tells its container.
ToldIsCurrent == \A c \in DOMAIN container : told[c] = Standing(Now, c)
=============================================================================
