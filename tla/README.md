# The Activity Manager in TLA+

The Activity Manager (`com.palm.activitymanager`) runs *Activities* for the rest of Open webOS: pieces of work
that apps and services create over the bus, that wait for a trigger, a time, a requirement and a free slot, then
run (a callback is called, subscribers are sent *start*), and that end when their subscribers, the power daemon
and db8 have let go. Activities may be persistent, in which case every change of them is stored in db8 first, and
may start over when they end.

The program is one thread with an event loop. There are no data races; what is hard is the *order* of events.
Every handler (a bus call, a reply, a timer, a subscriber leaving) changes one Activity, calls the Manager, which
calls other Activities, which call the Manager again; and much of what an Activity goes through is split over
handlers with anything in between. The model has one action per handler, and a handler is atomic.

Paths below are relative to `src/src/` of the repository.

## Inventory

| part | state | operations | what makes it correct |
|---|---|---|---|
| Activity lifecycle (`Activity.cpp`) | flags `m_initialized` ... `m_released`, three commands, subscriptions, parent, adopters, prerequisites, hooked persist commands | SendCommand, Run/Requeue/Restart/Yield/EndActivity, Add/RemoveSubscription, Adopt, Release, the notifications | flags, commands and queue agree; no start is lost; a final command is final; everything taken is given back |
| Run queues (`ActivityManager.cpp`) | nine queues, two limits, the yield timeout, the enable bits | InformActivity..., CheckReadyQueue, InteractiveYieldTimeout, Enable, Disable, evictions | an Activity is on one queue, once; limits hold; no idle slot; interactive Activities get in |
| Names and ids (`ActivityManager.cpp`) | name table, id table, live map | register, unregister, look up | a name is given back only by an Activity that will not start over |
| Service calls (`ActivityCategory.cpp`) | none of their own | create, join, monitor, adopt, release, complete, schedule, start, stop, cancel, pause, focus, list | a call's effects and its persistence happen in a safe order; a refused call changes nothing |
| Persist commands (`PersistCommand.cpp`, `Mojo*Persist*`) | chains of commands, tokens | Persist, Append, Complete, retries | in order; completed exactly once; a crash leaves one record per name |
| Loading (`MojoDBProxy.cpp`) | old tokens, the call under way | load pages, purge, enable | the latest record wins, and the Manager is enabled in the end |
| Subscriptions (`Subscription.cpp`) | plugged, queued events | QueueEvent, Plug, Unplug | events once and in order, none before its call is stored |
| Power (`PowerdPowerActivity.cpp`) | current and target state, call, timeout | Begin, End, the responses | the callback runs with power; the lock is given back |
| Scheduler (`Scheduler.cpp`, `IntervalSchedule.cpp`) | ordered queues, wake-up | AddItem, RemoveItem, Wake, TimeChanged | nothing due is left, the wake-up is the earliest time, interval arithmetic |
| Triggers, Callback (`MojoTrigger*.cpp`, `MojoCall*.cpp`) | calls in flight, serials | Arm, Disarm, Fire, Call, Cancel | a trigger fires for its cause and misses none; no reply reaches an Activity that no longer waits for it |
| Requirements (`Requirement.cpp`) | cores and the requirements listed on them | Met, Unmet, Updated, add, replace, remove | an Activity may run exactly when all it requires holds; subscribers know the current values |
| Service proxies (`ConnectionManagerProxy.cpp`, `PowerdProxy.cpp`, ...) | a subscription with a daemon, its queries, the cores it sets | the responses, retries and fallbacks | agrees with its daemon once there is nothing left to hear |
| Matchers (`MojoMatcher.cpp`, `MojoWhereMatcher.cpp`) | whether a setup response came | Match | a condition means what its clauses say |
| Resources, focus (`ResourceManager.cpp`, `BusEntity.cpp`, ...) | focus list, associations, containers, priorities | Associate, Dissociate, Focus, MapContainer | what a container is told follows the running Activities of its entities |
| Developer calls, boot, JSON, tests | - | - | - |

How they interact: a service call looks up an Activity, changes it, and hands its completion to a persist command;
`Activity` asks the Manager to be scheduled, to be run, to be taken off its queue; the Manager answers by calling
`ScheduleActivity` and `RunActivity`; triggers, schedules, requirements, power and callback are objects of the
Activity that call it back when something happens outside.

`PROJECT.json` lists each part with what is modelled of it, and the hazards: everything in this code that is hard
to reach with a test, at its line.

## The modules

| module | what it models | variables |
|---|---|---|
| `Activity` | one Activity as a record; the predicates the code asks of it; operations on it alone | |
| `RunQueues` | the Manager's queues and admission | |
| `Lifecycle` | commands, ending, requeueing, restarting, subscribers, adoption, persist commands | |
| `ActivityManager` | **the core**: one action per handler, `Spec`, `FairSpec`, and the properties | `act`, `queue`, `level`, `enabled`, `yieldTimer`, ... |
| `PowerLock` | the abstract lock the core relies on: four states, asked for and notified | `lock` |
| `Power` | `PowerdPowerActivity`, its calls under way, the power daemon | `power`, `daemon` |
| `Persist` | the Activities under one name, persist commands and chains, tokens, db8, crash and loading | `act`, `chains`, `token`, `db`, `boot`, ... |
| `Schedules` | when a schedule is due: the arithmetic of intervals, and what the converter refuses | |
| `Scheduler` | the ordered queues, the wake-up, the power daemon's alarm, time and zone | `clock`, `item`, `queue`, `wake`, `powerd`, ... |
| `Requirements` | requirement cores, and the requirements an Activity has on them | |
| `Proxies` | the proxies of the connection manager, telephony, powerd and the system manager, and those daemons | `world`, `lines`, `prox`, `act`, ... |
| `Matchers` | the matchers on responses, with the meaning of a condition as a reference definition | |
| `Triggers` | triggers, their subscriptions, callbacks with or without a power lock to wait for, and serial numbers | `act`, `known`, `says`, ... |
| `Resources` | focus, associations of bus entities, containers | `act`, `focused`, `entity`, ... |
| `Subscriptions` | plugs and held events, the answers of calls, and calls that throw | `sub`, `commands`, `call`, `out`, ... |
| `MCActivityManager`, `MCScheduler`, `MCTriggers`, `MCProxies` | instances for TLC | |
| `ActivityManagerProofs`, `RunProofs`, `PowerProofs`, `SchedulerProofs`, `ProxiesProofs`, `PersistInvariant`, `PersistProofs`, `ResourcesProofs` | the proofs | |

The core has every Activity in full, with what surrounds it reduced to what an Activity sees of it. Each of the other
modules has one of the surroundings in full, with the Activity reduced to what that part reads and changes. Two of
the seams are checked and not only argued: `Power` implements `PowerLock` (run `power`, theorem `Refinement`), and the
core uses its power as `PowerLock` allows (`PowerIsALock` in run `family`); `Triggers` takes its conditions from
`Matchers`, and `Proxies` its cores from `Requirements`.

The operator modules have no variables. A C++ handler calls back and forth between Activity and Manager, so each
operation of the code is an operator from whole states to whole states, with the source's name, and a handler is a
composition of them; `Handle` or `Become` makes the result the next state, and `Now` is the present one. An exception
ends a handler with what it changed so far: an operator that models a throw returns the state at the throw, and the
`CASE` or `IF` around it shows what the handler then leaves out.

How state corresponds to code:

* `act[a]` is the `Activity` object: field names are the member names without `m_`. `life` says whether it was
  created and is in `m_activities`; `Exists` whether anything refers to it; `named` is `m_nameTableItem.is_linked()`.
* In the core, `trigger`, `schedule`, `requirement`, `power`, `callback` condense the object each stands for to the
  states the Activity can tell apart (e.g. a schedule is `idle`, `queued` or `due`). `persistCommands` is
  `m_persistCommands`, each with the Finish method that runs on completion. `told` is state the code does not have:
  the subscribers sent an event after which a well-behaved one leaves. Only fairness and one liveness property read it.
* `queue` is `m_runQueue`, `level` the background limit, `enabled` the bits of `m_enabled`, `yieldTimer` whether
  `m_interactiveYieldTimeout` is set. The loop of `Enable` over the waiting Activities is one step per iteration,
  with nothing else in between, so that each iteration is a proper action.
* `Power`: `power.current`, `target`, `call` and `timeout` are the members of `PowerdPowerActivity`; `requests` are
  the messages on their way to the daemon, which a cancelled call does not take back; `links` counts how often the
  Activity is on `m_poweredActivities`.
* `Persist`: a chain is the commands linked by `m_next`, its head the one db8 is working on; a token is
  `MojoDBPersistToken` (valid, id, revision); `db` is what db8 holds under the name and `told` what the clients were
  last told is there (history).
* `Scheduler`: `item` is the `Schedule` object, `queue` the two multisets in order, `wake` is `m_wakeScheduled` and
  `m_nextWakeup`; `powerd` has the requests under way, the pending `m_call` and the daemon's alarm.
* `Proxies`: `lines` are the subscriptions with their unread messages, `prox` the proxies' members and the cores that
  are met, `world` the device and which daemons are up.
* `Triggers`: a trigger's `call` and `messages` are its subscription; `power` is `"none"` for an Activity that is not
  powered, and otherwise a state of `PowerLock`. `runs` counts starts, `called` is the last run the creator was called back for,
  and `owed` remembers a callback to be repeated (all history); `known` is which serials a client may give, and for which run.
  Adoption, and focus lost in the middle of an update, are in the core and in `Resources`, not here.
* `Resources`: `entity[e].associations` is the ordered multiset of a `BusEntity`, and what a container was last told
  is what its `UpdatePriority` computed.
* `Subscriptions`: `sub[x]` is the `Subscription` object, `out` what the last step sent, in order. `ended` has the sides
  that gave a final command (`m_extCommand`, `m_intCommand`). `left` (history) marks a plug that a call left when it threw, and
  `stale` (history) a subscriber whose last details are no longer true.

## What TLC checks

| run | module | instance | properties | states |
|---|---|---|---|---|
| `lifecycle` | core | 1 Activity with everything, 2 subscriptions, all ending calls and updates, `FairSpec` | `TypeOK`, `QueueMatchesFlags`, `NoLostStart`, `NoLeakedPower`, `ReleasedIsQuiet`, `NameFreedByFinalCommand`, `EndIsForGood`, `EndingEnds` | 436,147 |
| `family` | core | 1 Activity with power and a requirement, 3 subscriptions, join, adopt, release, start, pause, restart, refused calls, 3 updates | `FamilySubscribes`, `PowerIsALock` | 259,411 |
| `slots` | core | 2 background, 1 interactive Activity; limits 2 and {0, 1}, each class against its own; two enable bits; developer calls | `NoIdleSlot`, `QueuedIsStillWanted`, `QueueMatchesFlags`, `LimitRespected` | 503,168 |
| `yields` | core | 3 interactive Activities, one slot, `FairSpec` | `InteractiveGetsIn` | 23,208 |
| `power` | `Power` | errors, restarts of the daemon, requests that fail at once; 2 requests under way | `LockedIsHeld`, `ListedOnce`, `UnlockedIsGivenBack`, `ImplementsLock` | 374 |
| `persist` | `Persist` | 2 Activities under a name, transient and permanent failures of db8, one crash at any point, also while loading | `Consistent` (`TypeOK`, `ChainsInOrder`, `TokenIsCurrent`), `ToldIsDurable`, `LoadBringsLatest`, `ChainsEnd` | 560,391 |
| `replaced_comes_back` | `Persist` | the same, and calls on an Activity that is being ended | `ReplacedStaysAway` (violated) | |
| `scheduler` | `Scheduler` | 2 of 5 schedules (smart, precise, relative, once; one refused), 2 zones, time moves by half an interval and jumps, the daemon fails and restarts | `Consistent` (`TypeOK`, `Linked`, `InOrder`, `WakeIsSet`), `DaemonAgrees`, `CatchUpOnce`, `DueStarts` | 386,612 |
| `proxies` | `Proxies` | 1 Activity with 6 sets of requirements, each daemon alone, 2 changes of the device, 1 failure, 1 restart | `Consistent` (`TypeOK`, `ReadyWhenMet`), `LastEventIsCurrent`, `QuietAgrees`, `CatchesUp` | 438,022 |
| `triggers` | `Triggers` | 1 Activity, powered or not, 5 matchers, 4 responses; a change, a failure, a subscriber and 2 completes (refused ones too), three of these in all | `Consistent` (`TypeOK`, `FiredForCause`, `ReadyIsTriggered`), `SerialNamesRun`, `NothingMissed`, `CalledAgain` | 456,536 |
| `resources` | `Resources` | 2 Activities of two priorities, 2 entities, 2 subscriptions each | `Consistent` (`TypeOK`, `AssociationsInOrder`, `RunningIsAssociated`, `FocusedAreListed`, `OneContainerEach`), `ToldIsCurrent` | 421,668 |
| `subscriptions` | `Subscriptions` | 2 clients, 3 calls, of which a second final one throws, 2 held events, persistent or not | `Consistent` (`TypeOK`, `HeldForACommand`, `DetailsArrive`), `HeldInOrder`, `ToldAfterCompletion` | 310,595 |

In the core each Activity is created once and its specification (persistent, powered, ...) is given by the constants,
so a run states which Activities it has; calls a run is not about are left out of `Calls`. Every Activity may end,
or a bound on changes be reached, and nothing then happens: the system may stop, and `CHECK_DEADLOCK` is off, except
in `power`, where something can always go on.

Why the bounds are enough. The queues only interact through counts compared with a limit, so the cases are: below,
at and above the limit, with somebody waiting or not; three Activities at limits 0, 1 and 2 reach all of them, among them
one background Activity with the one slot of its class busy and the interactive slots free. An
Activity's own flags do not depend on other Activities except through permission to run, so one Activity with
everything covers the crossings of its replies. Adoption needs a parent, one waiting and one more, hence three
subscriptions. The shipped limits are 1 and 2 (`ActivityManager.h:126`); `yields` lowers the interactive one to 1 so
that three Activities crowd it. `EnableBits` has two members: the third of the code behaves as the second.
In `Persist`, an Activity and its replacement, each with one update (`MaxVersion`), fill a chain across both, and
after the one crash (`MaxCrashes`) loading meets every set of records they can leave. In `Scheduler`, the clock moves
by half an interval for two intervals (`Step`, `MaxClock`), so that a point is before, at and behind it; one jump of time
or zone (`MaxChanges`) falls on every state, and both zones have items of both queues at the head; `MaxRequests`
bounds what the daemon has not read. In `Proxies` the daemons do not depend on each other, so each is up in a world of
its own, and two changes with a failure or a restart between them cover an update missed, repeated and late. In
`Triggers` the responses meet each condition in part and in full; three disturbances (`MaxEvents`) are enough for a run to be ended, started
over, and completed by the old serial.

**Fairness** (`FairSpec` of the core). The loop of `Enable` goes on, the yield timer goes off if it is armed and still
has something to do, and no Activity is kept waiting for the outside world forever: the power daemon and db8 answer
(the code retries transient errors until they do), and a subscriber that was told to leave leaves, which is what the
documentation demands of it. Triggers, schedules, requirements, clients and callbacks are not assumed fair: nothing
makes them happen. Each is weak fairness, with the enabling condition written out (`CanYield`, `CanSettle`).
The other modules assume weak fairness of what the bus and the daemons do with a message that is there (it is read,
answered, and its answer delivered; in `Triggers` also the power lock, taken or given back), of a timer that is set, and of the program's own next step; never of a client, a
failure, a crash, a change of the world or a restart, each of which is also bounded. A daemon that keeps failing
forever is so excluded: the code retries for as long as it does.

**Mutants.** Each property of each passing run has a mutant next to the definition it changes, with the kind of bug
it stands for in its comment.

**Reference definitions.** `Matchers!Satisfies` says what a condition means, by quantifiers over the values its paths
lead to; `CheckProperty` and `CheckClause` decide it as the code does, with early ends, three results and modes. The two
meet in `FiredForCause` (a part of `Consistent`) and `NothingMissed`. `Scheduler!Points` is the set of a schedule's points, against which
`CatchUpOnce` holds `CalcNextStartTime`.

## What the code does otherwise

Run `replaced_comes_back`: the token of a replaced Activity is cleared so that "any further actions on the Activity can't
accidentally affect the persistence of the new Activity" (`ActivityCategory.cpp:471-474`); but an update of it that
comes later finds no token, is given a new one (`:3455`), and stores a second record. The Activity that was replaced
comes back on the next boot. That it does not otherwise is proved (`ReplacedStays`); run `persist` has no such late call.

The others below were found with the modules and confirmed in the code; they have no run of their own. Where one
would break a property of a run, the run leaves out the call or fault that leads to it, as said.

In the core:

* "Cancel, Stop, and Complete are final" (`Activity.cpp:140`), but an Activity cancelled (or paused) while in line is
  run, since `RunActivity` (`:1207`) does not ask again, and a subscriber sent *cancel* is sent *start*.
* "Don't move on to restarting ... until the updates have gone through" (`Activity.cpp:1320`), but a restarting complete
  acts before it hooks the store (`ActivityCategory.cpp:1095`); without subscribers or power it restarts at once.
* A refused complete clears the terminate flag whoever set it (`ActivityCategory.cpp:1086`): a cancelled Activity then
  starts over. `lifecycle`, which checks `EndIsForGood`, has no refused call, and the theorems on it assume there is none.
* `RequeueActivity` (`Activity.cpp:1240`) keeps the command last sent, so after start, pause and a requeue the next start
  is taken for already sent. `lifecycle`, which checks `NoLostStart`, has no pause.
* The failure of a callback made before a restart requeues the restarted Activity (`Activity.cpp:1228`) off the queue
  `Enable` looks at. `slots` has no failing callback.
* Adoption of an ending Activity that waits clears `m_ending` without asking whether it may run (`Activity.cpp:1443`): its
  start is lost. `lifecycle` has no adoption.
* A transient failure of the callback ends the Activity without telling its subscribers (`Activity.cpp:1237`; a
  yield does tell them), so that it waits for one to leave by chance. `EndingEnds` therefore speaks of Activities
  whose subscribers were told.
* An Activity released with nobody adopting is not cancelled (`Activity.cpp:713`), whatever `ActivityCategory.cpp:709`
  says; and after its parent unsubscribed and before it ends, an Activity is not released and has no parent, and
  Release dereferences it (`Activity.cpp:726`). The model's `ReleaseCall` has the guard the code lacks.

* An Activity cancelled in line is still marked ready when it is released. If a requirement is then lost, `RequirementUnmet`
  (`Activity.cpp:616`) withdraws it, and `InformActivityNotReady` puts the released object back on the scheduled queue, where it
  stays until the object is destroyed. `ReleasedIsQuiet` allows that queue and no other.
* A complete that restarts may replace the trigger or the schedule of an Activity that is in line (`ActivityCategory.cpp:1071`); it is run all
  the same. `slots`, which checks `QueuedIsStillWanted`, has no such call.

Power:

* A request that cannot be sent is answered by a faked notification "so the Activity doesn't stall"
  (`PowerdPowerActivity.cpp:87`), but the result of the send itself is not looked at (`:338`, `:358`), so it does.
  `Power` has the fault (`"send"`): the theorems hold with it, and the liveness of `ImplementsLock` does not.
* After a renewal that failed twice the timeout is not armed again (`:193`).

Persistence:

* A call is answered with success even when storing failed for good; `ToldIsDurable` is about runs of the database
  without such failures (`failed`). A callback that fails for good cancels the Activity and leaves its record
  (`Activity.cpp:437`, "XXX de-persist here").
* A permanent failure to load or purge leaves the Manager disabled for good (`MojoDBProxy.cpp:335`).
* If a reply of db8 is lost, the retry of a put that had no id stores a second record (`MojoPersistCommand.cpp:97`);
  lost replies are not modelled.

Calls that are refused or throw:

* A complete is refused after it has made its update ("a potentially odd condition", `ActivityCategory.cpp:1067`), whether it was not allowed or
  came second and threw. A trigger it brought stays, disarmed: an Activity in line is run with a trigger that did not fire, and one
  that waits, waits for good. `ReadyIsTriggered` sets a trigger that was never armed apart.
* A second stop, cancel or complete, or a second replacement, throws in `SendCommand` (`Activity.cpp:143`, `:155`) behind the plug
  (`ActivityCategory.cpp:379` "XXX protect against this failing", `:1079` "XXX Catch and unplug"). The subscriptions stay
  plugged, and their events are held, with no command hooked, until another call or command unplugs them, if one comes.
  `HeldForACommand` therefore speaks of every plug but one left so, and `HeldInOrder` of those too.

Time:

* The time left until a schedule's end is an unsigned difference (`IntervalSchedule.cpp:147`), so that a schedule whose
  end has passed goes on; `Schedules` computes it so, and the instances of the run have no end.
* A change of zone starts what is due by start times computed in the old one (`PowerdScheduler.cpp:232`) before
  `TimeChanged` computes them again, so `CatchUpOnce` is about starts before a change.
* The finish is stored before the schedule learns of it, so after a boot a point that was served looks missed. An
  Activity that finishes in the second it was started in is started again.
* A wake-up the power daemon refuses for good is still held to be set; `DueStarts` and `DaemonAgrees` set it apart.

Requirements, triggers:

* One update of the connection manager sets `internet` and then its confidences (`ConnectionManagerProxy.cpp:248-275`), and
  an Activity that requires both may be run between the two.
* The query that makes powerd tell its state is not repeated if it fails (`PowerdProxy.cpp:264-292`), and a subscription
  that fails for good leaves the last state standing. `QuietAgrees` and `CatchesUp` set these lines apart.
* The setup response of a simple trigger does not fire it, but only once: `MojoMatcher::Reset` is never called
  (`MojoMatcher.cpp:59`), so that after the trigger was armed again, its next setup does.
* A powered Activity runs before it has its lock (`Activity.cpp:1207`), and is given a new serial only when it has
  (`:1474`, `MojoCallback.cpp:45`). In between, a complete with the serial of an earlier run passes `CheckSerial`
  (`ActivityCategory.cpp:3431`) and ends the new run. `SerialNamesRun` is about runs that were called back.
* A nested *where* stores a three-valued result in a `bool` (`MojoWhereMatcher.cpp:432`): *NotMatched* (2) counts as a match.
  An array at the end of a path is compared as a whole; the code that would look at its items is never called.
* After a transient error a trigger's subscription is made again without its Activity (`MojoTriggerSubscription.cpp:71`), that
  is, with other credentials than before.

Focus, subscriptions:

* `focus` on an Activity that has it returns at once (`ActivityManager.cpp`, `FocusActivity`), and takes it from no other,
  though it "requests that focus be removed from all currently focused Activities" (`ActivityCategory.cpp:1697`).
* A subscriber that adopts at once hears *orphan* before the answer to its own call.

## What is proved

For every value of the constants, by TLAPS:

* `TypeCorrect` (`ActivityManagerProofs`): `Spec => []TypeOK`. It is more than bookkeeping here, because states are
  computed by operators that take heads of lists, pick positions in queues and compose several queue operations:
  the theorem says none of them is ever applied outside its domain. The first part of the module has one lemma for each operator.
* `EndStands` (`ActivityManagerProofs`): `Spec => EndIsForGood` if `"refused"` is not among the calls. A cancel or stop that
  was accepted is never forgotten.
* `NameFreed` (`ActivityManagerProofs`): `Spec => []NameFreedByFinalCommand` under the same assumption.
* `FamilySubscribed` (`ActivityManagerProofs`): `Spec => []FamilySubscribes`, whatever is called: parent, released parent and those
  in line to adopt are subscribers.
* `SlotsMatch` (`RunProofs`): `Spec => []QueueMatchesFlags` and `NoneIdle`: `Spec => []NoIdleSlot`, for any number of
  Activities and any limits, if callbacks do not fail and neither a refused complete nor an update of the callback is
  among the calls (`PlainCalls`).
* `SlotsLimited` (`RunProofs`): `Spec => LimitRespected`, and `PowerUsedAsLock`: `Spec => PowerIsALock`, for every value of the
  constants and all calls. Each class has its own limit: whenever a background Activity is let in, no more run than the
  background limit, whatever the interactive one is. The one exception (`Within`) is an Activity whose own handler ends it, lets
  others into its slot and starts it over: it may be one more. No call of `slots` restarts, so there the limits hold without it.
* `LineWanted` (`RunProofs`): `Spec => []QueuedIsStillWanted`, if no complete sets a new trigger or schedule (`UpdatesStand`).
* `StartsHeard` (`RunProofs`): `Spec => []NoLostStart`, if clients neither pause nor adopt and no refused complete takes a
  trigger or a schedule away (`StartsStand`).
* `PowerGivenBack`, `ReleasedAtRest` (`RunProofs`): `Spec => []NoLeakedPower` and `Spec => []ReleasedIsQuiet`, if no complete is
  refused (`EndsStand`).
* `TypeCorrect`, `Listing`, `Confirmed`, `NothingLeft` (`PowerProofs`): `TypeOK`, `ListedOnce`, `LockedIsHeld` and
  `UnlockedIsGivenBack` are invariants of `Power!Safety`, for any set of faults, requests that are never sent included,
  and any bound on requests.
* `Refinement` (`PowerProofs`): `Safety => Lock!Safety`: the lock with its calls, retries, renewals and faults is the
  abstract lock of `PowerLock`, step by step.
* `WakeUpSet` (`SchedulerProofs`): `Spec => []Consistent`, and `DaemonHeard`: `Spec => []DaemonAgrees`, for any number of
  Activities with any schedules, any zones, any set of faults and any bounds.
* `CaughtUpOnce` (`SchedulerProofs`): `Spec => CatchUpOnce`, for any schedules, zones, smart base and length of an unsigned, if the
  clock starts at a time that is not negative in any zone (`ClockSet`).
* `ReadyKept` (`ProxiesProofs`): `Spec => []Consistent`, `EventsCurrent`: `Spec => []LastEventIsCurrent`, and `Agreement`:
  `Spec => []QuietAgrees`, for any number of Activities with any requirements, any reports of the daemons, any set of
  faults and any bounds.
* `PersistTypes` (`PersistProofs`): `Safety => []TypeOK`, and `ChainsStayInOrder`: `Safety => []ChainsInOrder`, for any number of
  Activities under the name, all faults and any number of crashes: however Activities replace each other while
  commands are under way, each hooked command is in one chain, and the chains get to them in the order they were hooked.
* `PersistConsistent`, `ToldStaysDurable`, `ReplacedStays` (`PersistProofs`): `Safety => []Consistent`, `Safety => []ToldIsDurable`
  and `Safety => []ReplacedStaysAway`, if no Activity that has been replaced is restarted (`"late" \notin Faults`).
* `LoadBringsTheLatest` (`PersistProofs`): `Safety => LoadBringsLatest`, whatever failed before and however many records were left.
* `ResourcesConsistent` (`ResourcesProofs`): `Spec => []Consistent`, and `ContainersTold`: `Spec => []ToldIsCurrent`, for any number of
  Activities, any priorities and any bound on subscriptions, if there are finitely many bus ids.

The argument for `EndStands` and `NameFreed`. A command given by a client is erased by `RestartActivity` only, which only an
Activity whose terminate flag is clear can reach. The inductive invariant `Committed` says, of each Activity:
if its external command is cancel or stop then the terminate flag is set; if a persist command that will free its
name is hooked, or the name of a live Activity is free, then the external command is final and the flag is set.
The properties alone are not inductive: `EndIsForGood` does not say why the flag is set, and
`NameFreedByFinalCommand` says nothing about the delete under way that will free the name later. That it holds
depends on an order in the code: stop, cancel and complete set the flag *before* the command is stored, and free the
name *after*. `ActivityManagerProofs` shows for each operation that it keeps what the invariant reads (commands, flag, name,
persist commands), or restarts. The assumption is needed: a refused complete is the counterexample without it.

The argument for `PowerProofs`. That a confirmed lock is held depends on which requests are still on their way: requests are
read in the order they were sent, also those of calls that were cancelled since, so what counts is the last one. The
inductive invariant `Good` says that the pending call is the last request or has been answered (`CallIsLast`,
`ReplyIsTrue`), that call and target agree (`Aimed`, `Settled`), and what the daemon will have done when it has read
everything (`Kept`, `GivenBack`). The liveness half of `ImplementsLock` is model-checked only.

The argument for `FamilySubscribed`. The parent, the parent that released and the adopters in line are kept apart from the
subscriptions, and most operations touch one of the two: RemoveSubscription takes a subscriber out of all of them, Release
moves the parent, DoAdopt takes the head of the line. The inductive invariant `Family` adds to the property that the line has no
one twice, that the parent is not in it, and that nobody waits without a parent; without the first, removing a subscriber
could leave it in line a second time, and DoAdopt could make one a parent that has left. `FamilyStates`, that it
holds of every Activity, is closed under every operation of `Activity`, `RunQueues` and `Lifecycle`, one lemma each. Two
steps need their caller: SetParent, that there is no parent yet, which FinishCreateActivity asks; and Adopt, that the one who
adopts is a new subscriber, which the call has just made it.

The argument for `SlotsMatch` and `NoneIdle`. Between two handlers the state is in `Lined`: the flags of each Activity go up
and down together (`SlotFlags`), no Activity that was released is going to start over (`Fate`), each is on a queue its flags
allow, and on one if it is live (`AtHome`), the hook of an Activity is in one list at most, once (`Hooked`), and who waits
does so because the limit is reached (`Full`). The properties alone are not inductive: they say nothing of an Activity
that was released, which keeps its flags while its persist commands complete, and may be commanded meanwhile. Within a handler flags and queues
disagree, but only those of the Activity it is about; `Adrift(a)` has the states where every other one is sound.
An operation is shown to lead from `Lined` to `Lined`, or from `Adrift(a)`, with `a` where the code expects it, to
`Lined`; and since the code puts `a` in its place before it calls CheckReadyQueue, admission is only ever shown to keep
`Adrift(a)`, to leave no slot idle (`CheckReadyQueueAdrift`) and to move whom it runs from a ready queue to its
background queue. The last part of `ActivityManagerProofs` has what this needs about lists: what cutting, appending and removing do to members and
repetitions. Of the assumption, the first part is needed for `QueueMatchesFlags`: an Activity whose callback was
made before it was restarted is requeued by its failure, from wherever it is by then (see above). The other two parts are
needed for `Fate` only: they clear the terminate flag, or set a callback, of an Activity that is already
released, and it would then start over. Runs `slots` and `yields` satisfy the assumption; `lifecycle` has failing
callbacks and updates of the callback, on a Manager that is always enabled, and `QueueMatchesFlags` holds in it.

The argument for the theorems of `RunProofs`. One invariant, `Sound`, carries all six. An Activity is on one queue at most
(`Tidy`), its record is fit for that queue (`Fit`), and it stands (`Standing`) as a handler leaves it:

* `Flags`: ready or running implies scheduled, that initialized; power that is not off implies running; who is in line is
  ready and does not run, who is on a running queue runs; nobody who exists is left on the queue of the ended.
* `Wanted`: who is in line has what it waits for. `Heard`: nothing but start was sent, and nobody waits to adopt.
* `Kept`: who was released waits for nothing, was told to end for good if it is still referred to (`Abides`), and only a live one is
  in line, in a slot or has power.
* `Asked`: who may run does or has asked. `Awaited`: a live Activity nobody subscribes to, and that would not have a callback made,
  has a create under way whose completion will give it one of these.

None of the properties is inductive by itself. That a released Activity is quiet needs that it cannot start over,
which is a matter of its commands; that power is not leaked needs that no Activity is released before the notification; and that no
start is lost needs that each command that is dropped as already sent (`SendCommand`) has had its effect. `Awaited` is there because an
Activity is released by the end of its last subscription: without it, a release could overtake a create that is stored.
`Wanted`, `Heard` and `Kept` are each only part of the invariant under the assumption of the theorem that needs them, and the
rest holds without any. As the proof goes, `Moves(s, t, a)` says of an operation on `a` that the others stay where they are or
are admitted (`Passed`), that the others are let in as the limits allow (`Admits`), that `a` is fit in `t`, and that its power went
one way (`Locks`); it is transitive, so that an operation of the code is proved from those it calls, one lemma each, and a handler
ends with `Follows`. The limits are not an invariant (Run and RunAll, and a limit that is lowered, go past them), and while a handler works on `a`,
`a` may give its slot away and take one again; so `Admits` counts the slots *besides* `a` (`Beside`, `Others`). The background limit
also needs `Snug`: a background Activity let in by one of the handler's admissions is not followed by an interactive one let in
by the next, which would exceed it. `Limited` is what this comes to at the end, with `a` counted again.
The invariant was first run through TLC on four instances.

The argument for `SchedulerProofs`. `WakeUpSet` and `DaemonHeard` share one inductive invariant, `Sound`: that the queues hold what is queued, once
(`Linked`), in the order of start times (`InOrder`), that the wake-up is early enough (`WakeIsSet`), and `Heard`, which
`DaemonAgrees` needs to be inductive: the last request the daemon has not read is the pending call, and while a wake-up is set it is
the call for that time, so that neither a repeated call nor an answer that comes late can leave another alarm behind. Each of `AddItem`,
`RemoveItem`, `ReQueue`, `SetLocalOffset` and `DequeueAndUpdateTimeout` has its lemma. An item that is put in or taken out changes its phase
in another assignment than its queue; in between, the queues hold what is queued of a smaller set (`Queued(s, A)`), and
the lemmas are stated for that. The wake-up is only moved when the head of a queue changes, or when the item that leaves
was the head: otherwise it stays early enough because the heads only become later (`WakeStays`). What is due is a prefix of its queue
(`DueIsPrefix`), because the queue is sorted. That inserting the items of a queue one after the other gives the same items, sorted
(`SortedIs`), would be an induction over the queue; the model says where each comes to stand by counting those before it, and the proof
that no two get the same place and none stays empty (`RanksDiffer`) counts sets.

`CaughtUpOnce` takes, besides `Sound`, an invariant of each item (`Paced`), for as long as time and zone stay and there is no restart: an
item that has begun finished later than it began before it is idle or queued again, and while it is queued one of its points lies between
that beginning and its next start. The lemma about the arithmetic is `StartsLater`: the point after now is later than the last
beginning, and if the schedule slipped, and so starts at once, the point before it is, because more than an interval has passed since the
last finish and an unsigned is never more than the number (`UnsignedIs`). One case does not go that way: a smart schedule that
finished on day one is, to `InformActivityFinished`, one that never did, and does not slip. `Follows` relates each state on the way through a
handler to the one before it, so that the step property comes from the same lemmas as the invariant (`Goes`), one for each operation.
That the Scheduler's time is the Activity's own when something starts needs the offset to be known, which is why the local
queue waits for it (`Usable`).

The argument for `ProxiesProofs`. One invariant, `ProxiesInv`, carries the three theorems. The first half is about what the
proxies tell the Activities. An Activity is `Fine(r, p, X)` if its record is sound, it is in line when what it waits for
is room only (`Waits`), and it knows and has shown its subscribers what the proxies hold of every requirement that is not in X
(`Knows`). X is there because the code changes what it holds first, and tells one list of requirements after another:
in between, some Activities are behind, but only for the requirements on the lists not yet told. `Met`, `Unmet` and `Updated` take
their list out of X, and each operation of a proxy is shown to lead from an empty X to an empty X. That rests on
three things the properties do not say: which levels of confidence are met is a matter of the level alone
(`LevelsMatch`), a core's state is what the flags of its proxy say (`ChargersMatch`), and an Activity has one requirement of
a name, so that a list told at once reaches it once (`OnlyOne`). That a boot already over is not learnt from the core is why
`Aware` leaves out the boot requirement. The second half is about the lines. `Follows` says of a line that is open, with no
query under way, that of each topic the last message on it tells what the daemon knows, or there is none and the proxy
holds it (`Told`); or that the line begins with a message that leads to another query. It needs that a confirmation comes
first on a line and finds the signal not subscribed to (`Orderly`), or the status would not be asked for; that is what the
reset of `m_chargerStatusSubscribed` and `m_batteryStatusSubscribed` on a failure is for. And it needs that the two queries for the telephony
service are never both in use (`OneQuery`): an old answer to one would undo what the other told.

The argument for the theorems about `Persist`. There are two invariants. `Sane` holds whatever fails: the chains hold
what is hooked, every command once and in order (`Chained`, `HookedIn`), only the head of a chain is under way (`InTurn`), and while
records are loaded the only Activity is that of the newest so far, all others being old (`Loading`). `ChainsInOrder` alone is not
inductive, since a command is appended behind the *first* command its Activity has hooked: that the last is in the same chain must be part of it.
`Whole` is about a Manager where nothing has failed for good: it is loading one record at most, or its state is `Fit`.
`Fit` looks at the commands as jobs in an order, since which chain they are in does not matter: of the chains only which
job comes before which is left (`Jobs`, `Order`). It says that there are tokens `V`, the tokens as they will be when the reply that is on its way is
there, ahead of the present ones by at most one call (`Follows`), such that `Sound` holds:

* `Lives`, `Works`: who has the name and who has a token; that what is stored has the name or is going to leave the token to
  whoever has it, that an Activity which lost its name has the end of its replacement hooked.
* `Rows`: behind an end only a replacement is hooked, behind a replacement only an end, and whatever writes comes before or is a command of the
  Activity that has the name, so that all that write are in one chain.
* `Flow`: what one token has stored is deleted before another token stores, or a create of what is not stored is answered.
* `Owned`, `Stored`: there is a record if and only if a valid token stands for it, with its revision; no two different tokens do; and if it is
  not of the Activity that has the name, a store of that Activity is still to come.
* `Calls`: a call that is made has the parameters of the token as it is in `V`, though they were computed when it was first sent: that is why a
  retry with old parameters is harmless. Then what was told: it is what is stored, or what the call ahead made of it.

From `Sound` it follows that db8 has at most one record of the name as long as nothing failed for good. So loading finds
superseded records, and purges, only after a failure. Each operation of `Persist` is put together of changes (a job is added behind
others, the first one is done, a flag or a token is set, db8 does a call), and a lemma says of each that it keeps `Sound`;
`PersistInvariant` has these, `PersistProofs` the operations. The assumption is needed: run `replaced_comes_back` is the counterexample.
`CASE` in `Persist`, `Schedules` and `Triggers` has guards that exclude each other, so that a proof need not know which is tried first.

The argument for `ResourcesProofs`. The focus of an Activity is on record in four places: its flag, the focus list, the order of the
associations of its subscribers, and what their containers were told; they change one after the other within a handler. What holds of entities and
containers in the midst of one too is `Settled`: each entity's associations are in order (`Ordered`), each entity is in
the container it is mapped to (`Placed`), and each container was told what it is (`Current`). `Associate`, `Dissociate`
and `ChangeFocus` are shown to keep it for any entities, because each of them tells the containers of
all entities it may have changed; that `ChangeFocus` does, which tells those of the *subscribers* and reorders
the *associations*, needs `Associated`: only subscribers of a running Activity have it among their associations. Between
handlers `Sound` adds that the focus list is as the flags say (`Listed`), and that what does not exist neither runs nor
has the focus (`Absent`): otherwise one created anew could be associated, and its priority would change under the order.
The order itself is the argument for the lists: focus, priority and address order Activities totally (`PrecedesIsOrder`),
so that a list in order has one place for another (`SortedWith`), and stays in order when the focus of one that is not
in it changes (`SortedSame`). RestartActivity and the destructor drop associations without telling anybody; that none are left to drop, with no
subscriber left, is part of the proof.

Each assumption of `RunProofs` is needed. With pause, a start that was sent is remembered over a requeue; with adopt, an ending Activity that takes
the adopter goes on without asking to run; with a refused complete the flags of an Activity that was told to end are cleared, and
with an update a trigger is replaced by an idle one while the Activity is in line. TLC has a counterexample for each
(`What the code does otherwise` has the first three). No run checks these properties on an instance that breaks its assumption.

`ClockSet` is needed because the code keeps "never" as the time -1: with a clock before 1970 a finish at that second would not count. The
run's times satisfy it.

The other assumptions are those the modules declare: what specifications and limits may be
(`SpecificationsAssumption`, `LevelsAssumption`), that `None` is not a subscription, that there are finitely many
Activities under a name and none of them is `None` (`PersistAssumption`), that bus ids are finitely many and `"none"` is not one
(`IdsAssumption`), what the environment may do
(`EnvironmentAssumption`, `ProxiesAssumption`), and that times and zones are numbers of seconds
(`SchedulerAssumption`, `TimesAssumption`, `WordAssumption`).

Only model-checked: everything in `Triggers` and `Subscriptions`, `ChainsEnd` of `Persist`, and liveness, which with `ENABLED` is beyond the prover. `Matchers` is recursive, as the data it
reads, and so `Triggers` is out of the prover's reach; `Subscriptions` folds over sequences, about which
the prover's libraries say nothing.

## What is left out, and why

* One member of `Subscribers` is one subscription; a client with two of them is two members. Who calls is abstracted
  to what the code compares: parent, creator, or somebody else.
* In the core one requirement per Activity, and a schedule that recurs or does not; several requirements and real
  intervals are in `Proxies` and `Scheduler`. Adopt with and without *wait* leave the same state behind, and are one action.
* In `Proxies`, the boot status only meets its requirement, once, and resets `m_bootIssued`; that it also enables and disables the Manager
  (`SystemManagerProxy.cpp:173`, `:181`) is in the core, as `Enable` and `Disable`.
* Replies to clients that cannot be sent, lost replies of db8, and the early returns of calls whose JSON cannot be built.
* The random part of the smart base time and of serials: the base is a constant, and serials are taken never to meet.
* The bodies of `ControlGroup` that would write control groups, and the association calls, are commented out or stubs.
* `GlibScheduler`, `NoopPowerManager` and the no-op resource manager, which the simulator's build has in place of those modelled; the test
  category and its driver; the older `MojoWhereMatcher`, which nothing instantiates; `RemoveManager`, which nothing calls.
* Listings, `info`, the rendering to JSON and its parsing, identities, logging, `main`: values and I/O without state
  of their own.

## Plan

Done: the core; `Power` with its refinement; `Persist` with loading; `Subscriptions`; `Scheduler`; `Requirements` and
`Proxies`; `Triggers`, callbacks and `Matchers`; `Resources` and focus; proofs about all of them but
`Subscriptions` and `Triggers`.

Left, and worth doing:

1. `SlotsMatch` with failing callbacks on a Manager that is always enabled.
2. Lost replies of db8, with what the retries then make of revisions and ids.
3. Two clients with several subscriptions each, for the association counts of the core.
