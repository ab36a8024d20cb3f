-------------------------------- MODULE Proxies --------------------------------
(***************************************************************************)
(* The proxies that watch the device for the requirements of Activities    *)
(* (ConnectionManagerProxy.cpp, TelephonyProxy.cpp, PowerdProxy.cpp,       *)
(* SystemManagerProxy.cpp), the daemons they subscribe to, and the         *)
(* subscriptions in between: those fail, and are made again.               *)
(***************************************************************************)
EXTENDS Requirements, Sequences

CONSTANTS
  Statuses,    \* what the connection manager may report
  Percents,    \* the charge the battery may have
  Specs,       \* the requirements an Activity may ask for, as sets
  UpSets,      \* the daemons that may be there to answer, as sets
  Faults,      \* how a subscription or a query may fail, out of FaultName
  MaxChanges,  \* bound: changes of the device
  MaxFailures, \* bound: failures
  MaxRestarts  \* bound: restarts of Activities

Daemon == {"connection manager", "telephony", "powerd", "system manager"}

FaultName == {"transient", "permanent", "query"}

\* A network as the connection manager describes it, or leaves it out.
Network ==
  [state : {"connected", "disconnected", "absent"}, network : {"usable", "unusable"},
   onInternet : {"yes", "no"},
   networkConfidenceLevel : {"none", "poor", "fair", "excellent", "unknown"}]

Status == [isInternetConnectionAvailable : BOOLEAN, wifi : Network, wan : Network]

ASSUME ProxiesAssumption ==
  /\ Statuses \subseteq Status /\ Percents \subseteq 0..100
  /\ UpSets \subseteq SUBSET Daemon /\ Faults \subseteq FaultName

VARIABLES
  act,     \* the Activities
  prox,    \* what the proxies hold
  lines,   \* the subscriptions, with the messages under way to the proxy
  world,   \* the device, as its daemons know it
  counts   \* (bounds) changes, failures and restarts so far

vars == <<act, prox, lines, world, counts>>

Line == {"getstatus", "platformQuery", "networkStatusQuery", "chargerStatus",
         "batteryStatus", "getBootStatus"}

Server ==
  [getstatus |-> "connection manager", platformQuery |-> "telephony",
   networkStatusQuery |-> "telephony", chargerStatus |-> "powerd",
   batteryStatus |-> "powerd", getBootStatus |-> "system manager"]

\* A network without a line to it, and nothing known of it: MojObject().
NoNetwork == [state |-> "absent", network |-> "usable", onInternet |-> "no",
              networkConfidenceLevel |-> "unknown"]

Init ==
  /\ act = [a \in Activities |-> NewActivity]
  /\ prox = [met |-> {}, level |-> [k \in Kind |-> -1],
             status |-> [isInternetConnectionAvailable |-> FALSE,
                         wifi |-> NoNetwork, wan |-> NoNetwork],
             wifi |-> NoNetwork, wan |-> NoNetwork,
             haveTelephonyService |-> FALSE,
             usbChargerConnected |-> FALSE, inductiveChargerConnected |-> FALSE,
             onPuck |-> FALSE, percent |-> 0,
             subscribed |-> {},  \* m_chargerStatusSubscribed, m_batteryStatusSubscribed
             bootIssued |-> FALSE]
  /\ lines = [l \in Line |->
       [call |-> IF l = "networkStatusQuery" THEN "none" ELSE "sent",  \* Enable
        messages |-> << >>, query |-> "none"]]
  /\ \E up \in UpSets, mapcenable \in BOOLEAN :
       /\ mapcenable => "telephony" \in up
       /\ world = [up |-> up, status |-> prox.status, percent |-> 100,
                   mapcenable |-> mapcenable, service |-> FALSE,
                   usb |-> FALSE, inductive |-> FALSE, booted |-> FALSE]
  /\ counts = [changes |-> 0, failures |-> 0, restarts |-> 0]

-----------------------------------------------------------------------------
(* ConnectionManagerProxy.                                                 *)

LevelOf == [none |-> 0, poor |-> 1, fair |-> 2, excellent |-> 3, unknown |-> -1]

Online(n) == n.state = "connected" /\ n.onInternet = "yes"

\* What UpdateWifiStatus and UpdateWANStatus ask of a network.
Available(k, n) == Online(n) /\ (k = "wan" => n.network # "unusable")

Confidence(k, n) ==
  IF Available(k, n) THEN LevelOf[n.networkConfidenceLevel] ELSE -1

\* The confidence of k, when it changes: every level up to it is met, and a
\* requirement that stays as it was is told of the new value.
UpdateConfidence(s, k, level, room) ==
  LET C(S)   == {<<ConfidenceName[k], i>> : i \in S}
      higher == C({i \in 0..3 : i > level})
      lower  == C({i \in 0..3 : i <= level})
      same   == (lower \cap s.prox.met) \cup (higher \ s.prox.met)
      t      == [s EXCEPT !.prox.level[k] = level, !.prox.met = (@ \ higher) \cup lower]
  IN IF s.prox.level[k] = level THEN s
     ELSE Then(Unmet(t, higher), LAMBDA u :
            Then(Updated(u, same), LAMBDA v : Met(v, lower, room)))

\* UpdateWifiStatus and UpdateWANStatus; of a network that is left out the last
\* description stands.
UpdateNetwork(s, k, n, room) ==
  LET now == IF n.state = "absent" THEN s.prox[k] ELSE n
  IN Then(SetCore([s EXCEPT !.prox[k] = now], <<k, 1>>, Available(k, n),
                  now # s.prox[k], room),
          LAMBDA t : UpdateConfidence(t, k, Confidence(k, n), room))

UpdateInternetConfidence(s, room) ==
  UpdateConfidence(s, "internet", Max({s.prox.level["wifi"], s.prox.level["wan"]}), room)

UpdateInternet(s, status, room) ==
  SetCore([s EXCEPT !.prox.status = status], <<"internet", 1>>,
          status.isInternetConnectionAvailable, status # s.prox.status, room)

ConnectionManagerUpdate(s, status, room) ==
  Then(UpdateInternet(s, status, room), LAMBDA t :
    Then(UpdateNetwork(t, "wifi", status.wifi, room), LAMBDA u :
      Then(UpdateNetwork(u, "wan", status.wan, room), LAMBDA v :
        UpdateInternetConfidence(v, room))))

-----------------------------------------------------------------------------
(* TelephonyProxy, SystemManagerProxy and PowerdProxy.                     *)

UpdateTelephonyState(s, service, room) ==
  SetCore([s EXCEPT !.prox.haveTelephonyService = service], <<"telephony", 1>>,
          service, FALSE, room)

\* The requirement is tripped once each time the device has booted: those made
\* later wait for the next boot.
BootStatusUpdate(s, finished, room) ==
  LET t == [s EXCEPT !.prox.bootIssued = finished]
  IN IF finished /\ ~s.prox.bootIssued THEN Met(t, {<<"bootup", 1>>}, room) ELSE t

\* ChargerStatusSignal, of a signal that names a charger.
ChargerStatus(s, type, connected, room) ==
  LET t == IF type = "usb" THEN [s EXCEPT !.prox.usbChargerConnected = connected]
           ELSE [s EXCEPT !.prox.inductiveChargerConnected = connected,
                          !.prox.onPuck = connected]  \* its name is "puck"
  IN Then(SetCore(t, <<"docked", 1>>, t.prox.onPuck, FALSE, room), LAMBDA u :
       SetCore(u, <<"charging", 1>>,
               u.prox.inductiveChargerConnected \/ u.prox.usbChargerConnected,
               FALSE, room))

Battery(from, to) == {<<"battery", n>> : n \in (from + 1)..to}

\* BatteryStatusSignal: the requirements between the old charge and the new one
\* change, those below both are told.
BatteryStatus(s, percent, room) ==
  LET old == s.prox.percent
      t   == [s EXCEPT !.prox.percent = percent]
  IN CASE percent < old -> Unmet(Updated(t, Battery(-1, percent)), Battery(percent, old))
       [] percent > old -> Met(Updated(t, Battery(-1, old)), Battery(old, percent), room)
       [] OTHER         -> t

-----------------------------------------------------------------------------
(* Subscriptions.  A daemon answers with what it knows, and sends every    *)
(* change as long as the subscription is open.  An error ends it.          *)

Now == [act |-> act, prox |-> prox]

Become(s) == act' = s.act /\ prox' = s.prox

\* What the daemon has to say on a line: an addmatch has only to be confirmed,
\* and signals come for each charger.
News(l, w) ==
  CASE l = "getstatus"          -> << w.status >>
    [] l \in {"platformQuery", "networkStatusQuery"} -> << w.service >>
    [] l = "chargerStatus"      -> << <<"usb", w.usb>>, <<"inductive", w.inductive>> >>
    [] l = "batteryStatus"      -> << w.percent >>
    [] l = "getBootStatus"      -> << w.booted >>

Ok(news) == [i \in DOMAIN news |-> [kind |-> "ok", news |-> news[i]]]

Signals == {"chargerStatus", "batteryStatus"}

\* The first answer.
Answer(l) ==
  /\ lines[l].call = "sent" /\ Server[l] \in world.up
  /\ lines' = [lines EXCEPT ![l].call = "open",
       ![l].messages =
         IF l \in Signals THEN << [kind |-> "confirmed"] >>
         ELSE IF l = "platformQuery" /\ ~world.mapcenable THEN << [kind |-> "unsaid"] >>
         ELSE Ok(News(l, world))]
  /\ UNCHANGED <<act, prox, world, counts>>

\* A status query is answered by signals; or it fails, and is not repeated.
AnswerQuery(l) ==
  /\ lines[l].query = "sent" /\ Server[l] \in world.up
  /\ lines' = [lines EXCEPT ![l].query = "none",
       ![l].messages = IF lines[l].call = "open" THEN @ \o Ok(News(l, world)) ELSE @]
  /\ UNCHANGED <<act, prox, world, counts>>

LoseQuery(l) ==
  /\ "query" \in Faults
  /\ lines[l].query = "sent"
  /\ lines' = [lines EXCEPT ![l].query = "lost"]
  /\ UNCHANGED <<act, prox, world, counts>>

Fail(l, kind) ==
  /\ kind \in Faults \ {"query"} /\ counts.failures < MaxFailures
  /\ lines[l].call \in {"sent", "open"} /\ Server[l] \in world.up
  /\ lines' = [lines EXCEPT ![l].call = "failed",
                            ![l].messages = Append(@, [kind |-> kind])]
  /\ counts' = [counts EXCEPT !.failures = @ + 1]
  /\ UNCHANGED <<act, prox, world>>

\* The device changes to w, which is news on the lines given.
Change(w, changed) ==
  /\ counts.changes < MaxChanges
  /\ world' = w
  /\ lines' = [l \in Line |->
       IF l \in changed /\ lines[l].call = "open"
       THEN [lines[l] EXCEPT !.messages = @ \o Ok(News(l, w))] ELSE lines[l]]
  /\ counts' = [counts EXCEPT !.changes = @ + 1]
  /\ UNCHANGED <<act, prox>>

Changes ==
  \/ \E status \in Statuses \ {world.status} :
       /\ "connection manager" \in world.up
       /\ Change([world EXCEPT !.status = status], {"getstatus"})
  \/ \E percent \in Percents \ {world.percent} :
       /\ "powerd" \in world.up
       /\ Change([world EXCEPT !.percent = percent], {"batteryStatus"})
  \/ /\ "powerd" \in world.up
     /\ \/ Change([world EXCEPT !.usb = ~@], {"chargerStatus"})
        \/ Change([world EXCEPT !.inductive = ~@], {"chargerStatus"})
  \/ /\ "telephony" \in world.up
     /\ Change([world EXCEPT !.service = ~@], {"platformQuery", "networkStatusQuery"})
  \/ /\ "system manager" \in world.up
     /\ Change([world EXCEPT !.booted = ~@], {"getBootStatus"})

\* What a response that is no error changes.
Hear(s, l, m, room) ==
  CASE l = "getstatus" -> ConnectionManagerUpdate(s, m.news, room)
    [] l \in {"platformQuery", "networkStatusQuery"} ->
         UpdateTelephonyState(s, m.news, room)
    [] l = "getBootStatus" -> BootStatusUpdate(s, m.news, room)
    [] l = "chargerStatus" -> ChargerStatus(s, m.news[1], m.news[2], room)
    [] l = "batteryStatus" -> BatteryStatus(s, m.news, room)

\* Mutant of Resubscribe: it is left to the next time the proxy is enabled.
ResubscribeNever(l) ==
  /\ lines[l].messages # << >> /\ Head(lines[l].messages).kind = "transient"
  /\ lines' = [lines EXCEPT ![l].messages = << >>]
  /\ prox' = [prox EXCEPT !.subscribed = @ \ {l}]
  /\ UNCHANGED <<act, world, counts>>

\* Mutant of Resubscribe: whether the signal was subscribed to is not reset.
ResubscribeStale(l) ==
  /\ lines[l].messages # << >> /\ Head(lines[l].messages).kind = "transient"
  /\ lines' = [lines EXCEPT ![l].call = "sent", ![l].messages = << >>]
  /\ UNCHANGED <<act, prox, world, counts>>

\* A transient error: the same call again.
Resubscribe(l) ==
  /\ lines[l].messages # << >> /\ Head(lines[l].messages).kind = "transient"
  /\ lines' = [lines EXCEPT ![l].call = "sent", ![l].messages = << >>]
  /\ prox' = [prox EXCEPT !.subscribed = @ \ {l}]
  /\ UNCHANGED <<act, world, counts>>

\* A permanent failure: the call is dropped, and what is known stands.
GiveUp(l) ==
  /\ lines[l].messages # << >> /\ Head(lines[l].messages).kind = "permanent"
  /\ lines' = [lines EXCEPT ![l].call = "none", ![l].messages = << >>]
  /\ prox' = [prox EXCEPT !.subscribed = @ \ {l}]
  /\ UNCHANGED <<act, world, counts>>

\* The platform does not say whether it has service: ask for the network's status.
FallBack ==
  /\ LET l == lines["platformQuery"]
     IN l.messages # << >> /\ Head(l.messages).kind = "unsaid"
  /\ lines' = [lines EXCEPT !["platformQuery"].call = "none",
                            !["platformQuery"].messages = << >>,
                            !["networkStatusQuery"].call = "sent"]
  /\ UNCHANGED <<act, prox, world, counts>>

\* The first response to a signal's subscription asks for the status, which the
\* response itself does not tell.
Confirmed(l) ==
  /\ lines[l].messages # << >> /\ Head(lines[l].messages).kind = "confirmed"
  /\ prox' = [prox EXCEPT !.subscribed = @ \cup {l}]
  /\ lines' = [lines EXCEPT ![l].messages = Tail(@),
                            ![l].query = IF l \in prox.subscribed THEN @ ELSE "sent"]
  /\ UNCHANGED <<act, world, counts>>

\* News; the Activities in room find the Manager with room for them.
Receive(l, room) ==
  /\ lines[l].messages # << >> /\ Head(lines[l].messages).kind = "ok"
  /\ \E s \in {Hear(Now, l, Head(lines[l].messages), room)} : Become(s)
  /\ lines' = [lines EXCEPT ![l].messages = Tail(@)]
  /\ UNCHANGED <<world, counts>>

-----------------------------------------------------------------------------
(* Activities.                                                             *)

\* The specifications that are accepted.
Legal(spec) == spec \subseteq Instantiable("telephony" \in world.up) /\ OnePerName(spec)

CreateActivity(a, spec) ==
  /\ ~act[a].created /\ Legal(spec)
  /\ act' = [act EXCEPT ![a] = BroadcastEvent([UpdateRequirements(@, spec, {}, prox, FALSE)
                                               EXCEPT !.created = TRUE], prox)]
  /\ UNCHANGED <<prox, lines, world, counts>>

\* The Manager schedules it, and may have room for it at once.
ScheduleActivity(a) ==
  /\ act[a].created /\ ~act[a].scheduled
  /\ \E room \in BOOLEAN :
       LET r == [act[a] EXCEPT !.scheduled = TRUE]
       IN act' = [act EXCEPT ![a] = IF IsRunnable(r) THEN RequestRunActivity(r, room) ELSE r]
  /\ UNCHANGED <<prox, lines, world, counts>>

\* The Manager runs it from the queue.
RunActivity(a) ==
  /\ act[a].ready /\ ~act[a].running
  /\ act' = [act EXCEPT ![a].running = TRUE]
  /\ UNCHANGED <<prox, lines, world, counts>>

\* It completes, to restart with other requirements.
RestartActivity(a, spec) ==
  /\ act[a].scheduled /\ Legal(spec)
  /\ counts.restarts < MaxRestarts
  /\ LET removed == {q[1] : q \in act[a].wants} \ {q[1] : q \in spec}
     IN act' = [act EXCEPT ![a] =
          BroadcastEvent([UpdateRequirements(@, spec, removed, prox, FALSE)
            EXCEPT !.scheduled = FALSE, !.ready = FALSE, !.running = FALSE], prox)]
  /\ counts' = [counts EXCEPT !.restarts = @ + 1]
  /\ UNCHANGED <<prox, lines, world>>

Next ==
  \/ \E l \in Line :
       \/ Answer(l) \/ AnswerQuery(l) \/ LoseQuery(l)
       \/ \E kind \in Faults : Fail(l, kind)
       \/ Resubscribe(l) \/ GiveUp(l) \/ Confirmed(l)
       \/ \E room \in SUBSET Activities : Receive(l, room)
  \/ Changes
  \/ FallBack
  \/ \E a \in Activities :
       \/ \E spec \in Specs : CreateActivity(a, spec) \/ RestartActivity(a, spec)
       \/ ScheduleActivity(a)
       \/ RunActivity(a)

\* Daemons answer, and what they send arrives and is handled.
Progress(l) ==
  \/ Answer(l) \/ AnswerQuery(l) \/ Resubscribe(l) \/ GiveUp(l) \/ Confirmed(l)
  \/ l = "platformQuery" /\ FallBack
  \/ \E room \in SUBSET Activities : Receive(l, room)

Fairness == \A l \in Line : WF_vars(Progress(l))

Spec == Init /\ [][Next]_vars /\ Fairness

-----------------------------------------------------------------------------
(* Properties.                                                             *)

TypeOK ==
  /\ \A a \in Activities :
       /\ act[a].wants \subseteq Requirement /\ OnePerName(act[a].wants)
       /\ act[a].met \subseteq act[a].wants
       /\ DOMAIN act[a].shown = act[a].wants
       /\ act[a].created \in BOOLEAN /\ act[a].scheduled \in BOOLEAN
       /\ act[a].ready \in BOOLEAN /\ act[a].running \in BOOLEAN
  /\ prox.met \subseteq Requirement /\ prox.level \in [Kind -> Level]
  /\ prox.status \in Status /\ prox.wifi \in Network /\ prox.wan \in Network
  /\ prox.percent \in 0..100 /\ prox.subscribed \subseteq Signals
  /\ \A l \in Line :
       /\ lines[l].call \in {"none", "sent", "open", "failed"}
       /\ lines[l].query \in {"none", "sent", "lost"}

\* An Activity that has been scheduled and is not running is ready exactly when
\* everything it requires holds: no change that a proxy hears of, no requirement
\* put in another's place, leaves it waiting for nothing or lets it start
\* without what it needs (Activity.cpp, RequirementMet and RequirementUnmet).
ReadyWhenMet ==
  \A a \in Activities :
    act[a].scheduled /\ ~act[a].running =>
      (act[a].ready <=> \A q \in act[a].wants :
                           IF q \in SystemManagerRequirement THEN q \in act[a].met
                           ELSE Holds(prox, q))

\* The state is what its declarations say, and readiness what the cores say.
Consistent == TypeOK /\ ReadyWhenMet

\* The last event an Activity's subscribers saw tells the present state of every
\* requirement that is met (PowerdProxy.cpp:447 sets the charge before anyone is
\* told; an update is sent when nothing but the value changes).
LastEventIsCurrent ==
  \A a \in Activities : \A q \in act[a].met : act[a].shown[q] = CurrentValue(prox, q)

\* What the proxy of line l makes of the device is what the daemon knows.
Agrees(l) ==
  LET level(k) == Confidence(k, world.status[k])
      best     == Max({level("wifi"), level("wan")})
  IN CASE l = "getstatus" ->
            /\ (<<"internet", 1>> \in prox.met) <=> world.status.isInternetConnectionAvailable
            /\ \A k \in {"wifi", "wan"} :
                 (<<k, 1>> \in prox.met) <=> Available(k, world.status[k])
            /\ \A k \in Kind, i \in 0..3 :
                 (<<ConfidenceName[k], i>> \in prox.met)
                   <=> IF k = "internet" THEN best >= i ELSE level(k) >= i
       [] l \in {"platformQuery", "networkStatusQuery"} ->
            (<<"telephony", 1>> \in prox.met) <=> world.service
       [] l = "chargerStatus" ->
            /\ (<<"charging", 1>> \in prox.met) <=> world.usb \/ world.inductive
            /\ (<<"docked", 1>> \in prox.met) <=> world.inductive
       [] l = "batteryStatus" -> prox.percent = world.percent
       [] l = "getBootStatus" -> prox.bootIssued = world.booted

\* Nothing is under way on a line that is open.
Quiet(l) ==
  lines[l].call = "open" /\ lines[l].messages = << >> /\ lines[l].query = "none"

\* A proxy with nothing left to hear agrees with its daemon, whatever was missed
\* while a subscription was down: subscribing again asks for the state again.
QuietAgrees == \A l \in Line : Quiet(l) => Agrees(l)

\* Every subscription to a daemon that is there ends up open with nothing left to
\* hear, unless it failed for good, was given up for another or lost its query.
CatchesUp ==
  \A l \in Line :
    <>[](\/ Quiet(l) \/ lines[l].call = "none" \/ lines[l].query = "lost"
        \/ Server[l] \notin world.up)
=============================================================================
