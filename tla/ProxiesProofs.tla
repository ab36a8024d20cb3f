------------------------------ MODULE ProxiesProofs ------------------------------
(***************************************************************************)
(* Theorems about Proxies, for every value of its constants: an Activity   *)
(* is ready exactly when what it requires holds, its subscribers saw the   *)
(* present state of it, and a proxy with nothing left to hear agrees with  *)
(* its daemon.                                                             *)
(***************************************************************************)
EXTENDS Proxies, SequenceTheorems, TLAPS

-----------------------------------------------------------------------------
(* The invariant of the Activities and of what the proxies hold.           *)

\* What the cores of the proxies may be met for; the others never are.
Cores ==
  ConnectionManagerRequirement \cup TelephonyRequirement \cup ({"charging", "docked"} \X {1})

ProxyState ==
  [met : SUBSET Cores, level : [Kind -> Level], status : Status, wifi : Network, wan : Network,
   haveTelephonyService : BOOLEAN,
   usbChargerConnected : BOOLEAN, inductiveChargerConnected : BOOLEAN, onPuck : BOOLEAN,
   percent : 0..100, subscribed : SUBSET Signals, bootIssued : BOOLEAN]

\* An Activity.
Record(r) ==
  /\ DOMAIN r = {"wants", "met", "shown", "created", "scheduled", "ready", "running"}
  /\ r.wants \subseteq Requirement /\ OnePerName(r.wants)
  /\ r.met \subseteq r.wants
  /\ DOMAIN r.shown = r.wants
  /\ r.created \in BOOLEAN /\ r.scheduled \in BOOLEAN
  /\ r.ready \in BOOLEAN /\ r.running \in BOOLEAN

\* It waits in a ready queue for room only, and only when it has been scheduled.
Waits(r) ==
  /\ ~r.scheduled => ~r.ready /\ ~r.running
  /\ ~r.created => ~r.scheduled
  /\ r.scheduled /\ ~r.running => (r.ready <=> r.met = r.wants)

\* It knows of q what the proxy does; nobody knows of a boot that was missed.
Aware(r, p, q) == q \notin SystemManagerRequirement => (q \in r.met <=> Holds(p, q))

\* Who subscribes to it has seen the present state of q, if q is met.
Seen(r, p, q) == q \in r.met => r.shown[q] = CurrentValue(p, q)

\* It is up to date, but for the requirements in X.
Knows(r, p, X) == \A q \in r.wants \ X : Aware(r, p, q) /\ Seen(r, p, q)

Fine(r, p, X) == Record(r) /\ Waits(r) /\ Knows(r, p, X)

\* A state, in which all Activities are up to date but for the requirements in X.
State(s, X) ==
  /\ DOMAIN s = {"act", "prox"} /\ DOMAIN s.act = Activities
  /\ s.prox \in ProxyState
  /\ \A a \in Activities : Fine(s.act[a], s.prox, X)

-----------------------------------------------------------------------------
(* Requirements.                                                           *)

\* A requirement is a name and a value.
LEMMA RequirementIs ==
  ASSUME NEW q \in Requirement
  PROVE  /\ q = <<q[1], q[2]>>
         /\ \/ q[1] \in Kind /\ q[2] = 1
            \/ \E k \in Kind : q[1] = ConfidenceName[k] /\ q[2] \in 0..3
            \/ q[1] \in {"telephony", "charging", "docked", "bootup", "never"} /\ q[2] = 1
            \/ q[1] = "battery" /\ q[2] \in 0..100
BY DEF Requirement, ConnectionManagerRequirement, TelephonyRequirement, PowerdRequirement,
       SystemManagerRequirement, DefaultRequirement

LEMMA NameIs ==
  /\ Kind = {"internet", "wifi", "wan"}
  /\ ConfidenceName["internet"] = "internetConfidence"
  /\ ConfidenceName["wifi"] = "wifiConfidence"
  /\ ConfidenceName["wan"] = "wanConfidence"
BY DEF Kind, ConfidenceName

\* The value of a requirement, by its name.
LEMMA ValueIs ==
  ASSUME NEW q, NEW p
  PROVE  /\ q[1] = "battery" => CurrentValue(p, q) = p.percent
         /\ q[1] = "internet" => CurrentValue(p, q) = p.status
         /\ q[1] = "wifi" => CurrentValue(p, q) = p.wifi
         /\ q[1] = "wan" => CurrentValue(p, q) = p.wan
         /\ \A k \in Kind : q[1] = ConfidenceName[k] => CurrentValue(p, q) = p.level[k]
         /\ q[1] \in {"telephony", "charging", "docked", "bootup", "never"} =>
              CurrentValue(p, q) = (q \in p.met)
<1>1. ASSUME NEW k \in Kind, q[1] = ConfidenceName[k]
      PROVE  CurrentValue(p, q) = p.level[k]
  <2>1. \A j \in Kind : q[1] = ConfidenceName[j] => j = k
    BY <1>1, NameIs
  <2>2. (CHOOSE j \in Kind : q[1] = ConfidenceName[j]) = k
    BY <1>1, <2>1
  <2>3. q[1] \notin {"battery", "internet", "wifi", "wan"}
    BY <1>1, NameIs
  <2> QED
    BY <1>1, <2>2, <2>3 DEF CurrentValue
<1>2. ASSUME q[1] \in {"telephony", "charging", "docked", "bootup", "never"}
      PROVE  CurrentValue(p, q) = (q \in p.met)
  <2>1. ~\E k \in Kind : q[1] = ConfidenceName[k]
    BY <1>2, NameIs
  <2> QED
    BY <1>2, <2>1 DEF CurrentValue
<1>3. ASSUME q[1] \in {"battery", "internet", "wifi", "wan"}
      PROVE  ~\E k \in Kind : q[1] = ConfidenceName[k]
  BY <1>3, NameIs
<1>4. q[1] = "battery" => CurrentValue(p, q) = p.percent
  BY <1>3 DEF CurrentValue
<1>5. q[1] = "internet" => CurrentValue(p, q) = p.status
  BY <1>3 DEF CurrentValue
<1>6. q[1] = "wifi" => CurrentValue(p, q) = p.wifi
  BY <1>3 DEF CurrentValue
<1>7. q[1] = "wan" => CurrentValue(p, q) = p.wan
  BY <1>3 DEF CurrentValue
<1> QED
  BY <1>1, <1>2, <1>4, <1>5, <1>6, <1>7

\* Of q, the proxies hold in r what they hold in p.
Alike(p, r, q) == CurrentValue(r, q) = CurrentValue(p, q) /\ (Holds(r, q) <=> Holds(p, q))

LEMMA Unaffected ==
  ASSUME NEW q \in Requirement, NEW p, NEW r,
         q \in r.met <=> q \in p.met,
         q[1] = "battery" => r.percent = p.percent,
         q[1] = "internet" => r.status = p.status,
         q[1] = "wifi" => r.wifi = p.wifi,
         q[1] = "wan" => r.wan = p.wan,
         \A k \in Kind : q[1] = ConfidenceName[k] => r.level[k] = p.level[k]
  PROVE  Alike(p, r, q)
<1>1. Holds(r, q) <=> Holds(p, q)
  BY DEF Holds
<1>2. CASE q[1] \in {"battery", "internet", "wifi", "wan"}
  BY <1>1, <1>2, ValueIs DEF Alike
<1>3. CASE \E k \in Kind : q[1] = ConfidenceName[k]
  BY <1>1, <1>3, ValueIs DEF Alike
<1>4. CASE q[1] \in {"telephony", "charging", "docked", "bootup", "never"}
  BY <1>1, <1>4, ValueIs DEF Alike
<1> QED
  BY <1>2, <1>3, <1>4, RequirementIs, NameIs

\* Who is up to date stays so when nothing changes for what it knows.
LEMMA KnowsStill ==
  ASSUME NEW a, NEW p, NEW r, NEW X, NEW Y, Fine(a, p, X), X \subseteq Y,
         \A q \in Requirement \ Y : Alike(p, r, q)
  PROVE  Fine(a, r, Y)
BY DEF Fine, Knows, Aware, Seen, Alike, Record

-----------------------------------------------------------------------------
(* What a proxy tells the Activities, of requirements with one name.       *)

OneName(Q) == Q \subseteq Requirement /\ \A q, o \in Q : q[1] = o[1]

LEMMA OnlyOne ==
  ASSUME NEW r, Record(r), NEW Q, OneName(Q), NEW q \in r.wants \cap Q
  PROVE  \A o \in r.wants \cap Q : o = q
BY DEF Record, OnePerName, OneName

\* An event shows everything as it is.
LEMMA BroadcastShows ==
  ASSUME NEW r, Record(r), NEW p
  PROVE  LET e == BroadcastEvent(r, p)
         IN /\ Record(e) /\ \A q \in e.wants : Seen(e, p, q)
            /\ e.wants = r.wants /\ e.met = r.met /\ e.created = r.created
            /\ e.scheduled = r.scheduled /\ e.ready = r.ready /\ e.running = r.running
BY DEF BroadcastEvent, Record, Seen

LEMMA MetFine ==
  ASSUME NEW r, NEW p, NEW X, Fine(r, p, X), NEW Q, OneName(Q), NEW room \in BOOLEAN,
         NEW q \in Q, q \in r.wants, q \notin r.met, q \in SystemManagerRequirement \/ Holds(p, q)
  PROVE  Fine(RequirementMet(r, q, p, room), p, X \ Q)
<1> DEFINE u == [r EXCEPT !.met = @ \cup {q}]
           m == BroadcastEvent(u, p)
           v == RequirementMet(r, q, p, room)
<1>1. Record(r)
  BY DEF Fine
<1>2. /\ Record(u) /\ u.wants = r.wants /\ u.met = r.met \cup {q} /\ u.shown = r.shown
      /\ u.created = r.created /\ u.scheduled = r.scheduled
      /\ u.ready = r.ready /\ u.running = r.running
  BY <1>1 DEF Record
<1> HIDE DEF u
<1>3. /\ Record(m) /\ \A o \in m.wants : Seen(m, p, o)
      /\ m.wants = r.wants /\ m.met = r.met \cup {q} /\ m.created = r.created
      /\ m.scheduled = r.scheduled /\ m.ready = r.ready /\ m.running = r.running
  BY <1>2, BroadcastShows
<1>4. v = IF ~m.running /\ ~m.ready /\ IsRunnable(m) THEN RequestRunActivity(m, room) ELSE m
  BY DEF RequirementMet, u
<1> HIDE DEF m, v
<1>5. Record(v) /\ Waits(v) /\ v.wants = r.wants /\ v.met = m.met /\ v.shown = m.shown
  <2>1. CASE ~m.running /\ ~m.ready /\ IsRunnable(m)
    BY <1>3, <1>4, <2>1 DEF Fine, Record, Waits, IsRunnable, RequestRunActivity
  <2>2. CASE ~(~m.running /\ ~m.ready /\ IsRunnable(m))
    BY <1>1, <1>3, <1>4, <2>2 DEF Fine, Record, Waits, IsRunnable
  <2> QED
    BY <2>1, <2>2
<1>6. \A o \in r.wants \ (X \ Q) : o # q => o \notin X
  BY <1>1, OnlyOne
<1>7. Knows(v, p, X \ Q)
  BY <1>3, <1>5, <1>6 DEF Fine, Knows, Aware, Seen
<1> QED
  BY <1>5, <1>7 DEF Fine, v

LEMMA UnmetFine ==
  ASSUME NEW r, NEW p, NEW X, Fine(r, p, X), NEW Q, OneName(Q),
         NEW q \in Q, q \in r.met, q \notin SystemManagerRequirement, ~Holds(p, q)
  PROVE  Fine(RequirementUnmet(r, q, p), p, X \ Q)
<1> DEFINE u == [r EXCEPT !.met = @ \ {q}, !.ready = @ /\ r.running]
           v == RequirementUnmet(r, q, p)
<1>1. Record(r) /\ q \in r.wants
  BY DEF Fine, Record
<1>2. /\ Record(u) /\ u.wants = r.wants /\ u.met = r.met \ {q} /\ u.created = r.created
      /\ u.scheduled = r.scheduled /\ u.ready = (r.ready /\ r.running) /\ u.running = r.running
  BY <1>1 DEF Record
<1>3. v = BroadcastEvent(u, p)
  BY DEF RequirementUnmet
<1> HIDE DEF u, v
<1>4. /\ Record(v) /\ \A o \in v.wants : Seen(v, p, o)
      /\ v.wants = r.wants /\ v.met = r.met \ {q} /\ v.created = r.created
      /\ v.scheduled = r.scheduled /\ v.ready = (r.ready /\ r.running) /\ v.running = r.running
  BY <1>2, <1>3, BroadcastShows
<1>5. Waits(v)
  BY <1>1, <1>4 DEF Fine, Waits
<1>6. \A o \in r.wants \ (X \ Q) : o # q => o \notin X
  BY <1>1, OnlyOne
<1>7. Knows(v, p, X \ Q)
  BY <1>4, <1>6 DEF Fine, Knows, Aware
<1> QED
  BY <1>4, <1>5, <1>7 DEF Fine, v

LEMMA UpdatedFine ==
  ASSUME NEW r, NEW p, NEW X, Fine(r, p, X), NEW Q,
         \A q \in Q \cap r.wants : Aware(r, p, q)
  PROVE  Fine(BroadcastEvent(r, p), p, X \ Q)
<1> DEFINE v == BroadcastEvent(r, p)
<1>1. /\ Record(v) /\ \A o \in v.wants : Seen(v, p, o)
      /\ v.wants = r.wants /\ v.met = r.met /\ v.created = r.created
      /\ v.scheduled = r.scheduled /\ v.ready = r.ready /\ v.running = r.running
  BY BroadcastShows DEF Fine
<1> HIDE DEF v
<1>2. Waits(v)
  BY <1>1 DEF Fine, Waits
<1>3. Knows(v, p, X \ Q)
  BY <1>1 DEF Fine, Knows, Aware
<1> QED
  BY <1>1, <1>2, <1>3 DEF Fine, v

\* Met, Unmet and Updated leave the proxies alone; who was not up to date for
\* their requirements only, is.
LEMMA MetState ==
  ASSUME NEW s, NEW X, State(s, X), NEW Q, OneName(Q), NEW room,
         \A q \in Q : q \in SystemManagerRequirement \/ Holds(s.prox, q),
         \A a \in Activities : \A q \in Q \cap X \cap s.act[a].met : Seen(s.act[a], s.prox, q)
  PROVE  /\ State(Met(s, Q, room), X \ Q) /\ Met(s, Q, room).prox = s.prox
<1> DEFINE t == Met(s, Q, room)
<1>1. /\ DOMAIN t = {"act", "prox"} /\ DOMAIN t.act = Activities /\ t.prox = s.prox
      /\ \A a \in Activities :
           t.act[a] = IF Q \cap (s.act[a].wants \ s.act[a].met) = {} THEN s.act[a]
                      ELSE RequirementMet(s.act[a], CHOOSE q \in Q : q \in s.act[a].wants,
                                          s.prox, a \in room)
  BY DEF Met, State
<1> HIDE DEF t
<1>2. ASSUME NEW a \in Activities
      PROVE  Fine(t.act[a], t.prox, X \ Q)
  <2> DEFINE r == s.act[a]
  <2>1. Fine(r, s.prox, X)
    BY DEF State
  <2>2. CASE Q \cap (r.wants \ r.met) = {}
    <3>1. \A q \in Q \cap X \cap r.wants :
            q \in r.met /\ Seen(r, s.prox, q) /\ Aware(r, s.prox, q)
      BY <2>2 DEF Aware
    <3> HIDE DEF r
    <3>2. Fine(r, s.prox, X \ Q)
      BY <2>1, <3>1 DEF Fine, Knows
    <3> QED
      BY <1>1, <2>2, <3>2 DEF r
  <2>3. CASE Q \cap (r.wants \ r.met) # {}
    <3> DEFINE q == CHOOSE o \in Q : o \in r.wants
    <3>1. PICK o \in Q : o \in r.wants /\ o \notin r.met
      BY <2>3
    <3>2. q \in Q /\ q \in r.wants
      BY <3>1
    <3> HIDE DEF q
    <3>3. q = o
      BY <2>1, <3>1, <3>2, OnlyOne DEF Fine
    <3>4. t.act[a] = RequirementMet(r, q, s.prox, a \in room)
      BY <1>1, <2>3 DEF q
    <3>5. PICK b \in BOOLEAN : b = (a \in room)
      <4>1. (a \in room) \in BOOLEAN
        OBVIOUS
      <4> QED
        BY <4>1, Zenon
    <3>6. t.act[a] = RequirementMet(r, q, s.prox, b)
      BY <3>4, <3>5
    <3> HIDE DEF r
    <3>7. Fine(RequirementMet(r, q, s.prox, b), s.prox, X \ Q)
      BY <2>1, <3>1, <3>2, <3>3, MetFine
    <3> QED
      BY <1>1, <3>6, <3>7
  <2> QED
    BY <2>2, <2>3
<1> QED
  BY <1>1, <1>2 DEF State, t

LEMMA UnmetState ==
  ASSUME NEW s, NEW X, State(s, X), NEW Q, OneName(Q),
         \A q \in Q : q \notin SystemManagerRequirement /\ ~Holds(s.prox, q)
  PROVE  LET t == Unmet(s, Q)
         IN /\ State(t, X \ Q) /\ t.prox = s.prox
            /\ \A a \in Activities : /\ t.act[a].wants = s.act[a].wants
                                     /\ t.act[a].met = s.act[a].met \ Q
<1> DEFINE t == Unmet(s, Q)
<1>1. /\ DOMAIN t = {"act", "prox"} /\ DOMAIN t.act = Activities /\ t.prox = s.prox
      /\ \A a \in Activities :
           t.act[a] = IF Q \cap s.act[a].met = {} THEN s.act[a]
                      ELSE RequirementUnmet(s.act[a], CHOOSE q \in Q : q \in s.act[a].met, s.prox)
  BY DEF Unmet, State
<1> HIDE DEF t
<1>2. ASSUME NEW a \in Activities
      PROVE  /\ Fine(t.act[a], t.prox, X \ Q)
             /\ t.act[a].wants = s.act[a].wants /\ t.act[a].met = s.act[a].met \ Q
  <2> DEFINE r == s.act[a]
  <2>1. Fine(r, s.prox, X) /\ Record(r)
    BY DEF State, Fine
  <2>2. CASE Q \cap r.met = {}
    <3>1. \A q \in Q \cap X \cap r.wants : Seen(r, s.prox, q) /\ Aware(r, s.prox, q)
      BY <2>2 DEF Aware, Seen
    <3> HIDE DEF r
    <3>2. Fine(r, s.prox, X \ Q)
      BY <2>1, <3>1 DEF Fine, Knows
    <3> QED
      BY <1>1, <2>2, <3>2 DEF r
  <2>3. CASE Q \cap r.met # {}
    <3> DEFINE q == CHOOSE o \in Q : o \in r.met
    <3>1. q \in Q /\ q \in r.met
      BY <2>3
    <3> HIDE DEF q
    <3>2. q \in r.wants /\ \A o \in Q \cap r.met : o = q
      BY <2>1, <3>1, OnlyOne DEF Record
    <3>3. t.act[a] = RequirementUnmet(r, q, s.prox)
      BY <1>1, <2>3 DEF q
    <3>4. t.act[a].wants = r.wants /\ t.act[a].met = r.met \ {q}
      BY <2>1, <3>3 DEF RequirementUnmet, BroadcastEvent, Record
    <3> QED
      BY <1>1, <2>1, <3>1, <3>2, <3>3, <3>4, UnmetFine
  <2> QED
    BY <2>2, <2>3
<1> QED
  BY <1>1, <1>2 DEF State, t

LEMMA UpdatedState ==
  ASSUME NEW s, NEW X, State(s, X), NEW Q,
         \A a \in Activities : \A q \in Q \cap X \cap s.act[a].wants : Aware(s.act[a], s.prox, q)
  PROVE  LET t == Updated(s, Q)
         IN /\ State(t, X \ Q) /\ t.prox = s.prox
            /\ \A a \in Activities : /\ t.act[a].wants = s.act[a].wants
                                     /\ t.act[a].met = s.act[a].met
<1> DEFINE t == Updated(s, Q)
<1>1. /\ DOMAIN t = {"act", "prox"} /\ DOMAIN t.act = Activities /\ t.prox = s.prox
      /\ \A a \in Activities :
           t.act[a] = IF Q \cap s.act[a].wants = {} THEN s.act[a]
                      ELSE BroadcastEvent(s.act[a], s.prox)
  BY DEF Updated, State
<1> HIDE DEF t
<1>2. ASSUME NEW a \in Activities
      PROVE  /\ Fine(t.act[a], t.prox, X \ Q)
             /\ t.act[a].wants = s.act[a].wants /\ t.act[a].met = s.act[a].met
  <2> DEFINE r == s.act[a]
  <2>1. Fine(r, s.prox, X) /\ Record(r)
    BY DEF State, Fine
  <2>2. CASE Q \cap r.wants = {}
    <3> HIDE DEF r
    <3>1. Fine(r, s.prox, X \ Q)
      BY <2>1, <2>2 DEF Fine, Knows
    <3> QED
      BY <1>1, <2>2, <3>1 DEF r
  <2>3. CASE Q \cap r.wants # {}
    <3>1. t.act[a] = BroadcastEvent(r, s.prox)
      BY <1>1, <2>3
    <3>2. \A q \in Q \cap r.wants : Aware(r, s.prox, q)
      BY <2>1 DEF Fine, Knows
    <3> HIDE DEF r
    <3>3. Fine(BroadcastEvent(r, s.prox), s.prox, X \ Q)
      BY <2>1, <3>2, UpdatedFine
    <3>4. t.act[a].wants = r.wants /\ t.act[a].met = r.met
      BY <2>1, <3>1, BroadcastShows
    <3> QED
      BY <1>1, <3>1, <3>3, <3>4 DEF r
  <2> QED
    BY <2>2, <2>3
<1> QED
  BY <1>1, <1>2 DEF State, t

-----------------------------------------------------------------------------
(* A core is met or unmet.                                                 *)

\* The requirements of the cores, and the fields of the proxies.
LEMMA CoreIs ==
  /\ Cores \subseteq Requirement
  /\ \A q \in Cores : q[1] # "battery" /\ q \notin SystemManagerRequirement
  /\ \A p : \A q \in Cores : Holds(p, q) <=> q \in p.met
  /\ \A k \in Kind : <<k, 1>> \in Cores
  /\ \A k \in Kind, i \in 0..3 : <<ConfidenceName[k], i>> \in Cores
  /\ <<"telephony", 1>> \in Cores /\ <<"charging", 1>> \in Cores /\ <<"docked", 1>> \in Cores
<1>1. Cores \subseteq Requirement
  BY DEF Cores, Requirement, PowerdRequirement
<1>2. \A q \in Cores : q[1] # "battery" /\ q \notin SystemManagerRequirement
  BY NameIs DEF Cores, ConnectionManagerRequirement, TelephonyRequirement, SystemManagerRequirement
<1>3. \A p : \A q \in Cores : Holds(p, q) <=> q \in p.met
  BY <1>2 DEF Holds
<1> QED
  BY <1>1, <1>2, <1>3 DEF Cores, ConnectionManagerRequirement, TelephonyRequirement

LEMMA SetCoreState ==
  ASSUME NEW s, NEW q \in Cores, State(s, {q}),
         \A a \in Activities : q \in s.act[a].wants => Aware(s.act[a], s.prox, q),
         NEW holds \in BOOLEAN, NEW updated \in BOOLEAN, updated \/ State(s, {}), NEW room
  PROVE  LET t == SetCore(s, q, holds, updated, room)
         IN /\ State(t, {})
            /\ t.prox = [s.prox EXCEPT !.met = IF holds THEN @ \cup {q} ELSE @ \ {q}]
<1> DEFINE t == SetCore(s, q, holds, updated, room)
           p == s.prox
<1>1. /\ OneName({q}) /\ q \in Requirement /\ q \notin SystemManagerRequirement
      /\ \A r : Holds(r, q) <=> q \in r.met
  BY CoreIs DEF OneName
<1>2. p \in ProxyState
  BY DEF State
<1>3. CASE holds /\ q \in p.met /\ updated
  <2>1. t = Updated(s, {q})
    BY <1>3 DEF SetCore
  <2>2. State(t, {q} \ {q}) /\ t.prox = p
    BY <2>1, UpdatedState
  <2>3. p = [p EXCEPT !.met = @ \cup {q}]
    BY <1>2, <1>3 DEF ProxyState
  <2> QED
    BY <1>3, <2>2, <2>3
<1>4. CASE holds /\ q \in p.met /\ ~updated
  <2>1. t = s
    BY <1>4 DEF SetCore
  <2>2. p = [p EXCEPT !.met = @ \cup {q}]
    BY <1>2, <1>4 DEF ProxyState
  <2> QED
    BY <1>4, <2>1, <2>2
<1>5. CASE ~holds /\ q \notin p.met
  <2>1. t = s
    BY <1>5 DEF SetCore
  <2>2. p = [p EXCEPT !.met = @ \ {q}]
    BY <1>2, <1>5 DEF ProxyState
  <2>3. ASSUME NEW a \in Activities
        PROVE  Fine(s.act[a], p, {})
    BY <1>1, <1>5 DEF State, Fine, Knows, Seen, Aware
  <2>4. State(s, {})
    BY <2>3 DEF State
  <2> QED
    BY <1>5, <2>1, <2>2, <2>4
<1>6. CASE holds /\ q \notin p.met
  <2> DEFINE u == [s EXCEPT !.prox.met = @ \cup {q}]
  <2>1. t = Met(u, {q}, room)
    BY <1>6 DEF SetCore
  <2>2. /\ DOMAIN u = {"act", "prox"} /\ u.act = s.act
        /\ u.prox = [p EXCEPT !.met = @ \cup {q}] /\ u.prox \in ProxyState
        /\ u.prox.met = p.met \cup {q}
    BY <1>2 DEF State, ProxyState
  <2>3. \A o \in Requirement \ {q} : Alike(p, u.prox, o)
    BY <1>2, <2>2, Unaffected DEF ProxyState
  <2> HIDE DEF u, p
  <2>4. \A a \in Activities : Fine(u.act[a], u.prox, {q})
    BY <2>2, <2>3, KnowsStill DEF State, p
  <2>5. State(u, {q})
    BY <2>2, <2>4 DEF State
  <2>6. \A a \in Activities : q \notin u.act[a].met
    BY <1>1, <1>6, <2>2 DEF State, Fine, Record, Aware, p
  <2> DEFINE Q == {q}
  <2>7. /\ OneName(Q) /\ State(u, Q)
        /\ \A o \in Q : Holds(u.prox, o)
        /\ \A a \in Activities : \A o \in Q \cap Q \cap u.act[a].met : Seen(u.act[a], u.prox, o)
    BY <1>1, <2>2, <2>5, <2>6
  <2> HIDE DEF Q, t
  <2>8. State(Met(u, Q, room), Q \ Q) /\ Met(u, Q, room).prox = u.prox
    BY <2>7, MetState
  <2>9. State(t, {}) /\ t.prox = u.prox
    BY <2>1, <2>8 DEF Q
  <2> QED
    BY <1>6, <2>2, <2>9 DEF p, t
<1>7. CASE ~holds /\ q \in p.met
  <2> DEFINE u == [s EXCEPT !.prox.met = @ \ {q}]
  <2>1. t = Unmet(u, {q})
    BY <1>7 DEF SetCore
  <2>2. /\ DOMAIN u = {"act", "prox"} /\ u.act = s.act
        /\ u.prox = [p EXCEPT !.met = @ \ {q}] /\ u.prox \in ProxyState
        /\ u.prox.met = p.met \ {q}
    BY <1>2 DEF State, ProxyState
  <2>3. \A o \in Requirement \ {q} : Alike(p, u.prox, o)
    BY <1>2, <2>2, Unaffected DEF ProxyState
  <2> HIDE DEF u, p
  <2>4. \A a \in Activities : Fine(u.act[a], u.prox, {q})
    BY <2>2, <2>3, KnowsStill DEF State, p
  <2>5. State(u, {q})
    BY <2>2, <2>4 DEF State
  <2> DEFINE Q == {q}
  <2>6. /\ OneName(Q) /\ State(u, Q)
        /\ \A o \in Q : o \notin SystemManagerRequirement /\ ~Holds(u.prox, o)
    BY <1>1, <2>2, <2>5
  <2> HIDE DEF Q, t
  <2>7. State(Unmet(u, Q), Q \ Q) /\ Unmet(u, Q).prox = u.prox
    BY <2>6, UnmetState
  <2>8. State(t, {}) /\ t.prox = u.prox
    BY <2>1, <2>7 DEF Q
  <2> QED
    BY <1>7, <2>2, <2>8 DEF p, t
<1> QED
  BY <1>3, <1>4, <1>5, <1>6, <1>7

-----------------------------------------------------------------------------
(* The confidence of a connection.                                         *)

\* What is met of the confidence requirements is what the levels say.
LevelsMatch(p) ==
  \A k \in Kind, i \in 0..3 : <<ConfidenceName[k], i>> \in p.met <=> i <= p.level[k]

\* The proxies hold in r what they hold in p, but for the confidence of k.
OnlyLevel(p, r, k) ==
  /\ r = [p EXCEPT !.level = r.level, !.met = r.met]
  /\ \A j \in Kind \ {k} : r.level[j] = p.level[j]
  /\ \A q \in Requirement : q[1] # ConfidenceName[k] => (q \in r.met <=> q \in p.met)

LEMMA ConfidenceState ==
  ASSUME NEW s, State(s, {}), NEW k \in Kind, NEW level \in Level, LevelsMatch(s.prox), NEW room
  PROVE  LET t == UpdateConfidence(s, k, level, room)
         IN /\ State(t, {}) /\ LevelsMatch(t.prox)
            /\ t.prox.level[k] = level /\ OnlyLevel(s.prox, t.prox, k)
<1> DEFINE C(S)   == {<<ConfidenceName[k], i>> : i \in S}
           higher == C({i \in 0..3 : i > level})
           lower  == C({i \in 0..3 : i <= level})
           same   == (lower \cap s.prox.met) \cup (higher \ s.prox.met)
           p == s.prox
           v == [s EXCEPT !.prox.level[k] = level, !.prox.met = (@ \ higher) \cup lower]
           u == Updated(Unmet(v, higher), same)
           t == UpdateConfidence(s, k, level, room)
<1>1. p \in ProxyState
  BY DEF State
<1>2. CASE p.level[k] = level
  <2>1. t = s
    BY <1>2 DEF UpdateConfidence
  <2>2. p = [p EXCEPT !.level = p.level, !.met = p.met]
    BY <1>1 DEF ProxyState
  <2> HIDE DEF t, p
  <2>3. OnlyLevel(p, p, k)
    BY <2>2 DEF OnlyLevel
  <2> QED
    BY <1>2, <2>1, <2>3 DEF t, p
<1>3. CASE p.level[k] # level
  <2>1. t = Met(u, lower, room)
    BY <1>3 DEF UpdateConfidence, Then
  <2>2. /\ \A q \in higher : q \in Cores /\ q[1] = ConfidenceName[k]
        /\ \A q \in lower : q \in Cores /\ q[1] = ConfidenceName[k]
        /\ higher \cap lower = {}
        /\ \A q \in Requirement : q[1] = ConfidenceName[k] => q \in higher \cup lower
        /\ \A i \in 0..3 : <<ConfidenceName[k], i>> \in lower <=> i <= level
        /\ \A i \in 0..3 : <<ConfidenceName[k], i>> \in higher <=> i > level
    <3>1. ASSUME NEW q \in Requirement, q[1] = ConfidenceName[k]
          PROVE  q = <<ConfidenceName[k], q[2]>> /\ q[2] \in 0..3
      BY <3>1, RequirementIs, NameIs
    <3>2. level \in Int
      BY DEF Level
    <3>3. \A i \in 0..3 : i > level \/ i <= level
      BY <3>2
    <3>4. \A i, j : <<ConfidenceName[k], i>> = <<ConfidenceName[k], j>> => i = j
      OBVIOUS
    <3>5. \A i \in 0..3 : ~(i > level /\ i <= level)
      BY <3>2
    <3>6. /\ \A q \in higher : \E i \in 0..3 : q = <<ConfidenceName[k], i>> /\ i > level
          /\ \A q \in lower : \E i \in 0..3 : q = <<ConfidenceName[k], i>> /\ i <= level
      OBVIOUS
    <3>7. /\ \A i \in 0..3 : i <= level => <<ConfidenceName[k], i>> \in lower
          /\ \A i \in 0..3 : i > level => <<ConfidenceName[k], i>> \in higher
      OBVIOUS
    <3> HIDE DEF higher, lower
    <3>8. higher \cap lower = {}
      BY <3>4, <3>5, <3>6
    <3>9. \A q \in Requirement : q[1] = ConfidenceName[k] => q \in higher \cup lower
      BY <3>1, <3>3, <3>7
    <3>10. /\ \A i \in 0..3 : <<ConfidenceName[k], i>> \in lower => i <= level
           /\ \A i \in 0..3 : <<ConfidenceName[k], i>> \in higher => i > level
      BY <3>4, <3>6
    <3>11. /\ \A q \in higher : q \in Cores /\ q[1] = ConfidenceName[k]
           /\ \A q \in lower : q \in Cores /\ q[1] = ConfidenceName[k]
      <4>1. \A i \in 0..3 : LET q == <<ConfidenceName[k], i>> IN q \in Cores /\ q[1] = ConfidenceName[k]
        BY CoreIs
      <4> QED
        BY <3>6, <4>1
    <3> QED
      BY <3>7, <3>8, <3>9, <3>10, <3>11
  <2>3. /\ DOMAIN v = {"act", "prox"} /\ v.act = s.act
        /\ v.prox = [p EXCEPT !.level = [p.level EXCEPT ![k] = level],
                              !.met = (p.met \ higher) \cup lower]
    BY <1>1 DEF State, ProxyState
  <2> HIDE DEF higher, lower, v, p
  <2>4. /\ v.prox \in ProxyState
        /\ v.prox.met = (p.met \ higher) \cup lower
        /\ v.prox.level = [p.level EXCEPT ![k] = level]
        /\ v.prox = [p EXCEPT !.level = v.prox.level, !.met = v.prox.met]
    <3> DEFINE met == (p.met \ higher) \cup lower
               levels == [p.level EXCEPT ![k] = level]
    <3>1. met \in SUBSET Cores /\ levels \in [Kind -> Level]
      BY <1>1, <2>2 DEF ProxyState
    <3> HIDE DEF met, levels
    <3>2. /\ [p EXCEPT !.level = levels, !.met = met] \in ProxyState
          /\ [p EXCEPT !.level = levels, !.met = met].met = met
          /\ [p EXCEPT !.level = levels, !.met = met].level = levels
      BY <1>1, <3>1 DEF ProxyState
    <3>3. v.prox = [p EXCEPT !.level = levels, !.met = met]
      BY <2>3 DEF met, levels
    <3>4. v.prox \in ProxyState /\ v.prox.met = met /\ v.prox.level = levels
      BY <3>2, <3>3
    <3> QED
      BY <3>3, <3>4 DEF met, levels
  <2>5. ASSUME NEW j \in Kind \ {k}
        PROVE  v.prox.level[j] = p.level[j] /\ ConfidenceName[j] # ConfidenceName[k]
    BY <1>1, <2>4, NameIs DEF ProxyState
  <2>6. v.prox.level[k] = level
    BY <1>1, <2>4 DEF ProxyState
  <2>7. OnlyLevel(p, v.prox, k)
    BY <2>2, <2>4, <2>5 DEF OnlyLevel
  <2>8. LevelsMatch(v.prox)
    <3>1. ASSUME NEW j \in Kind, NEW i \in 0..3
          PROVE  <<ConfidenceName[j], i>> \in v.prox.met <=> i <= v.prox.level[j]
      <4>1. CASE j = k
        <5>1. level \in Int
          BY DEF Level
        <5> QED
          BY <2>2, <2>4, <2>6, <4>1, <5>1
      <4>2. CASE j # k
        BY <2>2, <2>4, <2>5, <4>2, ZenonT(40) DEF LevelsMatch, p
      <4> QED
        BY <4>1, <4>2
    <3> QED
      BY <3>1 DEF LevelsMatch
  <2>9. State(v, higher \cup lower)
    <3>1. \A q \in Requirement \ (higher \cup lower) : Alike(p, v.prox, q)
      <4> SUFFICES ASSUME NEW q \in Requirement \ (higher \cup lower)
                   PROVE  Alike(p, v.prox, q)
        OBVIOUS
      <4>1. q[1] # ConfidenceName[k] /\ (q \in v.prox.met <=> q \in p.met)
        BY <2>2, <2>4
      <4>2. /\ v.prox.percent = p.percent /\ v.prox.status = p.status
            /\ v.prox.wifi = p.wifi /\ v.prox.wan = p.wan
        BY <1>1, <2>3 DEF ProxyState
      <4> QED
        BY <2>5, <4>1, <4>2, Unaffected
    <3>2. \A a \in Activities : Fine(v.act[a], v.prox, higher \cup lower)
      BY <2>3, <3>1, KnowsStill DEF State, p
    <3> QED
      BY <2>3, <2>4, <3>2 DEF State
  <2>10. OneName(higher) /\ OneName(lower)
    BY <2>2, CoreIs DEF OneName
  <2> DEFINE w == Unmet(v, higher)
  <2>11. /\ State(w, (higher \cup lower) \ higher) /\ w.prox = v.prox
         /\ \A a \in Activities : /\ w.act[a].wants = s.act[a].wants
                                  /\ w.act[a].met = s.act[a].met \ higher
    <3>1. \A q \in higher : q \notin SystemManagerRequirement /\ ~Holds(v.prox, q)
      BY <2>2, <2>4, CoreIs
    <3> DEFINE Y == higher \cup lower
    <3>2. State(v, Y)
      BY <2>9
    <3> HIDE DEF Y
    <3>3. /\ State(w, Y \ higher) /\ w.prox = v.prox
          /\ \A a \in Activities : /\ w.act[a].wants = v.act[a].wants
                                   /\ w.act[a].met = v.act[a].met \ higher
      BY <2>10, <3>1, <3>2, UnmetState
    <3> QED
      BY <2>3, <3>3 DEF Y
  <2>12. \A a \in Activities : \A q \in lower \cap s.act[a].wants :
           q \in s.act[a].met <=> q \in p.met
    BY <2>2, CoreIs DEF State, Fine, Knows, Aware, p
  <2> HIDE DEF w
  <2> DEFINE X == (higher \cup lower) \ higher
  <2>13. State(w, X) /\ \A q \in X : q \in lower /\ q \notin higher
    BY <2>11
  <2> HIDE DEF X
  <2>14. /\ State(u, X \ same) /\ u.prox = v.prox
         /\ \A a \in Activities : /\ u.act[a].wants = s.act[a].wants
                                  /\ u.act[a].met = s.act[a].met \ higher
    <3>1. ASSUME NEW a \in Activities, NEW q \in same \cap X \cap w.act[a].wants
          PROVE  Aware(w.act[a], w.prox, q)
      <4>1. q \in lower /\ q \notin higher /\ q \in p.met /\ q \in s.act[a].wants
        BY <2>11, <2>13 DEF p
      <4>2. Holds(w.prox, q)
        BY <2>2, <2>4, <2>11, <4>1, CoreIs
      <4>3. q \in w.act[a].met
        BY <2>11, <2>12, <4>1
      <4> QED
        BY <4>2, <4>3 DEF Aware
    <3>2. u = Updated(w, same)
      BY DEF w
    <3> HIDE DEF u, same
    <3> QED
      BY <2>11, <2>13, <3>1, <3>2, UpdatedState
  <2>15. State(t, (X \ same) \ lower) /\ t.prox = v.prox
    <3>1. \A q \in lower : Holds(u.prox, q)
      BY <2>2, <2>4, <2>14, CoreIs
    <3>2. ASSUME NEW a \in Activities, NEW q \in lower \cap (X \ same) \cap u.act[a].met
          PROVE  FALSE
      <4>1. q \notin p.met
        BY DEF p
      <4>2. q \in s.act[a].met /\ q \in s.act[a].wants
        BY <2>14 DEF State, Fine, Record
      <4> QED
        BY <2>12, <4>1, <4>2
    <3> HIDE DEF u, same
    <3> QED
      BY <2>1, <2>10, <2>14, <3>1, <3>2, MetState
  <2>16. (X \ same) \ lower = {}
    BY <2>13
  <2> HIDE DEF t, u, same
  <2>17. State(t, {})
    BY <2>15, <2>16
  <2> QED
    BY <2>6, <2>7, <2>8, <2>15, <2>17 DEF t, p
<1> QED
  BY <1>2, <1>3

-----------------------------------------------------------------------------
(* The connection manager's status.                                        *)

\* The proxies hold in r what they hold in p, but for the descriptions of the
\* connections and for the requirements with the names given.
Elsewhere(p, r, names) ==
  /\ \A q \in Requirement : q[1] \notin names => (q \in r.met <=> q \in p.met)
  /\ \A k \in Kind : ConfidenceName[k] \notin names => r.level[k] = p.level[k]
  /\ r.usbChargerConnected = p.usbChargerConnected
  /\ r.inductiveChargerConnected = p.inductiveChargerConnected
  /\ r.onPuck = p.onPuck
  /\ r.percent = p.percent /\ r.subscribed = p.subscribed /\ r.bootIssued = p.bootIssued

LEMMA ConfidenceType ==
  ASSUME NEW n \in Network, NEW k \in Kind
  PROVE  Confidence(k, n) \in Level
<1>1. n.networkConfidenceLevel \in {"none", "poor", "fair", "excellent", "unknown"}
  BY DEF Network
<1>2. LevelOf[n.networkConfidenceLevel] \in Level
  BY <1>1 DEF LevelOf, Level
<1>3. -1 \in Level
  BY DEF Level
<1> QED
  BY <1>2, <1>3 DEF Confidence

LEMMA OnlyLevelElsewhere ==
  ASSUME NEW p \in ProxyState, NEW r \in ProxyState, NEW k \in Kind, OnlyLevel(p, r, k)
  PROVE  Elsewhere(p, r, {ConfidenceName[k]}) /\ r.status = p.status /\ r.wifi = p.wifi /\ r.wan = p.wan
<1>1. r = [p EXCEPT !.level = r.level, !.met = r.met]
  BY DEF OnlyLevel
<1>2. /\ r.usbChargerConnected = p.usbChargerConnected
      /\ r.inductiveChargerConnected = p.inductiveChargerConnected
      /\ r.onPuck = p.onPuck
      /\ r.percent = p.percent /\ r.subscribed = p.subscribed /\ r.bootIssued = p.bootIssued
      /\ r.status = p.status /\ r.wifi = p.wifi /\ r.wan = p.wan
  BY <1>1 DEF ProxyState
<1> QED
  BY <1>2 DEF OnlyLevel, Elsewhere

\* The proxies hold in r what they hold in p, but for the description of k.
Described(p, r, k) ==
  /\ r \in ProxyState
  /\ [r EXCEPT !.status = p.status, !.wifi = p.wifi, !.wan = p.wan] = p
  /\ k # "internet" => r.status = p.status
  /\ k # "wifi" => r.wifi = p.wifi
  /\ k # "wan" => r.wan = p.wan

\* The description of a connection is set, and its core is met or unmet.
LEMMA DescribedState ==
  ASSUME NEW s, State(s, {}), LevelsMatch(s.prox), NEW k \in Kind,
         NEW u, DOMAIN u = {"act", "prox"}, u.act = s.act, Described(s.prox, u.prox, k),
         NEW holds \in BOOLEAN, NEW updated \in BOOLEAN, updated \/ u.prox = s.prox, NEW room
  PROVE  LET t == SetCore(u, <<k, 1>>, holds, updated, room)
         IN /\ State(t, {}) /\ LevelsMatch(t.prox)
            /\ <<k, 1>> \in t.prox.met <=> holds
            /\ Elsewhere(s.prox, t.prox, {k})
            /\ t.prox.status = u.prox.status /\ t.prox.wifi = u.prox.wifi /\ t.prox.wan = u.prox.wan
<1> DEFINE t == SetCore(u, <<k, 1>>, holds, updated, room)
           p == s.prox
           r == u.prox
           q == <<k, 1>>
<1>1. p \in ProxyState /\ r \in ProxyState
  BY DEF State, Described
<1>2. /\ r.met = p.met /\ r.level = p.level
      /\ r.usbChargerConnected = p.usbChargerConnected
      /\ r.inductiveChargerConnected = p.inductiveChargerConnected
      /\ r.onPuck = p.onPuck
      /\ r.percent = p.percent /\ r.subscribed = p.subscribed /\ r.bootIssued = p.bootIssued
  <2>1. p = [r EXCEPT !.status = p.status, !.wifi = p.wifi, !.wan = p.wan]
    BY DEF Described
  <2> HIDE DEF p, r
  <2> QED
    BY <1>1, <2>1 DEF ProxyState
<1>3. q \in Cores /\ q[1] = k
  BY CoreIs
<1> HIDE DEF p, r, q
<1>4. \A o \in Requirement \ {q} : o[1] # k
  <2>1. \A o \in Requirement : o[1] = k => o = <<k, 1>>
    BY RequirementIs, NameIs
  <2> QED
    BY <2>1 DEF q
<1>5. \A o \in Requirement \ {q} : Alike(p, r, o)
  <2>1. ASSUME NEW o \in Requirement \ {q}
        PROVE  Alike(p, r, o)
    <3>1. o[1] # k
      BY <1>4
    <3>2. /\ o[1] = "internet" => r.status = p.status
          /\ o[1] = "wifi" => r.wifi = p.wifi
          /\ o[1] = "wan" => r.wan = p.wan
      BY <3>1 DEF r, p, Described
    <3> QED
      BY <1>2, <3>2, Unaffected
  <2> QED
    BY <2>1
<1>6. State(u, {q})
  <2>1. \A a \in Activities : Fine(u.act[a], r, {q})
    BY <1>5, KnowsStill DEF State, p
  <2> QED
    BY <1>1, <2>1 DEF State, r
<1>7. updated \/ State(u, {})
  BY DEF State
<1>8. \A a \in Activities : q \in u.act[a].wants => Aware(u.act[a], r, q)
  BY <1>2, <1>3, CoreIs DEF State, Fine, Knows, Aware, p
<1>9. /\ State(t, {})
      /\ t.prox = [r EXCEPT !.met = IF holds THEN @ \cup {q} ELSE @ \ {q}]
  BY <1>3, <1>6, <1>7, <1>8, SetCoreState DEF q, r
<1> HIDE DEF t
<1>10. t.prox.met = (IF holds THEN p.met \cup {q} ELSE p.met \ {q}) /\ t.prox.level = p.level
  BY <1>1, <1>2, <1>9 DEF ProxyState
<1>11. /\ t.prox.usbChargerConnected = p.usbChargerConnected
       /\ t.prox.inductiveChargerConnected = p.inductiveChargerConnected
       /\ t.prox.onPuck = p.onPuck
       /\ t.prox.percent = p.percent /\ t.prox.subscribed = p.subscribed
       /\ t.prox.bootIssued = p.bootIssued
       /\ t.prox.status = r.status /\ t.prox.wifi = r.wifi /\ t.prox.wan = r.wan
  BY <1>1, <1>2, <1>9 DEF ProxyState
<1>12. Elsewhere(p, t.prox, {k})
  BY <1>3, <1>10, <1>11 DEF Elsewhere
<1>13. LevelsMatch(t.prox)
  <2>1. \A j \in Kind, i \in 0..3 : <<ConfidenceName[j], i>> # <<k, 1>>
    BY NameIs
  <2>2. \A j \in Kind, i \in 0..3 :
          <<ConfidenceName[j], i>> \in t.prox.met <=> <<ConfidenceName[j], i>> \in p.met
    BY <1>10, <2>1 DEF q
  <2> QED
    BY <1>10, <2>2 DEF LevelsMatch, p
<1>14. <<k, 1>> \in t.prox.met <=> holds
  BY <1>10 DEF q
<1> QED
  BY <1>9, <1>11, <1>12, <1>13, <1>14 DEF t, p, r

LEMMA NetworkState ==
  ASSUME NEW s, State(s, {}), LevelsMatch(s.prox), NEW k \in {"wifi", "wan"},
         NEW n \in Network, NEW room
  PROVE  LET t == UpdateNetwork(s, k, n, room)
         IN /\ State(t, {}) /\ LevelsMatch(t.prox)
            /\ <<k, 1>> \in t.prox.met <=> Available(k, n)
            /\ t.prox.level[k] = Confidence(k, n)
            /\ Elsewhere(s.prox, t.prox, {k, ConfidenceName[k]})
<1> DEFINE p == s.prox
           now == IF n.state = "absent" THEN p[k] ELSE n
           u == [s EXCEPT !.prox[k] = now]
           v == SetCore(u, <<k, 1>>, Available(k, n), now # p[k], room)
           t == UpdateNetwork(s, k, n, room)
<1>1. p \in ProxyState /\ k \in Kind
  BY DEF State, Kind
<1>2. t = UpdateConfidence(v, k, Confidence(k, n), room)
  BY DEF UpdateNetwork, Then
<1>3. now \in Network
  BY <1>1 DEF ProxyState
<1>4. /\ DOMAIN u = {"act", "prox"} /\ u.act = s.act /\ u.prox = [p EXCEPT ![k] = now]
  BY DEF State
<1>5. now = p[k] => u.prox = p
  BY <1>1, <1>4 DEF ProxyState
<1> HIDE DEF now, u, p
<1>6. Described(p, u.prox, k)
  <2>1. CASE k = "wifi"
    <3>1. u.prox = [p EXCEPT !.wifi = now]
      BY <1>4, <2>1
    <3> QED
      BY <1>1, <1>3, <2>1, <3>1 DEF ProxyState, Described
  <2>2. CASE k = "wan"
    <3>1. u.prox = [p EXCEPT !.wan = now]
      BY <1>4, <2>2
    <3> QED
      BY <1>1, <1>3, <2>2, <3>1 DEF ProxyState, Described
  <2> QED
    BY <2>1, <2>2
<1>7. PICK holds \in BOOLEAN : holds = Available(k, n)
  <2>1. Available(k, n) \in BOOLEAN
    BY DEF Available, Online
  <2> QED
    BY <2>1, Zenon
<1>8. PICK updated \in BOOLEAN : updated = (now # p[k])
  <2>1. (now # p[k]) \in BOOLEAN
    OBVIOUS
  <2> QED
    BY <2>1, Zenon
<1>9. v = SetCore(u, <<k, 1>>, holds, updated, room)
  BY <1>7, <1>8
<1>10. updated \/ u.prox = p
  BY <1>5, <1>8
<1> HIDE DEF v, t
<1>11. /\ State(v, {}) /\ LevelsMatch(v.prox)
       /\ <<k, 1>> \in v.prox.met <=> holds
       /\ Elsewhere(p, v.prox, {k})
  BY <1>1, <1>4, <1>6, <1>9, <1>10, DescribedState DEF p
<1>12. /\ State(t, {}) /\ LevelsMatch(t.prox)
       /\ t.prox.level[k] = Confidence(k, n) /\ OnlyLevel(v.prox, t.prox, k)
  BY <1>1, <1>2, <1>11, ConfidenceType, ConfidenceState
<1>13. Elsewhere(v.prox, t.prox, {ConfidenceName[k]})
  BY <1>1, <1>11, <1>12, OnlyLevelElsewhere DEF State
<1>14. Elsewhere(p, t.prox, {k, ConfidenceName[k]})
  BY <1>11, <1>13 DEF Elsewhere
<1>15. <<k, 1>> \in t.prox.met <=> holds
  <2>1. <<k, 1>> \in Requirement /\ <<k, 1>>[1] \notin {ConfidenceName[k]}
    BY <1>1, CoreIs, NameIs
  <2> QED
    BY <1>11, <1>13, <2>1 DEF Elsewhere
<1> QED
  BY <1>7, <1>12, <1>14, <1>15 DEF t, p

LEMMA InternetState ==
  ASSUME NEW s, State(s, {}), LevelsMatch(s.prox), NEW status \in Status, NEW room
  PROVE  LET t == UpdateInternet(s, status, room)
         IN /\ State(t, {}) /\ LevelsMatch(t.prox)
            /\ <<"internet", 1>> \in t.prox.met <=> status.isInternetConnectionAvailable
            /\ Elsewhere(s.prox, t.prox, {"internet"})
<1> DEFINE p == s.prox
           u == [s EXCEPT !.prox.status = status]
           holds == status.isInternetConnectionAvailable
           t == UpdateInternet(s, status, room)
<1>1. p \in ProxyState /\ holds \in BOOLEAN
  BY DEF State, Status
<1>2. DOMAIN u = {"act", "prox"} /\ u.act = s.act /\ u.prox = [p EXCEPT !.status = status]
  BY DEF State
<1>3. PICK updated \in BOOLEAN : updated = (status # p.status)
  <2>1. (status # p.status) \in BOOLEAN
    OBVIOUS
  <2> QED
    BY <2>1, Zenon
<1>4. t = SetCore(u, <<"internet", 1>>, holds, updated, room)
  BY <1>3 DEF UpdateInternet
<1> HIDE DEF u, p, t, holds
<1>5. Described(p, u.prox, "internet") /\ (updated \/ u.prox = p)
  BY <1>1, <1>2, <1>3, ZenonT(40) DEF ProxyState, Described
<1>6. "internet" \in Kind
  BY DEF Kind
<1>7. /\ State(t, {}) /\ LevelsMatch(t.prox)
      /\ <<"internet", 1>> \in t.prox.met <=> holds
      /\ Elsewhere(p, t.prox, {"internet"})
  BY <1>1, <1>2, <1>4, <1>5, <1>6, DescribedState DEF p
<1> QED
  BY <1>7 DEF p, t, holds

\* What the connection manager's proxy makes of a status.
Reports(p, status) ==
  LET level(k) == Confidence(k, status[k])
      best     == Max({level("wifi"), level("wan")})
  IN /\ (<<"internet", 1>> \in p.met) <=> status.isInternetConnectionAvailable
     /\ \A k \in {"wifi", "wan"} : (<<k, 1>> \in p.met) <=> Available(k, status[k])
     /\ \A k \in Kind, i \in 0..3 :
          (<<ConfidenceName[k], i>> \in p.met) <=> IF k = "internet" THEN best >= i ELSE level(k) >= i

LEMMA LargerLevel ==
  ASSUME NEW i \in Level, NEW j \in Level
  PROVE  Max({i, j}) \in Level
<1>1. i \in Int /\ j \in Int
  BY DEF Level
<1>2. \E x \in {i, j} : \A y \in {i, j} : x >= y
  BY <1>1
<1>3. Max({i, j}) \in {i, j}
  BY <1>2 DEF Max
<1> QED
  BY <1>3

LEMMA ConnectionState ==
  ASSUME NEW s, State(s, {}), LevelsMatch(s.prox), NEW status \in Status, NEW room
  PROVE  LET t == ConnectionManagerUpdate(s, status, room)
         IN /\ State(t, {}) /\ LevelsMatch(t.prox) /\ Reports(t.prox, status)
            /\ Elsewhere(s.prox, t.prox, Kind \cup {ConfidenceName[k] : k \in Kind})
<1> DEFINE t == UpdateInternet(s, status, room)
           u == UpdateNetwork(t, "wifi", status.wifi, room)
           v == UpdateNetwork(u, "wan", status.wan, room)
           w == UpdateInternetConfidence(v, room)
           names == Kind \cup {ConfidenceName[k] : k \in Kind}
<1>1. ConnectionManagerUpdate(s, status, room) = w
  BY DEF ConnectionManagerUpdate, Then
<1>2. status.wifi \in Network /\ status.wan \in Network
  BY DEF Status
<1> HIDE DEF t, u, v, w
<1>3. /\ State(t, {}) /\ LevelsMatch(t.prox)
      /\ <<"internet", 1>> \in t.prox.met <=> status.isInternetConnectionAvailable
      /\ Elsewhere(s.prox, t.prox, {"internet"})
  BY InternetState DEF t
<1>4. /\ State(u, {}) /\ LevelsMatch(u.prox)
      /\ <<"wifi", 1>> \in u.prox.met <=> Available("wifi", status.wifi)
      /\ u.prox.level["wifi"] = Confidence("wifi", status.wifi)
      /\ Elsewhere(t.prox, u.prox, {"wifi", ConfidenceName["wifi"]})
  BY <1>2, <1>3, NetworkState DEF u
<1>5. /\ State(v, {}) /\ LevelsMatch(v.prox)
      /\ <<"wan", 1>> \in v.prox.met <=> Available("wan", status.wan)
      /\ v.prox.level["wan"] = Confidence("wan", status.wan)
      /\ Elsewhere(u.prox, v.prox, {"wan", ConfidenceName["wan"]})
  BY <1>2, <1>4, NetworkState DEF v
<1> DEFINE best == Max({v.prox.level["wifi"], v.prox.level["wan"]})
<1>6. best \in Level
  BY <1>5, LargerLevel DEF State, ProxyState, Kind
<1>7. w = UpdateConfidence(v, "internet", best, room)
  BY DEF w, UpdateInternetConfidence
<1> HIDE DEF best
<1>8. /\ State(w, {}) /\ LevelsMatch(w.prox)
      /\ w.prox.level["internet"] = best /\ OnlyLevel(v.prox, w.prox, "internet")
  BY <1>5, <1>6, <1>7, ConfidenceState, NameIs
<1>9. Elsewhere(v.prox, w.prox, {ConfidenceName["internet"]})
  BY <1>5, <1>8, OnlyLevelElsewhere, NameIs DEF State
<1>10. Elsewhere(s.prox, w.prox, names)
  <2>1. /\ {"internet"} \subseteq names /\ {"wifi", ConfidenceName["wifi"]} \subseteq names
        /\ {"wan", ConfidenceName["wan"]} \subseteq names /\ {ConfidenceName["internet"]} \subseteq names
    BY NameIs
  <2> HIDE DEF names
  <2>2. Elsewhere(s.prox, u.prox, names)
    BY <1>3, <1>4, <2>1 DEF Elsewhere
  <2>3. Elsewhere(u.prox, w.prox, names)
    BY <1>5, <1>9, <2>1 DEF Elsewhere
  <2> QED
    BY <2>2, <2>3 DEF Elsewhere
<1>11. /\ <<"internet", 1>> \in w.prox.met <=> status.isInternetConnectionAvailable
       /\ <<"wifi", 1>> \in w.prox.met <=> Available("wifi", status.wifi)
       /\ <<"wan", 1>> \in w.prox.met <=> Available("wan", status.wan)
  <2>1. \A k \in Kind : <<k, 1>> \in Requirement /\ <<k, 1>>[1] = k
    BY CoreIs
  <2> QED
    BY <1>3, <1>4, <1>5, <1>9, <2>1, NameIs DEF Elsewhere
<1>12. /\ w.prox.level["wifi"] = Confidence("wifi", status.wifi)
       /\ w.prox.level["wan"] = Confidence("wan", status.wan)
       /\ v.prox.level["wifi"] = Confidence("wifi", status.wifi)
  BY <1>4, <1>5, <1>9, NameIs DEF Elsewhere
<1>13. best = Max({Confidence("wifi", status.wifi), Confidence("wan", status.wan)})
  BY <1>5, <1>12 DEF best
<1>14. ASSUME NEW k \in Kind, NEW i \in 0..3
       PROVE  <<ConfidenceName[k], i>> \in w.prox.met
                <=> IF k = "internet" THEN best >= i ELSE Confidence(k, status[k]) >= i
  <2>1. w.prox.level[k] = IF k = "internet" THEN best ELSE Confidence(k, status[k])
    BY <1>8, <1>12, NameIs
  <2>2. w.prox.level[k] \in Int
    BY <1>8 DEF State, ProxyState, Level
  <2>3. i <= w.prox.level[k] <=> w.prox.level[k] >= i
    BY <2>2
  <2> QED
    BY <1>8, <2>1, <2>3 DEF LevelsMatch
<1>15. Reports(w.prox, status)
  <2>1. \A k \in {"wifi", "wan"} : <<k, 1>> \in w.prox.met <=> Available(k, status[k])
    BY <1>11
  <2> QED
    BY <1>11, <1>13, <1>14, <2>1 DEF Reports
<1> QED
  BY <1>1, <1>8, <1>10, <1>15

-----------------------------------------------------------------------------
(* Telephony, the end of the boot, the chargers and the battery.           *)

\* A change of the proxies that no requirement shows.
LEMMA HiddenState ==
  ASSUME NEW s, State(s, {}), NEW u, DOMAIN u = {"act", "prox"}, u.act = s.act,
         u.prox \in ProxyState, u.prox.met = s.prox.met, u.prox.level = s.prox.level,
         u.prox.status = s.prox.status, u.prox.wifi = s.prox.wifi, u.prox.wan = s.prox.wan,
         u.prox.percent = s.prox.percent
  PROVE  State(u, {})
<1>1. \A q \in Requirement \ {} : Alike(s.prox, u.prox, q)
  BY Unaffected
<1>2. \A a \in Activities : Fine(u.act[a], u.prox, {})
  BY <1>1, KnowsStill DEF State
<1> QED
  BY <1>2 DEF State

\* A core that is not told of a new current value.
Switched(s, q, holds, room) == SetCore(s, q, holds, FALSE, room)

LEMMA SwitchedState ==
  ASSUME NEW s, NEW q \in Cores, State(s, {}), NEW holds \in BOOLEAN, NEW room
  PROVE  LET t == Switched(s, q, holds, room)
         IN /\ State(t, {})
            /\ t.prox = [s.prox EXCEPT !.met = IF holds THEN @ \cup {q} ELSE @ \ {q}]
<1>1. State(s, {q}) /\ \A a \in Activities : q \in s.act[a].wants => Aware(s.act[a], s.prox, q)
  BY DEF State, Fine, Knows
<1>2. PICK updated \in BOOLEAN : updated = FALSE
  OBVIOUS
<1>3. Switched(s, q, holds, room) = SetCore(s, q, holds, updated, room)
  BY <1>2 DEF Switched
<1> DEFINE t == SetCore(s, q, holds, updated, room)
<1>4. updated \/ State(s, {})
  OBVIOUS
<1>5. /\ State(t, {})
      /\ t.prox = [s.prox EXCEPT !.met = IF holds THEN @ \cup {q} ELSE @ \ {q}]
  BY <1>1, <1>4, SetCoreState
<1> HIDE DEF t
<1> QED
  BY <1>3, <1>5 DEF t

LEMMA TelephonyState ==
  ASSUME NEW s, State(s, {}), LevelsMatch(s.prox), NEW service \in BOOLEAN, NEW room
  PROVE  LET t == UpdateTelephonyState(s, service, room)
         IN /\ State(t, {}) /\ LevelsMatch(t.prox)
            /\ <<"telephony", 1>> \in t.prox.met <=> service
            /\ Elsewhere(s.prox, t.prox, {"telephony"})
<1> DEFINE p == s.prox
           u == [s EXCEPT !.prox.haveTelephonyService = service]
           q == <<"telephony", 1>>
           t == UpdateTelephonyState(s, service, room)
<1>1. p \in ProxyState
  BY DEF State
<1>2. /\ DOMAIN u = {"act", "prox"} /\ u.act = s.act
      /\ u.prox = [p EXCEPT !.haveTelephonyService = service]
  BY DEF State
<1>3. t = Switched(u, q, service, room)
  BY DEF UpdateTelephonyState, Switched
<1> HIDE DEF u, p, t
<1>4. /\ u.prox \in ProxyState /\ u.prox.met = p.met /\ u.prox.level = p.level
      /\ u.prox.status = p.status /\ u.prox.wifi = p.wifi /\ u.prox.wan = p.wan
      /\ u.prox.percent = p.percent
      /\ Elsewhere(p, u.prox, {})
  BY <1>1, <1>2 DEF ProxyState, Elsewhere
<1>5. State(u, {})
  BY <1>2, <1>4, HiddenState DEF p
<1>6. q \in Cores
  BY CoreIs
<1>7. /\ State(t, {})
      /\ t.prox = [u.prox EXCEPT !.met = IF service THEN @ \cup {q} ELSE @ \ {q}]
  BY <1>3, <1>5, <1>6, SwitchedState
<1>8. /\ t.prox.met = (IF service THEN p.met \cup {q} ELSE p.met \ {q}) /\ t.prox.level = p.level
      /\ Elsewhere(p, t.prox, {"telephony"})
  BY <1>4, <1>7 DEF ProxyState, Elsewhere
<1>9. LevelsMatch(t.prox)
  <2>1. \A k \in Kind, i \in 0..3 : <<ConfidenceName[k], i>> # q
    BY NameIs
  <2> QED
    BY <1>8, <2>1 DEF LevelsMatch, p
<1> QED
  BY <1>7, <1>8, <1>9 DEF p, t

LEMMA BootState ==
  ASSUME NEW s, State(s, {}), NEW finished \in BOOLEAN, NEW room
  PROVE  LET t == BootStatusUpdate(s, finished, room)
         IN State(t, {}) /\ t.prox = [s.prox EXCEPT !.bootIssued = finished]
<1> DEFINE p == s.prox
           u == [s EXCEPT !.prox.bootIssued = finished]
           Q == {<<"bootup", 1>>}
           t == BootStatusUpdate(s, finished, room)
<1>1. p \in ProxyState
  BY DEF State
<1>2. /\ DOMAIN u = {"act", "prox"} /\ u.act = s.act
      /\ u.prox = [p EXCEPT !.bootIssued = finished]
  BY DEF State
<1>3. t = u \/ t = Met(u, Q, room)
  BY DEF BootStatusUpdate
<1>4. OneName(Q) /\ \A q \in Q : q \in SystemManagerRequirement
  BY DEF OneName, Requirement, SystemManagerRequirement
<1> HIDE DEF u, p, t, Q
<1>5. /\ u.prox \in ProxyState /\ u.prox.met = p.met /\ u.prox.level = p.level
      /\ u.prox.status = p.status /\ u.prox.wifi = p.wifi /\ u.prox.wan = p.wan
      /\ u.prox.percent = p.percent
  BY <1>1, <1>2 DEF ProxyState
<1>6. State(u, {})
  BY <1>2, <1>5, HiddenState DEF p
<1>7. State(Met(u, Q, room), {} \ Q) /\ Met(u, Q, room).prox = u.prox
  <2>1. \A q \in Q : q \in SystemManagerRequirement \/ Holds(u.prox, q)
    BY <1>4
  <2>2. \A a \in Activities : \A q \in Q \cap {} \cap u.act[a].met : Seen(u.act[a], u.prox, q)
    OBVIOUS
  <2> QED
    BY <1>4, <1>6, <2>1, <2>2, MetState
<1>8. {} \ Q = {}
  OBVIOUS
<1> QED
  BY <1>2, <1>3, <1>6, <1>7, <1>8 DEF t, p

\* What the cores of the chargers are met for.
ChargersMatch(p) ==
  /\ <<"charging", 1>> \in p.met <=> p.usbChargerConnected \/ p.inductiveChargerConnected
  /\ <<"docked", 1>> \in p.met <=> p.inductiveChargerConnected
  /\ p.onPuck <=> p.inductiveChargerConnected

LEMMA ChargerState ==
  ASSUME NEW s, State(s, {}), LevelsMatch(s.prox), ChargersMatch(s.prox),
         NEW type \in {"usb", "inductive"}, NEW connected \in BOOLEAN, NEW room
  PROVE  LET t == ChargerStatus(s, type, connected, room)
         IN /\ State(t, {}) /\ LevelsMatch(t.prox) /\ ChargersMatch(t.prox)
            /\ t.prox.usbChargerConnected =
                 IF type = "usb" THEN connected ELSE s.prox.usbChargerConnected
            /\ t.prox.inductiveChargerConnected =
                 IF type = "usb" THEN s.prox.inductiveChargerConnected ELSE connected
            /\ t.prox.percent = s.prox.percent /\ t.prox.subscribed = s.prox.subscribed
            /\ t.prox.bootIssued = s.prox.bootIssued /\ t.prox.level = s.prox.level
            /\ \A q \in Requirement : q[1] \notin {"charging", "docked"} =>
                 (q \in t.prox.met <=> q \in s.prox.met)
<1> DEFINE p == s.prox
           u == IF type = "usb" THEN [s EXCEPT !.prox.usbChargerConnected = connected]
                ELSE [s EXCEPT !.prox.inductiveChargerConnected = connected,
                               !.prox.onPuck = connected]
           docked == <<"docked", 1>>
           charging == <<"charging", 1>>
           v == Switched(u, docked, u.prox.onPuck, room)
           connects == v.prox.inductiveChargerConnected \/ v.prox.usbChargerConnected
           w == Switched(v, charging, connects, room)
           t == ChargerStatus(s, type, connected, room)
<1>1. p \in ProxyState
  BY DEF State
<1>2. t = w
  BY DEF ChargerStatus, Then, Switched
<1>3. /\ DOMAIN u = {"act", "prox"} /\ u.act = s.act
      /\ u.prox = IF type = "usb" THEN [p EXCEPT !.usbChargerConnected = connected]
                  ELSE [p EXCEPT !.inductiveChargerConnected = connected, !.onPuck = connected]
  BY DEF State
<1> HIDE DEF u, v, w, t, p
<1>4. /\ u.prox \in ProxyState /\ u.prox.met = p.met /\ u.prox.level = p.level
      /\ u.prox.status = p.status /\ u.prox.wifi = p.wifi /\ u.prox.wan = p.wan
      /\ u.prox.percent = p.percent /\ u.prox.subscribed = p.subscribed
      /\ u.prox.bootIssued = p.bootIssued
      /\ u.prox.usbChargerConnected = IF type = "usb" THEN connected ELSE p.usbChargerConnected
      /\ u.prox.inductiveChargerConnected =
           IF type = "usb" THEN p.inductiveChargerConnected ELSE connected
      /\ u.prox.onPuck <=> u.prox.inductiveChargerConnected
  <2>1. CASE type = "usb"
    BY <1>1, <1>3, <2>1 DEF ProxyState, ChargersMatch, p
  <2>2. CASE type # "usb"
    <3>1. u.prox = [p EXCEPT !.inductiveChargerConnected = connected, !.onPuck = connected]
      BY <1>3, <2>2
    <3>2. u.prox \in ProxyState
      BY <1>1, <3>1 DEF ProxyState
    <3>3. /\ u.prox.met = p.met /\ u.prox.level = p.level
          /\ u.prox.status = p.status /\ u.prox.wifi = p.wifi /\ u.prox.wan = p.wan
          /\ u.prox.percent = p.percent /\ u.prox.subscribed = p.subscribed
          /\ u.prox.bootIssued = p.bootIssued
          /\ u.prox.usbChargerConnected = p.usbChargerConnected
          /\ u.prox.inductiveChargerConnected = connected /\ u.prox.onPuck = connected
      BY <1>1, <3>1 DEF ProxyState
    <3> QED
      BY <2>2, <3>2, <3>3
  <2> QED
    BY <2>1, <2>2
<1>5. State(u, {})
  BY <1>3, <1>4, HiddenState DEF p
<1>6. docked \in Cores /\ charging \in Cores /\ docked # charging
  BY CoreIs
<1> HIDE DEF docked, charging
<1>7. /\ State(v, {})
      /\ v.prox = [u.prox EXCEPT !.met = IF u.prox.onPuck THEN @ \cup {docked} ELSE @ \ {docked}]
  <2>1. u.prox.onPuck \in BOOLEAN
    BY <1>4 DEF ProxyState
  <2> QED
    BY <1>5, <1>6, <2>1, SwitchedState DEF v
<1>8. /\ v.prox \in ProxyState
      /\ v.prox.met = (IF u.prox.onPuck THEN p.met \cup {docked} ELSE p.met \ {docked})
      /\ v.prox.level = p.level
      /\ v.prox.percent = p.percent /\ v.prox.subscribed = p.subscribed
      /\ v.prox.bootIssued = p.bootIssued
      /\ v.prox.usbChargerConnected = u.prox.usbChargerConnected
      /\ v.prox.inductiveChargerConnected = u.prox.inductiveChargerConnected
      /\ v.prox.onPuck = u.prox.onPuck
  BY <1>4, <1>7 DEF ProxyState, State
<1>9. PICK holds \in BOOLEAN : holds = connects
  <2>1. connects \in BOOLEAN
    OBVIOUS
  <2> QED
    BY <2>1, Zenon
<1>10. w = Switched(v, charging, holds, room)
  BY <1>9 DEF w
<1>11. /\ State(w, {})
       /\ w.prox = [v.prox EXCEPT !.met = IF holds THEN @ \cup {charging} ELSE @ \ {charging}]
  <2>1. State(v, {})
    BY <1>7
  <2> QED
    BY <1>6, <1>10, <2>1, SwitchedState
<1>12. /\ w.prox.met = (IF holds THEN v.prox.met \cup {charging} ELSE v.prox.met \ {charging})
       /\ w.prox.level = p.level
       /\ w.prox.percent = p.percent /\ w.prox.subscribed = p.subscribed
       /\ w.prox.bootIssued = p.bootIssued
       /\ w.prox.usbChargerConnected = u.prox.usbChargerConnected
       /\ w.prox.inductiveChargerConnected = u.prox.inductiveChargerConnected
       /\ w.prox.onPuck = u.prox.onPuck
  BY <1>8, <1>11 DEF ProxyState
<1>13. ChargersMatch(w.prox)
  <2>1. charging \in w.prox.met <=> connects
    BY <1>9, <1>12
  <2>2. docked \in w.prox.met <=> u.prox.onPuck
    BY <1>6, <1>8, <1>12
  <2> QED
    BY <1>4, <1>8, <1>12, <2>1, <2>2 DEF ChargersMatch, docked, charging
<1>14. \A q \in Requirement : q[1] \notin {"charging", "docked"} =>
         (q \in w.prox.met <=> q \in p.met)
  BY <1>8, <1>12 DEF docked, charging
<1>15. LevelsMatch(w.prox)
  <2>1. \A k \in Kind, i \in 0..3 : LET q == <<ConfidenceName[k], i>>
                                    IN q \in Requirement /\ q[1] \notin {"charging", "docked"}
    BY NameIs, CoreIs
  <2> QED
    BY <1>12, <1>14, <2>1 DEF LevelsMatch, p
<1> QED
  BY <1>2, <1>4, <1>11, <1>12, <1>13, <1>14, <1>15 DEF t, p

LEMMA BatteryBetween ==
  ASSUME NEW i \in Int, i >= -1, NEW j \in 0..100
  PROVE  /\ OneName(Battery(i, j))
         /\ \A q \in Battery(i, j) : /\ q \in Requirement /\ q[1] = "battery"
                                     /\ q \notin SystemManagerRequirement
                                     /\ q[2] \in Int /\ q[2] > i /\ q[2] <= j
         /\ \A q \in Requirement : q[1] = "battery" /\ q[2] > i /\ q[2] <= j => q \in Battery(i, j)
<1>1. \A q \in Battery(i, j) : \E n \in (i + 1)..j : q = <<"battery", n>>
  BY DEF Battery
<1>2. \A q \in Battery(i, j) : q \in Requirement
  BY <1>1 DEF Requirement, PowerdRequirement
<1>3. \A q \in Battery(i, j) : /\ q[1] = "battery" /\ q \notin SystemManagerRequirement
                               /\ q[2] \in Int /\ q[2] > i /\ q[2] <= j
  BY <1>1 DEF SystemManagerRequirement
<1>4. ASSUME NEW q \in Requirement, q[1] = "battery", q[2] > i, q[2] <= j
      PROVE  q \in Battery(i, j)
  <2>1. q = <<"battery", q[2]>> /\ q[2] \in 0..100
    BY <1>4, RequirementIs, NameIs
  <2>2. q[2] \in (i + 1)..j
    BY <1>4, <2>1
  <2> QED
    BY <2>1, <2>2 DEF Battery
<1> QED
  BY <1>2, <1>3, <1>4 DEF OneName

Below(j) == Battery(-1, j)

LEMMA BatteryIs ==
  ASSUME NEW i \in 0..100, NEW j \in 0..100
  PROVE  /\ OneName(Battery(i, j))
         /\ \A q \in Battery(i, j) : /\ q[1] = "battery" /\ q \notin SystemManagerRequirement
                                     /\ q[2] \in Int /\ q[2] > i /\ q[2] <= j
         /\ \A q \in Below(j) : q \in Requirement /\ q[1] = "battery" /\ q[2] \in Int /\ q[2] <= j
         /\ \A q \in Requirement : q[1] = "battery" /\ q[2] <= j /\ q[2] \in Int =>
              q \in Below(j) /\ (q[2] > i => q \in Battery(i, j))
<1>1. \A q \in Requirement : q[1] = "battery" => q[2] > -1
  BY RequirementIs, NameIs
<1>2. i \in Int /\ i >= -1 /\ -1 \in Int /\ -1 >= -1
  OBVIOUS
<1> QED
  BY <1>1, <1>2, BatteryBetween, Zenon DEF Below

LEMMA BatterySplit ==
  ASSUME NEW i \in 0..100, NEW j \in 0..100, NEW q \in Below(j)
  PROVE  q \in Below(i) \/ q \in Battery(i, j)
<1>1. q \in Requirement /\ q[1] = "battery" /\ q[2] \in Int /\ q[2] <= j
  BY BatteryIs, Zenon
<1>2. q[2] <= i \/ q[2] > i
  BY <1>1
<1>3. q[2] <= i => q \in Below(i)
  BY <1>1, BatteryIs, Zenon
<1>4. q[2] > i => q \in Battery(i, j)
  BY <1>1, BatteryIs, Zenon
<1> QED
  BY <1>2, <1>3, <1>4

LEMMA BatteryAbove ==
  ASSUME NEW j \in 0..100, NEW q \in Requirement, q[1] = "battery", q[2] \in Int, q \notin Below(j)
  PROVE  q[2] > j
<1>1. ~(q[2] <= j)
  BY BatteryIs, Zenon
<1> QED
  BY <1>1

LEMMA BatteryState ==
  ASSUME NEW s, State(s, {}), NEW percent \in 0..100, NEW room
  PROVE  LET t == BatteryStatus(s, percent, room)
         IN State(t, {}) /\ t.prox = [s.prox EXCEPT !.percent = percent]
<1> DEFINE p == s.prox
           old == p.percent
           u == [s EXCEPT !.prox.percent = percent]
           t == BatteryStatus(s, percent, room)
<1>1. p \in ProxyState /\ old \in 0..100
  BY DEF State, ProxyState
<1>2. /\ DOMAIN u = {"act", "prox"} /\ u.act = s.act
      /\ u.prox = [p EXCEPT !.percent = percent]
  BY DEF State
<1>3. /\ percent < old => t = Unmet(Updated(u, Below(percent)), Battery(percent, old))
      /\ percent > old => t = Met(Updated(u, Below(old)), Battery(old, percent), room)
      /\ percent = old => t = u
  <2>1. percent < old => ~(percent > old) /\ percent # old
    BY <1>1, SMTT(30)
  <2>2. percent > old => ~(percent < old) /\ percent # old
    BY <1>1, SMTT(30)
  <2>3. percent = old => ~(percent < old) /\ ~(percent > old)
    BY <1>1, SMTT(30)
  <2> QED
    BY <2>1, <2>2, <2>3, Zenon DEF BatteryStatus, Below
<1> HIDE DEF u, p, t, old
<1>4. /\ u.prox \in ProxyState /\ u.prox.met = p.met /\ u.prox.level = p.level
      /\ u.prox.status = p.status /\ u.prox.wifi = p.wifi /\ u.prox.wan = p.wan
      /\ u.prox.percent = percent
  BY <1>1, <1>2 DEF ProxyState
<1>5. ASSUME NEW a \in Activities, NEW q \in s.act[a].wants, q[1] = "battery"
      PROVE  /\ q \in Requirement /\ q[2] \in Int /\ q \notin SystemManagerRequirement
             /\ q \in s.act[a].met <=> old >= q[2]
             /\ Holds(u.prox, q) <=> percent >= q[2]
  <2>1. q \in Requirement
    BY DEF State, Fine, Record
  <2>2. q[2] \in 0..100 /\ q \notin SystemManagerRequirement
    BY <1>5, <2>1, RequirementIs, NameIs DEF SystemManagerRequirement
  <2>3. q \in s.act[a].met <=> Holds(p, q)
    BY <2>2 DEF State, Fine, Knows, Aware, p
  <2> QED
    BY <1>4, <1>5, <2>1, <2>2, <2>3 DEF Holds, old
<1>6. ASSUME NEW max \in 0..100, max >= old, max >= percent
      PROVE  State(u, Below(max))
  <2>1. ASSUME NEW a \in Activities
        PROVE  Fine(u.act[a], u.prox, Below(max))
    <3> DEFINE r == s.act[a]
    <3>1. Fine(r, p, {}) /\ u.act[a] = r
      BY <1>2 DEF State, p
    <3>2. ASSUME NEW q \in r.wants \ Below(max)
          PROVE  Aware(r, u.prox, q) /\ Seen(r, u.prox, q)
      <4>1. CASE q[1] = "battery"
        <5>1. q[2] > max
          <6>1. q \in Requirement /\ q[2] \in Int /\ q \notin Below(max)
            BY <1>5, <3>2, <4>1
          <6> QED
            BY <4>1, <6>1, BatteryAbove
        <5>2. q \notin r.met /\ ~Holds(u.prox, q)
          BY <1>1, <1>5, <1>6, <4>1, <5>1
        <5> QED
          BY <5>2 DEF Aware, Seen
      <4>2. CASE q[1] # "battery"
        <5>1. q \in Requirement
          BY <3>1 DEF Fine, Record
        <5>2. Alike(p, u.prox, q)
          BY <1>4, <4>2, <5>1, Unaffected
        <5> QED
          BY <3>1, <5>2 DEF Fine, Knows, Aware, Seen, Alike
      <4> QED
        BY <4>1, <4>2
    <3> QED
      BY <3>1, <3>2 DEF Fine, Knows
  <2> QED
    BY <1>2, <1>4, <2>1 DEF State
<1>7. CASE percent < old
  <2> DEFINE X == Below(old)
             Q == Below(percent)
             O == Battery(percent, old)
             v == Updated(u, Q)
  <2>1. State(u, X)
    BY <1>1, <1>6, <1>7
  <2>2. ASSUME NEW a \in Activities, NEW q \in Q \cap X \cap u.act[a].wants
        PROVE  Aware(u.act[a], u.prox, q)
    <3>1. q[1] = "battery" /\ q[2] \in Int /\ q[2] <= percent
      BY BatteryIs, Zenon
    <3> QED
      BY <1>1, <1>2, <1>5, <1>7, <3>1 DEF Aware
  <2> HIDE DEF X, Q, v
  <2>3. State(v, X \ Q) /\ v.prox = u.prox
    BY <2>1, <2>2, UpdatedState DEF v
  <2>4. OneName(O) /\ \A q \in O : q \notin SystemManagerRequirement /\ ~Holds(v.prox, q)
    <3>1. /\ OneName(O)
          /\ \A q \in O : /\ q[1] = "battery" /\ q \notin SystemManagerRequirement
                          /\ q[2] \in Int /\ q[2] > percent
      BY <1>1, BatteryIs, Zenon
    <3> HIDE DEF O
    <3> QED
      BY <1>4, <2>3, <3>1 DEF Holds
  <2>5. t = Unmet(v, O)
    BY <1>3, <1>7 DEF v, Q
  <2>6. \A q \in X : q \in Q \/ q \in O
    BY <1>1, BatterySplit DEF X, Q, O
  <2> HIDE DEF O
  <2>7. State(t, (X \ Q) \ O) /\ t.prox = v.prox
    BY <2>3, <2>4, <2>5, UnmetState
  <2>8. (X \ Q) \ O = {}
    BY <2>6
  <2> QED
    BY <1>2, <2>3, <2>7, <2>8 DEF t, p
<1>8. CASE percent > old
  <2> DEFINE X == Below(percent)
             Q == Below(old)
             O == Battery(old, percent)
             v == Updated(u, Q)
  <2>1. State(u, X)
    BY <1>1, <1>6, <1>8
  <2>2. ASSUME NEW a \in Activities, NEW q \in Q \cap X \cap u.act[a].wants
        PROVE  Aware(u.act[a], u.prox, q)
    <3>1. q[1] = "battery" /\ q[2] \in Int /\ q[2] <= old
      BY <1>1, BatteryIs, Zenon
    <3> QED
      BY <1>1, <1>2, <1>5, <1>8, <3>1 DEF Aware
  <2> HIDE DEF X, Q, v
  <2>3. /\ State(v, X \ Q) /\ v.prox = u.prox
        /\ \A a \in Activities : v.act[a].wants = u.act[a].wants /\ v.act[a].met = u.act[a].met
    BY <2>1, <2>2, UpdatedState DEF v
  <2>4. OneName(O) /\ \A q \in O : Holds(v.prox, q)
    <3>1. OneName(O) /\ \A q \in O : q[1] = "battery" /\ q[2] \in Int /\ q[2] <= percent
      BY <1>1, BatteryIs, Zenon
    <3> HIDE DEF O
    <3> QED
      BY <1>4, <2>3, <3>1 DEF Holds
  <2>5. t = Met(v, O, room)
    BY <1>3, <1>8 DEF v, Q
  <2>6. \A q \in X : q \in Q \/ q \in O
    BY <1>1, BatterySplit, Zenon DEF X, Q, O
  <2>7. ASSUME NEW a \in Activities, NEW q \in O \cap (X \ Q) \cap v.act[a].met
        PROVE  FALSE
    <3>1. q[1] = "battery" /\ q[2] \in Int /\ q[2] > old
      BY <1>1, BatteryIs, Zenon
    <3>2. q \in s.act[a].met /\ q \in s.act[a].wants
      BY <1>2, <2>3 DEF State, Fine, Record
    <3> QED
      BY <1>1, <1>5, <3>1, <3>2
  <2> HIDE DEF O
  <2>8. State(t, (X \ Q) \ O) /\ t.prox = v.prox
    BY <2>3, <2>4, <2>5, <2>7, MetState, SMTT(30)
  <2>9. (X \ Q) \ O = {}
    BY <2>6
  <2> QED
    BY <1>2, <2>3, <2>8, <2>9 DEF t, p
<1>9. CASE percent = old
  <2>1. \A q \in Requirement \ {} : Alike(p, u.prox, q)
    BY <1>4, <1>9, Unaffected DEF old
  <2>2. \A a \in Activities : Fine(u.act[a], u.prox, {})
    BY <1>2, <2>1, KnowsStill DEF State, p
  <2>3. State(u, {})
    BY <1>2, <1>4, <2>2 DEF State
  <2> QED
    BY <1>2, <1>3, <1>9, <2>3 DEF t, p
<1> QED
  BY <1>1, <1>7, <1>8, <1>9

-----------------------------------------------------------------------------
(* The invariant of the subscriptions.                                     *)

\* What is told on a line.
NewsOf(l) ==
  CASE l = "getstatus"     -> Status
    [] l \in {"platformQuery", "networkStatusQuery", "getBootStatus"} -> BOOLEAN
    [] l = "chargerStatus" -> {"usb", "inductive"} \X BOOLEAN
    [] l = "batteryStatus" -> 0..100

World ==
  [up : UpSets, status : Status, percent : 0..100, mapcenable : BOOLEAN, service : BOOLEAN,
   usb : BOOLEAN, inductive : BOOLEAN, booted : BOOLEAN]

Message(l) ==
  [kind : {"ok"}, news : NewsOf(l)]
    \cup [kind : {"unsaid", "transient", "permanent"}
                   \cup (IF l \in Signals THEN {"confirmed"} ELSE {})]

Subscription(l) ==
  [call : {"none", "sent", "open", "failed"}, messages : Seq(Message(l)),
   query : {"none", "sent", "lost"}]

\* Nothing is under way before the first answer, and that is the only one that
\* confirms a subscription: it does not find the signal subscribed to.
Orderly(l, x, p) ==
  /\ x.call \in {"none", "sent"} => x.messages = << >>
  /\ x.call = "sent" => l \notin p.subscribed
  /\ \A i \in 1..Len(x.messages) :
       x.messages[i].kind = "confirmed" => i = 1 /\ l \notin p.subscribed

\* The network is asked for its status once the platform has been given up.
OneQuery == lines["networkStatusQuery"].call # "none" => lines["platformQuery"].call = "none"

\* What news are about: a signal of the chargers, one of them.
Topics(l) == IF l = "chargerStatus" THEN {"usb", "inductive"} ELSE {"all"}

Topic(l, news) == IF l = "chargerStatus" THEN news[1] ELSE "all"

Latest(l, w, topic) ==
  CASE l # "chargerStatus"  -> News(l, w)[1]
    [] topic = "usb"        -> <<"usb", w.usb>>
    [] topic = "inductive"  -> <<"inductive", w.inductive>>

\* What the proxies hold once they have heard news, until they hear more.
Heard(p, l, news) ==
  CASE l = "getstatus" -> Reports(p, news)
    [] l \in {"platformQuery", "networkStatusQuery"} -> <<"telephony", 1>> \in p.met <=> news
    [] l = "getBootStatus" -> p.bootIssued = news
    [] l = "chargerStatus" -> IF news[1] = "usb" THEN p.usbChargerConnected = news[2]
                              ELSE p.inductiveChargerConnected = news[2]
    [] l = "batteryStatus" -> p.percent = news

About(l, m, topic) == m.kind = "ok" /\ Topic(l, m.news) = topic

\* The last of the messages about a topic tells what the daemon knows; if there
\* is none, the proxy has heard it.
Told(l, messages, p, w, topic) ==
  \/ \E i \in 1..Len(messages) :
       /\ About(l, messages[i], topic) /\ messages[i].news = Latest(l, w, topic)
       /\ \A j \in (i + 1)..Len(messages) : ~About(l, messages[j], topic)
  \/ /\ \A i \in 1..Len(messages) : ~About(l, messages[i], topic)
     /\ Heard(p, l, Latest(l, w, topic))

\* The messages begin with one that leads to another query.
AsksAgain(messages) == Len(messages) > 0 /\ messages[1].kind \in {"confirmed", "unsaid"}

\* Nothing is missed on a line that is open, when no query is under way.
Follows(l, x, p, w) ==
  x.call = "open" /\ x.query = "none" =>
    AsksAgain(x.messages) \/ \A topic \in Topics(l) : Told(l, x.messages, p, w, topic)

\* What holds of line l, which is x.
Subscribed(l, x, p, w) == x \in Subscription(l) /\ Orderly(l, x, p) /\ Follows(l, x, p, w)

ProxiesInv ==
  /\ State(Now, {}) /\ LevelsMatch(prox) /\ ChargersMatch(prox)
  /\ world \in World /\ DOMAIN lines = Line /\ OneQuery
  /\ \A l \in Line : Subscribed(l, lines[l], prox, world)

-----------------------------------------------------------------------------
(* What a proxy does with the news it hears.                               *)

LEMMA ReportsStill ==
  ASSUME NEW p, NEW r, NEW status, Reports(p, status),
         \A q \in Requirement :
           q[1] \notin {"telephony", "charging", "docked"} => (q \in r.met <=> q \in p.met)
  PROVE  Reports(r, status)
<1>1. \A k \in Kind : <<k, 1>> \in r.met <=> <<k, 1>> \in p.met
  BY CoreIs, NameIs
<1>2. \A k \in Kind, i \in 0..3 :
        <<ConfidenceName[k], i>> \in r.met <=> <<ConfidenceName[k], i>> \in p.met
  <2>1. \A k \in Kind, i \in 0..3 : ConfidenceName[k] \notin {"telephony", "charging", "docked"}
    BY NameIs
  <2> QED
    BY <2>1, CoreIs
<1> QED
  BY <1>1, <1>2, NameIs DEF Reports

\* What was heard of k stands, unless news of l are about it too.
Stands(p, r, l, news) ==
  \A k \in Line : \A n \in NewsOf(k) :
    /\ Heard(p, k, n)
    /\ k = l => Topic(k, n) # Topic(l, news)
    /\ {k, l} # {"platformQuery", "networkStatusQuery"}
    => Heard(r, k, n)

LEMMA HearState ==
  ASSUME NEW s, State(s, {}), LevelsMatch(s.prox), ChargersMatch(s.prox),
         NEW l \in Line, NEW m, m.news \in NewsOf(l), NEW room
  PROVE  LET t == Hear(s, l, m, room)
         IN /\ State(t, {}) /\ LevelsMatch(t.prox) /\ ChargersMatch(t.prox)
            /\ t.prox.subscribed = s.prox.subscribed
            /\ Heard(t.prox, l, m.news) /\ Stands(s.prox, t.prox, l, m.news)
<1> DEFINE p == s.prox
           n == m.news
           t == Hear(s, l, m, room)
           names == Kind \cup {ConfidenceName[k] : k \in Kind}
<1>0. p \in ProxyState
  BY DEF State
<1>1. CASE l = "getstatus"
  <2>1. n \in Status /\ t = ConnectionManagerUpdate(s, n, room)
    BY <1>1 DEF NewsOf, Hear
  <2> HIDE DEF n, t
  <2>2. State(t, {}) /\ LevelsMatch(t.prox) /\ Reports(t.prox, n) /\ Elsewhere(s.prox, t.prox, names)
    BY <2>1, ConnectionState
  <2>3. \A v \in {"telephony", "charging", "docked"} : <<v, 1>> \in t.prox.met <=> <<v, 1>> \in p.met
    BY <2>2, CoreIs, NameIs DEF Elsewhere
  <2>4. ChargersMatch(t.prox)
    BY <2>2, <2>3 DEF ChargersMatch, Elsewhere
  <2>5. Stands(p, t.prox, l, n)
    <3>1. ASSUME NEW k \in Line, NEW o \in NewsOf(k), Heard(p, k, o), k # l
          PROVE  Heard(t.prox, k, o)
      BY <1>1, <2>2, <2>3, <3>1 DEF Heard, Elsewhere, Line
    <3> QED
      BY <1>1, <3>1 DEF Stands, Topic
  <2> QED
    BY <1>1, <2>2, <2>4, <2>5 DEF Elsewhere, Heard, t, n
<1>2. CASE l \in {"platformQuery", "networkStatusQuery"}
  <2>1. n \in BOOLEAN /\ t = UpdateTelephonyState(s, n, room)
    BY <1>2 DEF NewsOf, Hear
  <2> HIDE DEF n, t
  <2>2. /\ State(t, {}) /\ LevelsMatch(t.prox)
        /\ <<"telephony", 1>> \in t.prox.met <=> n
        /\ Elsewhere(s.prox, t.prox, {"telephony"})
    BY <2>1, TelephonyState
  <2>3. \A v \in {"charging", "docked"} : <<v, 1>> \in t.prox.met <=> <<v, 1>> \in p.met
    BY <2>2, CoreIs, NameIs DEF Elsewhere
  <2>4. ChargersMatch(t.prox)
    BY <2>2, <2>3 DEF ChargersMatch, Elsewhere
  <2>5. \A status : Reports(p, status) => Reports(t.prox, status)
    BY <2>2, ReportsStill DEF Elsewhere
  <2>6. Stands(p, t.prox, l, n)
    <3>1. ASSUME NEW k \in Line, NEW o \in NewsOf(k), Heard(p, k, o),
                 k \notin {"platformQuery", "networkStatusQuery"}
          PROVE  Heard(t.prox, k, o)
      BY <2>2, <2>3, <2>5, <3>1 DEF Heard, Elsewhere, Line
    <3> QED
      BY <1>2, <3>1 DEF Stands, Topic
  <2> QED
    <3>1. Heard(t.prox, l, n)
      BY <1>2, <2>2 DEF Heard
    <3>2. t.prox.subscribed = s.prox.subscribed
      BY <2>2 DEF Elsewhere
    <3> QED
      BY <2>2, <2>4, <2>6, <3>1, <3>2 DEF t, n
<1>3. CASE l = "getBootStatus"
  <2>1. n \in BOOLEAN /\ t = BootStatusUpdate(s, n, room)
    BY <1>3 DEF NewsOf, Hear
  <2> HIDE DEF n, t
  <2>2. State(t, {}) /\ t.prox = [s.prox EXCEPT !.bootIssued = n]
    BY <2>1, BootState
  <2>3. /\ t.prox.met = p.met /\ t.prox.level = p.level /\ t.prox.subscribed = p.subscribed
        /\ t.prox.usbChargerConnected = p.usbChargerConnected
        /\ t.prox.inductiveChargerConnected = p.inductiveChargerConnected
        /\ t.prox.onPuck = p.onPuck /\ t.prox.percent = p.percent /\ t.prox.bootIssued = n
    BY <1>0, <2>2 DEF ProxyState
  <2>4. LevelsMatch(t.prox) /\ ChargersMatch(t.prox)
    BY <2>3 DEF LevelsMatch, ChargersMatch
  <2>5. \A status : Reports(p, status) => Reports(t.prox, status)
    BY <2>3, ReportsStill
  <2>6. Stands(p, t.prox, l, n)
    <3>1. ASSUME NEW k \in Line, NEW o \in NewsOf(k), Heard(p, k, o), k # l
          PROVE  Heard(t.prox, k, o)
      BY <1>3, <2>3, <2>5, <3>1 DEF Heard, Line
    <3> QED
      BY <1>3, <3>1 DEF Stands, Topic
  <2> QED
    BY <1>3, <2>2, <2>3, <2>4, <2>6 DEF Heard, t, n
<1>4. CASE l = "chargerStatus"
  <2>1. /\ n \in {"usb", "inductive"} \X BOOLEAN
        /\ t = ChargerStatus(s, n[1], n[2], room)
    BY <1>4 DEF NewsOf, Hear
  <2> HIDE DEF n, t
  <2>2. /\ State(t, {}) /\ LevelsMatch(t.prox) /\ ChargersMatch(t.prox)
        /\ t.prox.usbChargerConnected = IF n[1] = "usb" THEN n[2] ELSE s.prox.usbChargerConnected
        /\ t.prox.inductiveChargerConnected =
             IF n[1] = "usb" THEN s.prox.inductiveChargerConnected ELSE n[2]
        /\ t.prox.percent = s.prox.percent /\ t.prox.subscribed = s.prox.subscribed
        /\ t.prox.bootIssued = s.prox.bootIssued /\ t.prox.level = s.prox.level
        /\ \A q \in Requirement : q[1] \notin {"charging", "docked"} =>
             (q \in t.prox.met <=> q \in s.prox.met)
    <3>1. n[1] \in {"usb", "inductive"} /\ n[2] \in BOOLEAN
      BY <2>1
    <3> QED
      BY <2>1, <3>1, ChargerState
  <2>3. <<"telephony", 1>> \in t.prox.met <=> <<"telephony", 1>> \in p.met
    BY <2>2, CoreIs
  <2>4. \A status : Reports(p, status) => Reports(t.prox, status)
    BY <2>2, ReportsStill
  <2>5. Stands(p, t.prox, l, n)
    <3>1. ASSUME NEW k \in Line, NEW o \in NewsOf(k), Heard(p, k, o), k # l
          PROVE  Heard(t.prox, k, o)
      BY <1>4, <2>2, <2>3, <2>4, <3>1 DEF Heard, Line
    <3>2. ASSUME NEW o \in NewsOf(l), Heard(p, l, o), o[1] # n[1]
          PROVE  Heard(t.prox, l, o)
      BY <1>4, <2>1, <2>2, <3>2 DEF Heard, NewsOf
    <3> QED
      BY <1>4, <3>1, <3>2 DEF Stands, Topic
  <2> QED
    BY <1>4, <2>1, <2>2, <2>5 DEF Heard, t, n
<1>5. CASE l = "batteryStatus"
  <2>1. n \in 0..100 /\ t = BatteryStatus(s, n, room)
    BY <1>5 DEF NewsOf, Hear
  <2> HIDE DEF n, t
  <2>2. State(t, {}) /\ t.prox = [s.prox EXCEPT !.percent = n]
    BY <2>1, BatteryState
  <2>3. /\ t.prox.met = p.met /\ t.prox.level = p.level /\ t.prox.subscribed = p.subscribed
        /\ t.prox.usbChargerConnected = p.usbChargerConnected
        /\ t.prox.inductiveChargerConnected = p.inductiveChargerConnected
        /\ t.prox.onPuck = p.onPuck /\ t.prox.percent = n /\ t.prox.bootIssued = p.bootIssued
    BY <1>0, <2>2 DEF ProxyState
  <2>4. LevelsMatch(t.prox) /\ ChargersMatch(t.prox)
    BY <2>3 DEF LevelsMatch, ChargersMatch
  <2>5. \A status : Reports(p, status) => Reports(t.prox, status)
    BY <2>3, ReportsStill
  <2>6. Stands(p, t.prox, l, n)
    <3>1. ASSUME NEW k \in Line, NEW o \in NewsOf(k), Heard(p, k, o), k # l
          PROVE  Heard(t.prox, k, o)
      BY <1>5, <2>3, <2>5, <3>1 DEF Heard, Line
    <3> QED
      BY <1>5, <3>1 DEF Stands, Topic
  <2> QED
    BY <1>5, <2>2, <2>3, <2>4, <2>6 DEF Heard, t, n
<1> QED
  BY <1>1, <1>2, <1>3, <1>4, <1>5 DEF Line

-----------------------------------------------------------------------------
(* What becomes of an Activity whose requirements are replaced.            *)

LEMMA RequirementsReplaced ==
  ASSUME NEW r, NEW p \in ProxyState, Fine(r, p, {}), NEW spec, spec \subseteq Requirement,
         OnePerName(spec), NEW removed
  PROVE  LET u == UpdateRequirements(r, spec, removed, p, FALSE)
         IN /\ DOMAIN u = DOMAIN r
            /\ u.wants \subseteq Requirement /\ OnePerName(u.wants) /\ u.met \subseteq u.wants
            /\ \A q \in u.wants : Aware(u, p, q)
            /\ u.created = r.created /\ u.scheduled = r.scheduled
            /\ ~r.ready /\ removed = {} => u.ready = FALSE
            /\ ~r.running => u.running = FALSE
<1> DEFINE old == Named(r.wants, Names(spec))
           oldMet == Named(r.met, Names(spec))
           met == {q \in spec : Holds(p, q)}
           t == AddRequirements(r, spec, p)
           m == [t EXCEPT !.wants = @ \ Named(@, removed), !.met = @ \ Named(@, removed)]
           u == UpdateRequirements(r, spec, removed, p, FALSE)
<1>1. /\ Record(r) /\ r.wants \subseteq Requirement /\ OnePerName(r.wants) /\ r.met \subseteq r.wants
      /\ \A q \in r.wants : Aware(r, p, q)
  BY DEF Fine, Record, Knows
<1>2. /\ DOMAIN t = DOMAIN r /\ t.wants = (r.wants \ old) \cup spec
      /\ t.met = (r.met \ oldMet) \cup met
      /\ t.ready = (r.ready /\ (r.running \/ met = spec))
      /\ t.running = r.running /\ t.created = r.created /\ t.scheduled = r.scheduled
  BY <1>1 DEF AddRequirements, Record
<1> HIDE DEF t
<1>3. /\ DOMAIN m = DOMAIN r
      /\ m.wants = t.wants \ Named(t.wants, removed) /\ m.met = t.met \ Named(t.met, removed)
      /\ m.ready = t.ready /\ m.running = t.running
      /\ m.created = t.created /\ m.scheduled = t.scheduled
  BY <1>1, <1>2 DEF Record
<1>4. u = IF m.wants # t.wants /\ ~m.running /\ ~m.ready /\ IsRunnable(m)
          THEN RequestRunActivity(m, FALSE) ELSE m
  BY DEF UpdateRequirements, RemoveRequirements, t
<1> HIDE DEF m, u
<1>5. /\ DOMAIN u = DOMAIN r /\ u.wants = m.wants /\ u.met = m.met
      /\ u.created = m.created /\ u.scheduled = m.scheduled
      /\ m.wants = t.wants => u.ready = m.ready
      /\ ~m.running => u.running = FALSE
  <2>1. CASE m.wants # t.wants /\ ~m.running /\ ~m.ready /\ IsRunnable(m)
    BY <1>1, <1>3, <1>4, <2>1 DEF RequestRunActivity, Record
  <2>2. CASE ~(m.wants # t.wants /\ ~m.running /\ ~m.ready /\ IsRunnable(m))
    BY <1>1, <1>2, <1>3, <1>4, <2>2 DEF Record
  <2> QED
    BY <2>1, <2>2
<1>6. \A q \in r.wants \ old, o \in spec : q[1] # o[1]
  BY DEF Named, Names
<1>7. t.wants \subseteq Requirement /\ OnePerName(t.wants) /\ t.met \subseteq t.wants
  BY <1>1, <1>2, <1>6 DEF OnePerName, Named
<1>8. ASSUME NEW q \in t.wants
      PROVE  Aware(t, p, q)
  <2>1. CASE q \in spec
    BY <1>1, <1>2, <1>6, <2>1 DEF Aware, Named, Names
  <2>2. CASE q \in r.wants \ old
    BY <1>1, <1>2, <1>6, <2>2 DEF Aware, Named
  <2> QED
    BY <1>2, <2>1, <2>2
<1>9. u.wants \subseteq Requirement /\ OnePerName(u.wants) /\ u.met \subseteq u.wants
  BY <1>3, <1>5, <1>7 DEF OnePerName, Named
<1>10. \A q \in u.wants : Aware(u, p, q)
  BY <1>3, <1>5, <1>8 DEF Aware, Named
<1>11. removed = {} => m.wants = t.wants
  BY <1>3 DEF Named
<1>12. ~r.ready /\ removed = {} => u.ready = FALSE
  BY <1>1, <1>2, <1>3, <1>5, <1>11 DEF Record
<1>13. ~r.running => u.running = FALSE
  BY <1>2, <1>3, <1>5
<1> QED
  BY <1>2, <1>3, <1>5, <1>9, <1>10, <1>12, <1>13 DEF u

\* Only the Activity a changed.
LEMMA ActivityState ==
  ASSUME State(Now, {}), NEW a \in Activities, NEW r, Fine(r, prox, {}),
         act' = [act EXCEPT ![a] = r], UNCHANGED prox
  PROVE  State(Now', {})
BY DEF State, Now

\* It shows its requirements as they are.
LEMMA ShownFine ==
  ASSUME NEW u, NEW p, DOMAIN u = {"wants", "met", "shown", "created", "scheduled", "ready", "running"},
         u.wants \subseteq Requirement, OnePerName(u.wants), u.met \subseteq u.wants,
         \A q \in u.wants : Aware(u, p, q),
         u.created = TRUE, u.scheduled = FALSE, u.ready = FALSE, u.running = FALSE
  PROVE  Fine(BroadcastEvent(u, p), p, {})
<1> DEFINE v == BroadcastEvent(u, p)
<1>1. /\ DOMAIN v = DOMAIN u /\ v.wants = u.wants /\ v.met = u.met
      /\ v.shown = [q \in u.wants |-> CurrentValue(p, q)]
      /\ v.created = TRUE /\ v.scheduled = FALSE /\ v.ready = FALSE /\ v.running = FALSE
  BY DEF BroadcastEvent
<1> HIDE DEF v
<1>2. Record(v) /\ Waits(v)
  BY <1>1 DEF Record, Waits
<1>3. Knows(v, p, {})
  BY <1>1 DEF Knows, Aware, Seen
<1> QED
  BY <1>2, <1>3 DEF Fine, v

LEMMA CreateState ==
  ASSUME State(Now, {}), NEW a \in Activities, NEW spec, CreateActivity(a, spec)
  PROVE  State(Now', {})
<1> DEFINE r == act[a]
           u == UpdateRequirements(r, spec, {}, prox, FALSE)
           v == [u EXCEPT !.created = TRUE]
<1>1. Fine(r, prox, {}) /\ prox \in ProxyState /\ DOMAIN act = Activities
  BY DEF State, Now
<1>2. spec \subseteq Requirement /\ OnePerName(spec)
  BY DEF CreateActivity, Legal, Instantiable
<1>3. act' = [act EXCEPT ![a] = BroadcastEvent(v, prox)] /\ UNCHANGED prox
  BY <1>1 DEF CreateActivity
<1>4. r.scheduled = FALSE /\ r.ready = FALSE /\ r.running = FALSE
  BY <1>1 DEF CreateActivity, Fine, Waits, Record
<1> HIDE DEF r
<1>5. /\ DOMAIN u = DOMAIN r
      /\ u.wants \subseteq Requirement /\ OnePerName(u.wants) /\ u.met \subseteq u.wants
      /\ \A q \in u.wants : Aware(u, prox, q)
      /\ u.scheduled = FALSE /\ u.ready = FALSE /\ u.running = FALSE
  BY <1>1, <1>2, <1>4, RequirementsReplaced, ZenonT(40)
<1> HIDE DEF u
<1>6. /\ DOMAIN v = DOMAIN u /\ v.wants = u.wants /\ v.met = u.met
      /\ v.scheduled = FALSE /\ v.ready = FALSE /\ v.running = FALSE /\ v.created = TRUE
  BY <1>1, <1>5 DEF Fine, Record
<1> HIDE DEF v
<1>7. \A q \in v.wants : Aware(v, prox, q)
  BY <1>5, <1>6 DEF Aware
<1>8. Fine(BroadcastEvent(v, prox), prox, {})
  BY <1>1, <1>5, <1>6, <1>7, ShownFine DEF Fine, Record
<1> QED
  BY <1>3, <1>8, ActivityState

LEMMA RestartState ==
  ASSUME State(Now, {}), NEW a \in Activities, NEW spec, RestartActivity(a, spec)
  PROVE  State(Now', {})
<1> DEFINE r == act[a]
           removed == {q[1] : q \in r.wants} \ {q[1] : q \in spec}
           u == UpdateRequirements(r, spec, removed, prox, FALSE)
           v == [u EXCEPT !.scheduled = FALSE, !.ready = FALSE, !.running = FALSE]
<1>1. Fine(r, prox, {}) /\ prox \in ProxyState /\ DOMAIN act = Activities
  BY DEF State, Now
<1>2. spec \subseteq Requirement /\ OnePerName(spec)
  BY DEF RestartActivity, Legal, Instantiable
<1>3. act' = [act EXCEPT ![a] = BroadcastEvent(v, prox)] /\ UNCHANGED prox
  BY <1>1 DEF RestartActivity
<1>4. r.created = TRUE
  BY <1>1 DEF RestartActivity, Fine, Waits, Record
<1> HIDE DEF r, removed
<1>5. /\ DOMAIN u = DOMAIN r
      /\ u.wants \subseteq Requirement /\ OnePerName(u.wants) /\ u.met \subseteq u.wants
      /\ \A q \in u.wants : Aware(u, prox, q)
      /\ u.created = TRUE
  BY <1>1, <1>2, <1>4, RequirementsReplaced
<1> HIDE DEF u
<1>6. /\ DOMAIN v = DOMAIN u /\ v.wants = u.wants /\ v.met = u.met
      /\ v.scheduled = FALSE /\ v.ready = FALSE /\ v.running = FALSE /\ v.created = TRUE
  BY <1>1, <1>5 DEF Fine, Record
<1> HIDE DEF v
<1>7. \A q \in v.wants : Aware(v, prox, q)
  BY <1>5, <1>6 DEF Aware
<1>8. Fine(BroadcastEvent(v, prox), prox, {})
  BY <1>1, <1>5, <1>6, <1>7, ShownFine DEF Fine, Record
<1> QED
  BY <1>3, <1>8, ActivityState

LEMMA ScheduleState ==
  ASSUME State(Now, {}), NEW a \in Activities, ScheduleActivity(a)
  PROVE  State(Now', {})
<1>1. PICK room \in BOOLEAN :
        LET r == [act[a] EXCEPT !.scheduled = TRUE]
        IN act' = [act EXCEPT ![a] = IF IsRunnable(r) THEN RequestRunActivity(r, room) ELSE r]
  BY DEF ScheduleActivity
<1> DEFINE r == [act[a] EXCEPT !.scheduled = TRUE]
           v == IF IsRunnable(r) THEN RequestRunActivity(r, room) ELSE r
<1>2. Fine(act[a], prox, {}) /\ Record(act[a])
  BY DEF State, Now, Fine
<1>3. /\ DOMAIN r = DOMAIN act[a] /\ r.wants = act[a].wants /\ r.met = act[a].met
      /\ r.shown = act[a].shown /\ r.created = TRUE /\ r.scheduled = TRUE
      /\ r.ready = FALSE /\ r.running = FALSE
  BY <1>2 DEF ScheduleActivity, Record, Fine, Waits
<1>4. act' = [act EXCEPT ![a] = v] /\ UNCHANGED prox
  BY <1>1 DEF ScheduleActivity
<1> HIDE DEF r
<1>5. /\ DOMAIN v = DOMAIN r /\ v.wants = r.wants /\ v.met = r.met /\ v.shown = r.shown
      /\ v.created = TRUE /\ v.scheduled = TRUE
      /\ v.ready = (r.met = r.wants) /\ v.running \in BOOLEAN /\ (v.running => v.ready)
  <2>1. CASE IsRunnable(r)
    BY <1>2, <1>3, <2>1 DEF IsRunnable, RequestRunActivity, Record
  <2>2. CASE ~IsRunnable(r)
    BY <1>2, <1>3, <2>2 DEF IsRunnable, Record
  <2> QED
    BY <2>1, <2>2
<1> HIDE DEF v
<1>6. Record(v) /\ Waits(v)
  BY <1>2, <1>3, <1>5 DEF Record, Waits
<1>7. Knows(v, prox, {})
  BY <1>2, <1>3, <1>5 DEF Fine, Knows, Aware, Seen
<1> QED
  BY <1>4, <1>6, <1>7, ActivityState DEF Fine

LEMMA RunState ==
  ASSUME State(Now, {}), NEW a \in Activities, RunActivity(a)
  PROVE  State(Now', {})
<1> DEFINE v == [act[a] EXCEPT !.running = TRUE]
<1>1. Fine(act[a], prox, {}) /\ Record(act[a])
  BY DEF State, Now, Fine
<1>2. act' = [act EXCEPT ![a] = v] /\ UNCHANGED prox
  BY DEF RunActivity
<1>3. /\ DOMAIN v = DOMAIN act[a] /\ v.wants = act[a].wants /\ v.met = act[a].met
      /\ v.shown = act[a].shown /\ v.created = act[a].created /\ v.scheduled = act[a].scheduled
      /\ v.ready = act[a].ready /\ v.running = TRUE /\ act[a].ready = TRUE
  BY <1>1 DEF RunActivity, Record
<1> HIDE DEF v
<1>4. Record(v) /\ Waits(v)
  BY <1>1, <1>3 DEF Record, Fine, Waits
<1>5. Knows(v, prox, {})
  BY <1>1, <1>3 DEF Fine, Knows, Aware, Seen
<1> QED
  BY <1>2, <1>4, <1>5, ActivityState DEF Fine

-----------------------------------------------------------------------------
(* Lines.                                                                  *)

\* Messages end with what the daemon knows of every topic.
EndsWith(l, o, w) ==
  /\ \A i \in 1..Len(o) : o[i].kind = "ok"
  /\ \A topic \in Topics(l) : \E i \in 1..Len(o) :
       /\ About(l, o[i], topic) /\ o[i].news = Latest(l, w, topic)
       /\ \A j \in (i + 1)..Len(o) : ~About(l, o[j], topic)

\* An answer of a daemon tells everything it knows.
LEMMA NewsTell ==
  ASSUME NEW l \in Line, NEW w \in World
  PROVE  Ok(News(l, w)) \in Seq(Message(l)) /\ EndsWith(l, Ok(News(l, w)), w)
<1> DEFINE o == Ok(News(l, w))
<1>1. CASE l = "chargerStatus"
  <2> DEFINE usb == [kind |-> "ok", news |-> <<"usb", w.usb>>]
             inductive == [kind |-> "ok", news |-> <<"inductive", w.inductive>>]
  <2>1. o = << usb, inductive >>
    BY <1>1 DEF Ok, News
  <2>2. usb \in Message(l) /\ inductive \in Message(l)
    BY <1>1 DEF Message, NewsOf, World
  <2>3. /\ About(l, usb, "usb") /\ ~About(l, inductive, "usb") /\ About(l, inductive, "inductive")
        /\ usb.kind = "ok" /\ inductive.kind = "ok"
        /\ usb.news = Latest(l, w, "usb") /\ inductive.news = Latest(l, w, "inductive")
    BY <1>1 DEF About, Topic, Latest
  <2> HIDE DEF o, usb, inductive
  <2>4. Len(o) = 2 /\ o[1] = usb /\ o[2] = inductive /\ o \in Seq(Message(l))
    BY <2>1, <2>2
  <2>5. EndsWith(l, o, w)
    <3>1. /\ About(l, o[1], "usb") /\ o[1].news = Latest(l, w, "usb")
          /\ \A j \in (1 + 1)..Len(o) : ~About(l, o[j], "usb")
      BY <2>3, <2>4
    <3>2. /\ About(l, o[2], "inductive") /\ o[2].news = Latest(l, w, "inductive")
          /\ \A j \in (2 + 1)..Len(o) : ~About(l, o[j], "inductive")
      BY <2>3, <2>4
    <3>3. 1 \in 1..Len(o) /\ 2 \in 1..Len(o) /\ \A i \in 1..Len(o) : i = 1 \/ i = 2
      BY <2>4
    <3>4. \A topic \in Topics(l) : topic = "usb" \/ topic = "inductive"
      BY <1>1 DEF Topics
    <3> QED
      BY <2>3, <2>4, <3>1, <3>2, <3>3, <3>4 DEF EndsWith
  <2> QED
    BY <2>4, <2>5 DEF o
<1>2. CASE l # "chargerStatus"
  <2> DEFINE news == News(l, w)[1]
             m == [kind |-> "ok", news |-> news]
  <2>1. o = << m >> /\ news \in NewsOf(l)
    BY <1>2 DEF Ok, News, NewsOf, World, Line
  <2>2. m \in Message(l)
    BY <2>1 DEF Message
  <2>3. /\ m.kind = "ok" /\ \A topic \in Topics(l) : About(l, m, topic) /\ m.news = Latest(l, w, topic)
    BY <1>2 DEF About, Topic, Topics, Latest
  <2> HIDE DEF o, m, news
  <2>4. Len(o) = 1 /\ o[1] = m /\ o \in Seq(Message(l))
    BY <2>1, <2>2
  <2> QED
    BY <2>3, <2>4 DEF EndsWith, o
<1> QED
  BY <1>1, <1>2

LEMMA ToldByNews ==
  ASSUME NEW l, NEW M, M \in Seq(Message(l)), NEW o, o \in Seq(Message(l)), NEW w, EndsWith(l, o, w),
         NEW p, NEW topic \in Topics(l)
  PROVE  Told(l, M \o o, p, w, topic)
<1> DEFINE N == M \o o
<1>1. /\ Len(M) \in Nat /\ Len(o) \in Nat /\ Len(N) = Len(M) + Len(o)
      /\ \A j \in 1..Len(N) : j > Len(M) => N[j] = o[j - Len(M)]
  OBVIOUS
<1> HIDE DEF N
<1>2. PICK i \in 1..Len(o) : /\ About(l, o[i], topic) /\ o[i].news = Latest(l, w, topic)
                             /\ \A j \in (i + 1)..Len(o) : ~About(l, o[j], topic)
  BY DEF EndsWith
<1>3. i + Len(M) \in 1..Len(N) /\ N[i + Len(M)] = o[i]
  BY <1>1
<1>4. \A j \in ((i + Len(M)) + 1)..Len(N) : ~About(l, N[j], topic)
  <2> SUFFICES ASSUME NEW j \in ((i + Len(M)) + 1)..Len(N)
               PROVE  ~About(l, N[j], topic)
    OBVIOUS
  <2>1. j - Len(M) \in (i + 1)..Len(o) /\ N[j] = o[j - Len(M)]
    BY <1>1
  <2> QED
    BY <1>2, <2>1
<1> QED
  BY <1>2, <1>3, <1>4 DEF Told, N

LEMMA ToldStill ==
  ASSUME NEW l, NEW M, NEW p, NEW r, NEW w, NEW v, NEW topic, Told(l, M, p, w, topic),
         Latest(l, v, topic) = Latest(l, w, topic),
         Heard(p, l, Latest(l, w, topic)) => Heard(r, l, Latest(l, w, topic))
  PROVE  Told(l, M, r, v, topic)
BY DEF Told

\* One message less, which has been heard.
LEMMA ToldTail ==
  ASSUME NEW l, NEW M, M \in Seq(Message(l)), M # << >>, Head(M).kind = "ok",
         NEW p, NEW r, NEW w, NEW topic, Told(l, M, p, w, topic), Heard(r, l, Head(M).news),
         /\ Topic(l, Head(M).news) # topic /\ Heard(p, l, Latest(l, w, topic))
         => Heard(r, l, Latest(l, w, topic))
  PROVE  Told(l, Tail(M), r, w, topic)
<1> DEFINE N == Tail(M)
           m == Head(M)
<1>1. /\ Len(M) \in Nat /\ Len(M) > 0 /\ Len(N) = Len(M) - 1 /\ M[1] = m
      /\ \A j \in 1..Len(N) : N[j] = M[j + 1]
  OBVIOUS
<1> HIDE DEF N, m
<1>2. ASSUME \A i \in 1..Len(M) : ~About(l, M[i], topic), Heard(p, l, Latest(l, w, topic))
      PROVE  Told(l, N, r, w, topic)
  <2>1. \A j \in 1..Len(N) : ~About(l, N[j], topic)
    BY <1>1, <1>2
  <2>2. ~About(l, m, topic)
    BY <1>1, <1>2
  <2>3. Heard(r, l, Latest(l, w, topic))
    BY <1>2, <2>2 DEF About, m
  <2> QED
    BY <2>1, <2>3 DEF Told
<1>3. CASE \E i \in 1..Len(M) :
             /\ About(l, M[i], topic) /\ M[i].news = Latest(l, w, topic)
             /\ \A j \in (i + 1)..Len(M) : ~About(l, M[j], topic)
  <2>1. PICK i \in 1..Len(M) :
             /\ About(l, M[i], topic) /\ M[i].news = Latest(l, w, topic)
             /\ \A j \in (i + 1)..Len(M) : ~About(l, M[j], topic)
    BY <1>3
  <2>2. CASE i > 1
    <3>1. i - 1 \in 1..Len(N) /\ N[i - 1] = M[i]
      BY <1>1, <2>2
    <3>2. \A j \in ((i - 1) + 1)..Len(N) : ~About(l, N[j], topic)
      BY <1>1, <2>1
    <3> QED
      BY <2>1, <3>1, <3>2 DEF Told
  <2>3. CASE i = 1
    <3>1. \A j \in 1..Len(N) : ~About(l, N[j], topic)
      BY <1>1, <2>1, <2>3
    <3>2. Heard(r, l, Latest(l, w, topic))
      BY <1>1, <2>1, <2>3 DEF m
    <3> QED
      BY <3>1, <3>2 DEF Told
  <2> QED
    BY <1>1, <2>2, <2>3
<1> QED
  BY <1>2, <1>3 DEF Told, N

\* Nothing changes on a line for what a proxy keeps of it, and for what the
\* daemon knows.
LEMMA SubscribedStill ==
  ASSUME NEW l, NEW x, NEW p, NEW r, NEW w, NEW v, Subscribed(l, x, p, w),
         l \in r.subscribed => l \in p.subscribed,
         \A topic \in Topics(l) :
           x.call = "open" => /\ Latest(l, v, topic) = Latest(l, w, topic)
                              /\ Heard(p, l, Latest(l, w, topic)) => Heard(r, l, Latest(l, w, topic))
  PROVE  Subscribed(l, x, r, v)
<1>1. Orderly(l, x, r)
  BY DEF Subscribed, Orderly
<1>2. ASSUME x.call = "open", x.query = "none", ~AsksAgain(x.messages), NEW topic \in Topics(l)
      PROVE  Told(l, x.messages, r, v, topic)
  <2>1. Told(l, x.messages, p, w, topic)
    BY <1>2 DEF Subscribed, Follows
  <2> QED
    BY <1>2, <2>1, ToldStill
<1> QED
  BY <1>1, <1>2 DEF Subscribed, Follows

\* The daemon tells all it knows.
LEMMA SubscribedNews ==
  ASSUME NEW l \in Line, NEW x, NEW p, NEW w, NEW v \in World, Subscribed(l, x, p, w),
         NEW y, y \in [call : {"none", "sent", "open", "failed"}, messages : {y.messages},
                       query : {"none", "sent", "lost"}],
         x.call = "open", y.call = "open", y.messages = x.messages \o Ok(News(l, v))
  PROVE  Subscribed(l, y, p, v)
<1> DEFINE M == x.messages
           o == Ok(News(l, v))
<1>1. M \in Seq(Message(l)) /\ Orderly(l, x, p)
  BY DEF Subscribed, Subscription
<1>2. o \in Seq(Message(l)) /\ EndsWith(l, o, v)
  BY NewsTell
<1> HIDE DEF M, o
<1>3. M \o o \in Seq(Message(l))
  BY <1>1, <1>2
<1>4. y \in Subscription(l)
  BY <1>3 DEF Subscription, M, o
<1>5. \A topic \in Topics(l) : Told(l, M \o o, p, v, topic)
  BY <1>1, <1>2, ToldByNews
<1>6. ASSUME NEW i \in 1..Len(M \o o), (M \o o)[i].kind = "confirmed"
      PROVE  i \in 1..Len(M) /\ M[i].kind = "confirmed"
  <2>1. i > Len(M) => i - Len(M) \in 1..Len(o) /\ (M \o o)[i] = o[i - Len(M)]
    BY <1>1, <1>2
  <2>2. i <= Len(M)
    BY <1>1, <1>2, <1>6, <2>1 DEF EndsWith
  <2> QED
    BY <1>1, <1>2, <1>6, <2>2
<1>7. Orderly(l, y, p)
  BY <1>1, <1>6 DEF Orderly, M, o
<1> QED
  BY <1>4, <1>5, <1>7 DEF Subscribed, Follows, M, o

\* A message is dealt with.
LEMMA SubscribedTail ==
  ASSUME NEW l \in Line, NEW x, NEW p, NEW w, Subscribed(l, x, p, w), x.messages # << >>
  PROVE  /\ Head(x.messages) \in Message(l) /\ x.messages[1] = Head(x.messages)
         /\ Tail(x.messages) \in Seq(Message(l))
         /\ \A i \in 1..Len(Tail(x.messages)) : Tail(x.messages)[i].kind # "confirmed"
         /\ x.call \in {"open", "failed"}
         /\ Head(x.messages).kind = "confirmed" => l \notin p.subscribed
         /\ Len(x.messages) > 0
<1> DEFINE M == x.messages
<1>1. M \in Seq(Message(l)) /\ x.call \in {"none", "sent", "open", "failed"} /\ Orderly(l, x, p)
  BY DEF Subscribed, Subscription
<1> HIDE DEF M
<1>2. /\ Len(M) \in Nat /\ Len(M) > 0 /\ M[1] = Head(M) /\ Head(M) \in Message(l)
      /\ Tail(M) \in Seq(Message(l)) /\ Len(Tail(M)) = Len(M) - 1
      /\ \A i \in 1..Len(Tail(M)) : Tail(M)[i] = M[i + 1]
  BY <1>1 DEF M
<1>3. \A i \in 1..Len(M) : M[i].kind = "confirmed" => i = 1 /\ l \notin p.subscribed
  BY <1>1 DEF Orderly, M
<1>4. \A i \in 1..Len(Tail(M)) : Tail(M)[i].kind # "confirmed"
  <2> SUFFICES ASSUME NEW i \in 1..Len(Tail(M)), Tail(M)[i].kind = "confirmed"
               PROVE  FALSE
    OBVIOUS
  <2>1. i + 1 \in 1..Len(M) /\ M[i + 1].kind = "confirmed" /\ i + 1 # 1
    BY <1>2
  <2> QED
    BY <1>3, <2>1
<1>5. x.call \in {"open", "failed"}
  BY <1>1 DEF Orderly
<1> QED
  BY <1>2, <1>3, <1>4, <1>5 DEF M

LEMMA FirstOnly == \A i \in 1..1 : i = 1
OBVIOUS

LEMMA AnswerLine ==
  ASSUME NEW l \in Line, NEW x, NEW p, NEW w \in World, Subscribed(l, x, p, w), x.call = "sent", NEW y,
         \E messages \in {<< [kind |-> "confirmed"] >>, << [kind |-> "unsaid"] >>, Ok(News(l, w))} :
           /\ y = [x EXCEPT !.call = "open", !.messages = messages]
           /\ messages = << [kind |-> "confirmed"] >> => l \in Signals
  PROVE  Subscribed(l, y, p, w)
<1>1. /\ l \notin p.subscribed /\ x.messages = << >>
      /\ DOMAIN x = {"call", "messages", "query"} /\ x.query \in {"none", "sent", "lost"}
  BY DEF Subscribed, Orderly, Subscription
<1>2. ASSUME NEW m \in Message(l), m.kind \in {"confirmed", "unsaid"},
             y = [x EXCEPT !.call = "open", !.messages = << m >>]
      PROVE  Subscribed(l, y, p, w)
  <2>1. /\ DOMAIN y = {"call", "messages", "query"} /\ y.call = "open" /\ y.messages = << m >>
        /\ y.query \in {"none", "sent", "lost"}
    BY <1>1, <1>2
  <2>2. << m >> \in Seq(Message(l)) /\ Len(<< m >>) = 1 /\ << m >>[1] = m
    OBVIOUS
  <2>3. y \in Subscription(l)
    BY <1>2, <2>2 DEF Subscribed, Subscription
  <2>4. AsksAgain(y.messages)
    BY <1>2, <2>1, <2>2 DEF AsksAgain
  <2>5. Orderly(l, y, p)
    <3>1. \A i \in 1..Len(y.messages) : i = 1
      <4>1. y.messages = << m >>
        BY <2>1
      <4>2. Len(y.messages) = 1
        BY <2>2, <4>1, Zenon
      <4> QED
        BY <4>2, FirstOnly, Zenon
    <3>2. y.call \notin {"none", "sent"} /\ y.call # "sent"
      BY <2>1
    <3> QED
      BY <1>1, <3>1, <3>2 DEF Orderly
  <2> QED
    BY <2>3, <2>4, <2>5 DEF Subscribed, Follows
<1>3. ASSUME y = [x EXCEPT !.call = "open", !.messages = Ok(News(l, w))]
      PROVE  Subscribed(l, y, p, w)
  <2> DEFINE z == [x EXCEPT !.call = "open", !.messages = << >>, !.query = "sent"]
  <2>1. Subscribed(l, z, p, w)
    BY <1>1 DEF Subscribed, Subscription, Orderly, Follows
  <2>2. z.call = "open" /\ z.messages = << >>
    BY <1>1
  <2> HIDE DEF z
  <2>3. Ok(News(l, w)) \in Seq(Message(l))
    BY NewsTell
  <2>4. y.messages = z.messages \o Ok(News(l, w)) /\ y.call = "open"
    <3>1. y.messages = Ok(News(l, w)) /\ y.call = "open"
      BY <1>1, <1>3
    <3>2. \A o \in Seq(Message(l)) : << >> \o o = o
      OBVIOUS
    <3> QED
      BY <2>2, <2>3, <3>1, <3>2
  <2>5. y \in [call : {"none", "sent", "open", "failed"}, messages : {y.messages},
               query : {"none", "sent", "lost"}]
    BY <1>3 DEF Subscribed, Subscription
  <2> QED
    BY <2>1, <2>2, <2>4, <2>5, SubscribedNews
<1>4. [kind |-> "unsaid"] \in Message(l) /\ (l \in Signals => [kind |-> "confirmed"] \in Message(l))
  BY DEF Message
<1> QED
  BY <1>2, <1>3, <1>4

LEMMA AnswerQueryLine ==
  ASSUME NEW l \in Line, NEW x, NEW p, NEW w \in World, Subscribed(l, x, p, w), NEW y,
         y = [x EXCEPT !.query = "none",
                       !.messages = IF x.call = "open" THEN @ \o Ok(News(l, w)) ELSE @]
  PROVE  Subscribed(l, y, p, w)
<1>1. x \in Subscription(l) /\ Orderly(l, x, p)
  BY DEF Subscribed
<1>2. CASE x.call = "open"
  <2>1. y.call = "open" /\ y.messages = x.messages \o Ok(News(l, w))
    BY <1>1, <1>2 DEF Subscription
  <2>2. y \in [call : {"none", "sent", "open", "failed"}, messages : {y.messages},
               query : {"none", "sent", "lost"}]
    BY <1>1 DEF Subscription
  <2> QED
    BY <1>2, <2>1, <2>2, SubscribedNews
<1>3. CASE x.call # "open"
  <2>1. y = [x EXCEPT !.query = "none"]
    BY <1>1, <1>3 DEF Subscription
  <2>2. y \in Subscription(l) /\ y.call = x.call /\ y.messages = x.messages
    BY <1>1, <2>1 DEF Subscription
  <2> QED
    BY <1>1, <1>3, <2>2 DEF Subscribed, Orderly, Follows
<1> QED
  BY <1>2, <1>3

LEMMA FailLine ==
  ASSUME NEW l \in Line, NEW x, NEW p, NEW w, Subscribed(l, x, p, w), NEW kind \in {"transient", "permanent"},
         NEW y, y = [x EXCEPT !.call = "failed", !.messages = Append(@, [kind |-> kind])]
  PROVE  Subscribed(l, y, p, w)
<1> DEFINE m == [kind |-> kind]
           M == x.messages
<1>1. x \in Subscription(l) /\ M \in Seq(Message(l)) /\ Orderly(l, x, p)
  BY DEF Subscribed, Subscription
<1>2. m \in Message(l) /\ m.kind # "confirmed"
  BY DEF Message
<1>3. y = [x EXCEPT !.call = "failed", !.messages = Append(M, m)]
  OBVIOUS
<1> HIDE DEF m, M
<1>4. /\ Append(M, m) \in Seq(Message(l)) /\ Len(M) \in Nat /\ Len(Append(M, m)) = Len(M) + 1
      /\ \A i \in 1..Len(M) : Append(M, m)[i] = M[i]
      /\ Append(M, m)[Len(M) + 1] = m
  BY <1>1, <1>2
<1>5. y \in Subscription(l) /\ y.call = "failed" /\ y.messages = Append(M, m)
  BY <1>1, <1>3, <1>4 DEF Subscription
<1>6. ASSUME NEW i \in 1..Len(Append(M, m)), Append(M, m)[i].kind = "confirmed"
      PROVE  i = 1 /\ l \notin p.subscribed
  <2>1. i \in 1..Len(M) /\ M[i].kind = "confirmed"
    BY <1>2, <1>4, <1>6
  <2> QED
    BY <1>1, <2>1 DEF Orderly, M
<1> QED
  BY <1>5, <1>6 DEF Subscribed, Orderly, Follows

\* The line is closed, and may be asked for again.
LEMMA ClosedLine ==
  ASSUME NEW l \in Line, NEW x, NEW p, NEW r, NEW w, Subscribed(l, x, p, w), l \notin r.subscribed,
         NEW call \in {"none", "sent"}, NEW y, y = [x EXCEPT !.call = call, !.messages = << >>]
  PROVE  Subscribed(l, y, r, w)
<1>1. y \in Subscription(l) /\ y.call = call /\ y.messages = << >>
  <2>1. << >> \in Seq(Message(l))
    OBVIOUS
  <2> QED
    BY <2>1 DEF Subscribed, Subscription
<1> QED
  BY <1>1 DEF Subscribed, Orderly, Follows

LEMMA ConfirmedLine ==
  ASSUME NEW l \in Line, NEW x, NEW p, NEW r, NEW w, Subscribed(l, x, p, w),
         x.messages # << >>, Head(x.messages).kind = "confirmed",
         NEW y, y = [x EXCEPT !.messages = Tail(@), !.query = IF l \in p.subscribed THEN @ ELSE "sent"]
  PROVE  Subscribed(l, y, r, w) /\ l \in Signals
<1>1. /\ Head(x.messages) \in Message(l)
      /\ Tail(x.messages) \in Seq(Message(l))
      /\ \A i \in 1..Len(Tail(x.messages)) : Tail(x.messages)[i].kind # "confirmed"
      /\ x.call \in {"open", "failed"} /\ l \notin p.subscribed
  BY SubscribedTail
<1>2. y = [x EXCEPT !.messages = Tail(x.messages), !.query = "sent"]
  BY <1>1 DEF Subscribed, Subscription
<1>3. /\ y \in Subscription(l) /\ y.call = x.call /\ y.messages = Tail(x.messages)
      /\ y.query = "sent"
  BY <1>1, <1>2 DEF Subscribed, Subscription
<1>4. l \in Signals
  BY <1>1 DEF Message
<1> QED
  BY <1>1, <1>3, <1>4 DEF Subscribed, Orderly, Follows

LEMMA ReceiveLine ==
  ASSUME NEW l \in Line, NEW x, NEW p, NEW r, NEW w \in World, Subscribed(l, x, p, w),
         x.messages # << >>, Head(x.messages).kind = "ok", r.subscribed = p.subscribed,
         Heard(r, l, Head(x.messages).news), Stands(p, r, l, Head(x.messages).news),
         NEW y, y = [x EXCEPT !.messages = Tail(@)]
  PROVE  Subscribed(l, y, r, w)
<1> DEFINE M == x.messages
<1>1. /\ x.messages[1] = Head(x.messages)
      /\ Tail(x.messages) \in Seq(Message(l))
      /\ \A i \in 1..Len(Tail(x.messages)) : Tail(x.messages)[i].kind # "confirmed"
      /\ x.call \in {"open", "failed"} /\ Len(x.messages) > 0
  BY SubscribedTail
<1>2. /\ y \in Subscription(l) /\ y.call = x.call /\ y.messages = Tail(x.messages)
      /\ y.query = x.query /\ M \in Seq(Message(l))
  BY <1>1 DEF Subscribed, Subscription
<1>3. Orderly(l, y, r)
  BY <1>1, <1>2 DEF Orderly
<1>4. ASSUME NEW topic \in Topics(l), x.call = "open", x.query = "none"
      PROVE  Told(l, Tail(M), r, w, topic)
  <2>1. ~AsksAgain(M)
    BY <1>1 DEF AsksAgain
  <2>2. Told(l, M, p, w, topic)
    BY <1>4, <2>1 DEF Subscribed, Follows
  <2>3. Latest(l, w, topic) \in NewsOf(l) /\ Topic(l, Latest(l, w, topic)) = topic
    BY DEF Latest, News, NewsOf, Topic, Topics, World, Line
  <2>4. /\ Topic(l, Head(M).news) # topic /\ Heard(p, l, Latest(l, w, topic))
        => Heard(r, l, Latest(l, w, topic))
    <3>1. {l, l} # {"platformQuery", "networkStatusQuery"}
      <4>1. "platformQuery" # l \/ "networkStatusQuery" # l
        OBVIOUS
      <4> QED
        BY <4>1
    <3> QED
      BY <2>3, <3>1 DEF Stands
  <2> HIDE DEF M
  <2>5. M # << >> /\ Head(M).kind = "ok" /\ Heard(r, l, Head(M).news)
    BY DEF M
  <2> QED
    BY <1>2, <2>2, <2>4, <2>5, ToldTail
<1> QED
  BY <1>2, <1>3, <1>4 DEF Subscribed, Follows

-----------------------------------------------------------------------------
(* Every step keeps the invariant.                                         *)

LEMMA LatestIs ==
  ASSUME NEW l \in Line, NEW w \in World, NEW topic \in Topics(l)
  PROVE  Latest(l, w, topic) \in NewsOf(l)
BY DEF Latest, News, NewsOf, Topics, World, Line

\* A step on line l, which becomes y.
LEMMA LineStep ==
  ASSUME ProxiesInv, NEW l \in Line, NEW y, lines' = [lines EXCEPT ![l] = y],
         State(Now', {}), LevelsMatch(prox'), ChargersMatch(prox'), UNCHANGED world,
         Subscribed(l, y, prox', world), y.call # "none" => lines[l].call # "none",
         \A k \in Line \ {l} :
           /\ k \in prox'.subscribed => k \in prox.subscribed
           /\ \A n \in NewsOf(k) :
                lines[k].call = "open" /\ Heard(prox, k, n) => Heard(prox', k, n)
  PROVE  ProxiesInv'
<1>1. world \in World /\ DOMAIN lines = Line /\ OneQuery
  BY DEF ProxiesInv
<1>2. DOMAIN lines' = Line /\ lines'[l] = y /\ \A k \in Line \ {l} : lines'[k] = lines[k]
  BY <1>1
<1>3. ASSUME NEW k \in Line \ {l}
      PROVE  Subscribed(k, lines'[k], prox', world')
  <2>1. Subscribed(k, lines[k], prox, world)
    BY DEF ProxiesInv
  <2>2. \A topic \in Topics(k) : Latest(k, world, topic) \in NewsOf(k)
    BY <1>1, LatestIs
  <2>3. Subscribed(k, lines[k], prox', world)
    BY <2>1, <2>2, SubscribedStill
  <2> QED
    BY <1>2, <2>3
<1>4. OneQuery'
  <2>1. "networkStatusQuery" \in Line /\ "platformQuery" \in Line
    BY DEF Line
  <2> QED
    BY <1>1, <1>2, <2>1 DEF OneQuery
<1> QED
  BY <1>1, <1>2, <1>3, <1>4 DEF ProxiesInv

\* Only what is subscribed to changes.
LEMMA SubscribedOnly ==
  ASSUME ProxiesInv, UNCHANGED act, NEW S \in SUBSET Signals, prox' = [prox EXCEPT !.subscribed = S]
  PROVE  /\ State(Now', {}) /\ LevelsMatch(prox') /\ ChargersMatch(prox')
         /\ prox'.subscribed = S /\ \A k \in Line : \A n : Heard(prox, k, n) => Heard(prox', k, n)
<1>1. State(Now, {}) /\ prox \in ProxyState /\ Now.prox = prox /\ Now.act = act
  BY DEF ProxiesInv, State, Now
<1>2. /\ prox' \in ProxyState /\ prox'.subscribed = S
      /\ prox'.met = prox.met /\ prox'.level = prox.level /\ prox'.status = prox.status
      /\ prox'.wifi = prox.wifi /\ prox'.wan = prox.wan /\ prox'.percent = prox.percent
      /\ prox'.usbChargerConnected = prox.usbChargerConnected
      /\ prox'.inductiveChargerConnected = prox.inductiveChargerConnected
      /\ prox'.onPuck = prox.onPuck /\ prox'.bootIssued = prox.bootIssued
  BY <1>1 DEF ProxyState
<1>3. DOMAIN Now' = {"act", "prox"} /\ Now'.act = act /\ Now'.prox = prox'
  BY DEF Now
<1> DEFINE t == Now'
           s == Now
<1>4. State(t, {})
  <2>1. /\ State(s, {}) /\ s.prox = prox /\ s.act = act
        /\ DOMAIN t = {"act", "prox"} /\ t.act = act /\ t.prox = prox'
    BY <1>1, <1>3
  <2> HIDE DEF s, t
  <2> QED
    BY <1>2, <2>1, HiddenState, ZenonT(40)
<1>5. LevelsMatch(prox') /\ ChargersMatch(prox')
  BY <1>2 DEF ProxiesInv, LevelsMatch, ChargersMatch
<1>6. ASSUME NEW k \in Line, NEW n, Heard(prox, k, n)
      PROVE  Heard(prox', k, n)
  <2>1. Reports(prox, n) => Reports(prox', n)
    BY <1>2 DEF Reports
  <2> QED
    BY <1>2, <1>6, <2>1 DEF Heard, Line
<1> QED
  BY <1>2, <1>4, <1>5, <1>6

\* Nothing but line l changes.
LEMMA LineOnly ==
  ASSUME ProxiesInv, NEW l \in Line, NEW y, lines' = [lines EXCEPT ![l] = y],
         UNCHANGED <<act, prox, world>>,
         Subscribed(l, y, prox, world), y.call # "none" => lines[l].call # "none"
  PROVE  ProxiesInv'
<1>1. State(Now', {}) /\ LevelsMatch(prox') /\ ChargersMatch(prox')
  BY DEF ProxiesInv, Now
<1> QED
  BY <1>1, LineStep

LEMMA LineIs ==
  ASSUME ProxiesInv, NEW l \in Line
  PROVE  /\ Subscribed(l, lines[l], prox, world) /\ world \in World
         /\ DOMAIN lines[l] = {"call", "messages", "query"} /\ DOMAIN lines = Line
BY DEF ProxiesInv, Subscribed, Subscription

LEMMA AnswerStep ==
  ASSUME ProxiesInv, NEW l \in Line, Answer(l)
  PROVE  ProxiesInv'
<1> DEFINE M == IF l \in Signals THEN << [kind |-> "confirmed"] >>
                ELSE IF l = "platformQuery" /\ ~world.mapcenable THEN << [kind |-> "unsaid"] >>
                ELSE Ok(News(l, world))
           y == [lines[l] EXCEPT !.call = "open", !.messages = M]
<1>1. Subscribed(l, lines[l], prox, world) /\ world \in World
  BY LineIs
<1>2. lines' = [lines EXCEPT ![l] = y] /\ UNCHANGED <<act, prox, world>> /\ lines[l].call = "sent"
  BY DEF Answer
<1>3. Subscribed(l, y, prox, world)
  <2>1. M \in {<< [kind |-> "confirmed"] >>, << [kind |-> "unsaid"] >>, Ok(News(l, world))}
    OBVIOUS
  <2>2. M = << [kind |-> "confirmed"] >> => l \in Signals
    <3>1. ASSUME l \notin Signals
          PROVE  M # << [kind |-> "confirmed"] >>
      <4>1. << [kind |-> "unsaid"] >> # << [kind |-> "confirmed"] >>
        <5>1. << [kind |-> "unsaid"] >>[1].kind # << [kind |-> "confirmed"] >>[1].kind
          OBVIOUS
        <5> QED
          BY <5>1
      <4>2. Ok(News(l, world)) # << [kind |-> "confirmed"] >>
        <5>1. EndsWith(l, Ok(News(l, world)), world)
          BY <1>1, NewsTell
        <5>2. Topics(l) # {}
          BY DEF Topics
        <5>3. \E i \in 1..Len(Ok(News(l, world))) : Ok(News(l, world))[i].kind = "ok"
          BY <5>1, <5>2 DEF EndsWith
        <5>4. \A i \in 1..Len(<< [kind |-> "confirmed"] >>) : << [kind |-> "confirmed"] >>[i].kind # "ok"
          OBVIOUS
        <5> QED
          BY <5>3, <5>4
      <4> QED
        BY <3>1, <4>1, <4>2
    <3> QED
      BY <3>1
  <2> HIDE DEF M
  <2> QED
    BY <1>1, <1>2, <2>1, <2>2, AnswerLine
<1> QED
  BY <1>2, <1>3, LineOnly

LEMMA AnswerQueryStep ==
  ASSUME ProxiesInv, NEW l \in Line, AnswerQuery(l)
  PROVE  ProxiesInv'
<1> DEFINE y == [lines[l] EXCEPT !.query = "none",
                   !.messages = IF lines[l].call = "open" THEN @ \o Ok(News(l, world)) ELSE @]
<1>1. /\ Subscribed(l, lines[l], prox, world) /\ world \in World
      /\ DOMAIN lines[l] = {"call", "messages", "query"}
  BY LineIs
<1>2. lines' = [lines EXCEPT ![l] = y] /\ UNCHANGED <<act, prox, world>>
  BY DEF AnswerQuery
<1>3. y.call = lines[l].call
  BY <1>1
<1>4. Subscribed(l, y, prox, world)
  BY <1>1, AnswerQueryLine
<1> QED
  BY <1>2, <1>3, <1>4, LineOnly

LEMMA LoseQueryStep ==
  ASSUME ProxiesInv, NEW l \in Line, LoseQuery(l)
  PROVE  ProxiesInv'
<1> DEFINE y == [lines[l] EXCEPT !.query = "lost"]
<1>1. Subscribed(l, lines[l], prox, world)
  BY LineIs
<1>2. lines' = [lines EXCEPT ![l] = y] /\ UNCHANGED <<act, prox, world>>
  BY DEF LoseQuery
<1>3. /\ y \in Subscription(l) /\ y.call = lines[l].call /\ y.messages = lines[l].messages
      /\ y.query = "lost"
  BY <1>1 DEF Subscribed, Subscription
<1>4. Subscribed(l, y, prox, world)
  BY <1>1, <1>3 DEF Subscribed, Orderly, Follows
<1> QED
  BY <1>2, <1>3, <1>4, LineOnly

LEMMA FailStep ==
  ASSUME ProxiesInv, NEW l \in Line, NEW kind \in Faults, Fail(l, kind)
  PROVE  ProxiesInv'
<1> DEFINE y == [lines[l] EXCEPT !.call = "failed", !.messages = Append(@, [kind |-> kind])]
<1>1. Subscribed(l, lines[l], prox, world)
  BY LineIs
<1>2. /\ lines' = [lines EXCEPT ![l] = y] /\ UNCHANGED <<act, prox, world>>
      /\ lines[l].call # "none"
  BY DEF Fail
<1>3. kind \in {"transient", "permanent"}
  BY ProxiesAssumption DEF Fail, FaultName
<1>4. Subscribed(l, y, prox, world)
  BY <1>1, <1>3, FailLine
<1> QED
  BY <1>2, <1>4, LineOnly

\* A line is closed, for good or to be asked for again.
LEMMA CloseStep ==
  ASSUME ProxiesInv, NEW l \in Line, Resubscribe(l) \/ GiveUp(l)
  PROVE  ProxiesInv'
<1>1. /\ Subscribed(l, lines[l], prox, world) /\ world \in World
      /\ DOMAIN lines[l] = {"call", "messages", "query"} /\ lines[l].messages # << >>
  BY LineIs DEF Resubscribe, GiveUp
<1>2. PICK call \in {"none", "sent"} :
        lines' = [lines EXCEPT ![l] = [lines[l] EXCEPT !.call = call, !.messages = << >>]]
  BY DEF Resubscribe, GiveUp
<1> DEFINE y == [lines[l] EXCEPT !.call = call, !.messages = << >>]
           S == prox.subscribed \ {l}
<1>3. UNCHANGED <<act, world>> /\ prox' = [prox EXCEPT !.subscribed = S] /\ S \subseteq Signals
  BY DEF Resubscribe, GiveUp, ProxiesInv, State, Now, ProxyState
<1> HIDE DEF S
<1>4. /\ State(Now', {}) /\ LevelsMatch(prox') /\ ChargersMatch(prox')
      /\ prox'.subscribed = S /\ \A k \in Line : \A n : Heard(prox, k, n) => Heard(prox', k, n)
  BY <1>3, SubscribedOnly
<1>5. lines[l].call # "none"
  BY <1>1 DEF Subscribed, Orderly
<1>6. Subscribed(l, y, prox', world)
  BY <1>1, <1>4, ClosedLine DEF S
<1>7. \A k \in Line : k \in prox'.subscribed => k \in prox.subscribed
  BY <1>4 DEF S
<1> QED
  BY <1>2, <1>3, <1>4, <1>5, <1>6, <1>7, LineStep

LEMMA ConfirmedStep ==
  ASSUME ProxiesInv, NEW l \in Line, Confirmed(l)
  PROVE  ProxiesInv'
<1> DEFINE y == [lines[l] EXCEPT !.messages = Tail(@),
                                 !.query = IF l \in prox.subscribed THEN @ ELSE "sent"]
           S == prox.subscribed \cup {l}
<1>1. /\ Subscribed(l, lines[l], prox, world) /\ world \in World
      /\ DOMAIN lines[l] = {"call", "messages", "query"} /\ lines[l].messages # << >>
      /\ Head(lines[l].messages).kind = "confirmed"
  BY LineIs DEF Confirmed
<1>2. /\ lines' = [lines EXCEPT ![l] = y] /\ UNCHANGED <<act, world>>
      /\ prox' = [prox EXCEPT !.subscribed = S]
  BY DEF Confirmed
<1>3. Subscribed(l, y, prox', world) /\ l \in Signals
  <2> DEFINE x == lines[l]
             p == prox
             r == prox'
             w == world
  <2>1. /\ Subscribed(l, x, p, w) /\ x.messages # << >> /\ Head(x.messages).kind = "confirmed"
        /\ y = [x EXCEPT !.messages = Tail(@), !.query = IF l \in p.subscribed THEN @ ELSE "sent"]
    BY <1>1
  <2> HIDE DEF x, p, r, w, y
  <2>2. Subscribed(l, y, r, w) /\ l \in Signals
    BY <2>1, ConfirmedLine
  <2> QED
    BY <2>2 DEF r, w
<1>4. S \subseteq Signals
  BY <1>3 DEF ProxiesInv, State, Now, ProxyState
<1> HIDE DEF S
<1>5. /\ State(Now', {}) /\ LevelsMatch(prox') /\ ChargersMatch(prox')
      /\ prox'.subscribed = S /\ \A k \in Line : \A n : Heard(prox, k, n) => Heard(prox', k, n)
  BY <1>2, <1>4, SubscribedOnly
<1>6. lines[l].call # "none"
  BY <1>1 DEF Subscribed, Orderly
<1>7. \A k \in Line \ {l} : k \in prox'.subscribed => k \in prox.subscribed
  BY <1>5 DEF S
<1> QED
  BY <1>2, <1>3, <1>5, <1>6, <1>7, LineStep

LEMMA ReceiveStep ==
  ASSUME ProxiesInv, NEW l \in Line, NEW room, Receive(l, room)
  PROVE  ProxiesInv'
<1> DEFINE y == [lines[l] EXCEPT !.messages = Tail(@)]
           m == Head(lines[l].messages)
           t == Hear(Now, l, m, room)
<1>1. /\ Subscribed(l, lines[l], prox, world) /\ world \in World
      /\ DOMAIN lines[l] = {"call", "messages", "query"} /\ lines[l].messages # << >>
      /\ m.kind = "ok"
  BY LineIs DEF Receive
<1>2. lines' = [lines EXCEPT ![l] = y] /\ UNCHANGED world /\ act' = t.act /\ prox' = t.prox
  BY DEF Receive, Become
<1>3. m \in Message(l) /\ lines[l].call \in {"open", "failed"}
  BY <1>1, SubscribedTail
<1>4. m.news \in NewsOf(l)
  BY <1>1, <1>3 DEF Message
<1>5. State(Now, {}) /\ Now.prox = prox /\ LevelsMatch(prox) /\ ChargersMatch(prox)
  BY DEF ProxiesInv, Now
<1> DEFINE s == Now
<1> HIDE DEF m
<1>6. /\ State(t, {}) /\ LevelsMatch(t.prox) /\ ChargersMatch(t.prox)
      /\ t.prox.subscribed = prox.subscribed
      /\ Heard(t.prox, l, m.news) /\ Stands(prox, t.prox, l, m.news)
  <2>1. State(s, {}) /\ s.prox = prox /\ LevelsMatch(s.prox) /\ ChargersMatch(s.prox)
    BY <1>5
  <2>2. t = Hear(s, l, m, room)
    OBVIOUS
  <2> HIDE DEF s, t
  <2>3. LET u == Hear(s, l, m, room)
        IN /\ State(u, {}) /\ LevelsMatch(u.prox) /\ ChargersMatch(u.prox)
           /\ u.prox.subscribed = s.prox.subscribed
           /\ Heard(u.prox, l, m.news) /\ Stands(s.prox, u.prox, l, m.news)
    BY <1>4, <2>1, HearState
  <2> QED
    BY <2>1, <2>2, <2>3
<1> HIDE DEF t
<1>7. State(Now', {})
  BY <1>2, <1>6 DEF State, Now
<1>8. Subscribed(l, y, prox', world)
  BY <1>1, <1>2, <1>6, ReceiveLine DEF m
<1>9. ASSUME NEW k \in Line \ {l}, NEW n \in NewsOf(k), lines[k].call = "open", Heard(prox, k, n)
      PROVE  Heard(prox', k, n)
  <2>1. {k, l} # {"platformQuery", "networkStatusQuery"}
    BY <1>3, <1>9 DEF ProxiesInv, OneQuery
  <2> QED
    BY <1>2, <1>6, <1>9, <2>1 DEF Stands
<1>10. y.call = lines[l].call
  BY <1>1
<1> QED
  BY <1>2, <1>6, <1>7, <1>8, <1>9, <1>10, LineStep

LEMMA FallBackStep ==
  ASSUME ProxiesInv, FallBack
  PROVE  ProxiesInv'
<1> DEFINE a == "platformQuery"
           b == "networkStatusQuery"
           y == [lines[a] EXCEPT !.call = "none", !.messages = << >>]
           z == [lines[b] EXCEPT !.call = "sent"]
<1>1. /\ lines' = [lines EXCEPT ![a].call = "none", ![a].messages = << >>, ![b].call = "sent"]
      /\ UNCHANGED <<act, prox, world>> /\ lines[a].messages # << >>
  BY DEF FallBack
<1>2. /\ a \in Line /\ b \in Line /\ a # b /\ DOMAIN lines = Line /\ OneQuery
      /\ Subscribed(a, lines[a], prox, world) /\ Subscribed(b, lines[b], prox, world)
  BY DEF ProxiesInv, Line
<1>3. /\ DOMAIN lines' = Line /\ lines'[a] = y /\ lines'[b] = z
      /\ \A k \in Line : k # a /\ k # b => lines'[k] = lines[k]
  BY <1>1, <1>2
<1>4. a \notin prox.subscribed /\ b \notin prox.subscribed
  BY DEF ProxiesInv, State, Now, ProxyState, Signals
<1>5. lines[b].call = "none" /\ lines[b].messages = << >>
  BY <1>1, <1>2 DEF Subscribed, Orderly, OneQuery
<1>6. Subscribed(a, y, prox, world)
  BY <1>2, <1>4, ClosedLine
<1>7. Subscribed(b, z, prox, world)
  <2>1. z \in Subscription(b) /\ z.call = "sent" /\ z.messages = << >>
    BY <1>2, <1>5 DEF Subscribed, Subscription
  <2> QED
    BY <1>4, <2>1 DEF Subscribed, Orderly, Follows
<1>8. \A k \in Line : Subscribed(k, lines'[k], prox, world)
  BY <1>3, <1>6, <1>7 DEF ProxiesInv
<1>9. y.call = "none"
  BY <1>2 DEF Subscribed, Subscription
<1>10. OneQuery'
  BY <1>3, <1>9 DEF OneQuery
<1>11. State(Now', {})
  BY <1>1 DEF ProxiesInv, Now
<1> QED
  BY <1>1, <1>3, <1>8, <1>10, <1>11 DEF ProxiesInv

LEMMA ChangeStep ==
  ASSUME ProxiesInv, NEW w \in World, NEW changed, Change(w, changed),
         \A k \in Line \ changed : \A topic \in Topics(k) :
           Latest(k, w, topic) = Latest(k, world, topic)
  PROVE  ProxiesInv'
<1>1. /\ world' = w /\ UNCHANGED <<act, prox>>
      /\ lines' = [l \in Line |->
           IF l \in changed /\ lines[l].call = "open"
           THEN [lines[l] EXCEPT !.messages = @ \o Ok(News(l, w))] ELSE lines[l]]
  BY DEF Change
<1>2. ASSUME NEW l \in Line
      PROVE  Subscribed(l, lines'[l], prox, w) /\ lines'[l].call = lines[l].call
  <2> DEFINE x == lines[l]
             y == lines'[l]
  <2>1. Subscribed(l, x, prox, world) /\ x \in Subscription(l)
    BY DEF ProxiesInv, Subscribed
  <2>2. CASE l \in changed /\ x.call = "open"
    <3>1. y = [x EXCEPT !.messages = @ \o Ok(News(l, w))]
      BY <1>1, <2>2
    <3>2. y.call = "open" /\ y.messages = x.messages \o Ok(News(l, w))
      BY <2>1, <2>2, <3>1 DEF Subscription
    <3>3. y \in [call : {"none", "sent", "open", "failed"}, messages : {y.messages},
                 query : {"none", "sent", "lost"}]
      BY <2>1, <3>1 DEF Subscription
    <3> HIDE DEF x, y
    <3>4. Subscribed(l, y, prox, w)
      BY <2>1, <2>2, <3>2, <3>3, SubscribedNews
    <3> QED
      BY <2>2, <3>2, <3>4 DEF x, y
  <2>3. CASE ~(l \in changed /\ x.call = "open")
    <3>1. y = x
      BY <1>1, <2>3
    <3>2. Subscribed(l, x, prox, w)
      BY <2>1, <2>3, SubscribedStill
    <3> QED
      BY <3>1, <3>2
  <2> QED
    BY <2>2, <2>3
<1>3. OneQuery'
  BY <1>2 DEF ProxiesInv, OneQuery, Line
<1>4. State(Now', {})
  BY <1>1 DEF ProxiesInv, Now
<1>5. DOMAIN lines' = Line
  BY <1>1
<1> QED
  BY <1>1, <1>2, <1>3, <1>4, <1>5 DEF ProxiesInv

LEMMA ChangesStep ==
  ASSUME ProxiesInv, Changes
  PROVE  ProxiesInv'
<1>0. world \in World
  BY DEF ProxiesInv
<1>1. ASSUME NEW status \in Statuses, Change([world EXCEPT !.status = status], {"getstatus"})
      PROVE  ProxiesInv'
  <2> DEFINE w == [world EXCEPT !.status = status]
  <2>1. /\ w \in World /\ w.service = world.service /\ w.usb = world.usb
        /\ w.inductive = world.inductive /\ w.percent = world.percent /\ w.booted = world.booted
    BY <1>0, ProxiesAssumption DEF World
  <2> HIDE DEF w
  <2>2. \A k \in Line \ {"getstatus"} : \A topic \in Topics(k) :
          Latest(k, w, topic) = Latest(k, world, topic)
    BY <2>1 DEF Latest, News, Line, Topics
  <2>3. Change(w, {"getstatus"})
    BY <1>1 DEF w
  <2> QED
    BY <2>1, <2>2, <2>3, ChangeStep
<1>2. ASSUME NEW percent \in Percents, Change([world EXCEPT !.percent = percent], {"batteryStatus"})
      PROVE  ProxiesInv'
  <2> DEFINE w == [world EXCEPT !.percent = percent]
  <2>1. /\ w \in World /\ w.service = world.service /\ w.usb = world.usb
        /\ w.inductive = world.inductive /\ w.status = world.status /\ w.booted = world.booted
    BY <1>0, ProxiesAssumption DEF World
  <2> HIDE DEF w
  <2>2. \A k \in Line \ {"batteryStatus"} : \A topic \in Topics(k) :
          Latest(k, w, topic) = Latest(k, world, topic)
    BY <2>1 DEF Latest, News, Line, Topics
  <2>3. Change(w, {"batteryStatus"})
    BY <1>2 DEF w
  <2> QED
    BY <2>1, <2>2, <2>3, ChangeStep
<1>3. ASSUME \/ Change([world EXCEPT !.usb = ~@], {"chargerStatus"})
             \/ Change([world EXCEPT !.inductive = ~@], {"chargerStatus"})
      PROVE  ProxiesInv'
  <2>1. PICK w : /\ w = [world EXCEPT !.usb = ~@] \/ w = [world EXCEPT !.inductive = ~@]
                 /\ Change(w, {"chargerStatus"})
    BY <1>3
  <2>2. /\ w \in World /\ w.service = world.service /\ w.status = world.status
        /\ w.percent = world.percent /\ w.booted = world.booted
    BY <1>0, <2>1 DEF World
  <2>3. \A k \in Line \ {"chargerStatus"} : \A topic \in Topics(k) :
          Latest(k, w, topic) = Latest(k, world, topic)
    BY <2>2 DEF Latest, News, Line, Topics
  <2> QED
    BY <2>1, <2>2, <2>3, ChangeStep
<1>4. ASSUME Change([world EXCEPT !.service = ~@], {"platformQuery", "networkStatusQuery"})
      PROVE  ProxiesInv'
  <2> DEFINE w == [world EXCEPT !.service = ~@]
             changed == {"platformQuery", "networkStatusQuery"}
  <2>1. /\ w \in World /\ w.status = world.status /\ w.usb = world.usb
        /\ w.inductive = world.inductive /\ w.percent = world.percent /\ w.booted = world.booted
    BY <1>0 DEF World
  <2> HIDE DEF w
  <2>2. \A k \in Line \ changed : \A topic \in Topics(k) :
          Latest(k, w, topic) = Latest(k, world, topic)
    BY <2>1 DEF Latest, News, Line, Topics
  <2>3. Change(w, changed)
    BY <1>4 DEF w
  <2> QED
    BY <2>1, <2>2, <2>3, ChangeStep
<1>5. ASSUME Change([world EXCEPT !.booted = ~@], {"getBootStatus"})
      PROVE  ProxiesInv'
  <2> DEFINE w == [world EXCEPT !.booted = ~@]
  <2>1. /\ w \in World /\ w.status = world.status /\ w.usb = world.usb
        /\ w.inductive = world.inductive /\ w.percent = world.percent /\ w.service = world.service
    BY <1>0 DEF World
  <2> HIDE DEF w
  <2>2. \A k \in Line \ {"getBootStatus"} : \A topic \in Topics(k) :
          Latest(k, w, topic) = Latest(k, world, topic)
    BY <2>1 DEF Latest, News, Line, Topics
  <2>3. Change(w, {"getBootStatus"})
    BY <1>5 DEF w
  <2> QED
    BY <2>1, <2>2, <2>3, ChangeStep
<1> QED
  BY <1>1, <1>2, <1>3, <1>4, <1>5 DEF Changes

LEMMA ActivityStep ==
  ASSUME ProxiesInv, NEW a \in Activities,
         \/ \E spec \in Specs : CreateActivity(a, spec) \/ RestartActivity(a, spec)
         \/ ScheduleActivity(a) \/ RunActivity(a)
  PROVE  ProxiesInv'
<1>1. State(Now, {})
  BY DEF ProxiesInv
<1>2. State(Now', {})
  BY <1>1, CreateState, RestartState, ScheduleState, RunState
<1>3. UNCHANGED <<prox, lines, world>>
  BY DEF CreateActivity, RestartActivity, ScheduleActivity, RunActivity
<1> QED
  BY <1>2, <1>3 DEF ProxiesInv, OneQuery

LEMMA ProxiesInit ==
  ASSUME Init
  PROVE  ProxiesInv
<1>1. NoNetwork \in Network
  BY DEF NoNetwork, Network
<1>2. prox \in ProxyState
  BY <1>1 DEF Init, ProxyState, Level, Status
<1>3. \A a \in Activities : Fine(act[a], prox, {})
  <2> SUFFICES ASSUME NEW a \in Activities
               PROVE  Fine(act[a], prox, {})
    OBVIOUS
  <2>1. act[a] = NewActivity
    BY DEF Init
  <2>2. Record(act[a]) /\ Waits(act[a]) /\ act[a].wants = {}
    BY <2>1 DEF NewActivity, Record, OnePerName, Waits
  <2> QED
    BY <2>2 DEF Fine, Knows
<1>4. State(Now, {})
  BY <1>2, <1>3 DEF State, Now, Init
<1>5. LevelsMatch(prox) /\ ChargersMatch(prox)
  BY DEF Init, LevelsMatch, ChargersMatch
<1>6. world \in World
  BY <1>1 DEF Init, World, Status
<1>7. DOMAIN lines = Line /\ OneQuery
  BY DEF Init, OneQuery, Line
<1>8. ASSUME NEW l \in Line
      PROVE  Subscribed(l, lines[l], prox, world)
  <2>1. lines[l] = [call |-> IF l = "networkStatusQuery" THEN "none" ELSE "sent",
                    messages |-> << >>, query |-> "none"]
    BY DEF Init
  <2>2. prox.subscribed = {}
    BY DEF Init
  <2>3. << >> \in Seq(Message(l)) /\ Len(<< >>) = 0
    OBVIOUS
  <2>4. lines[l] \in Subscription(l)
    BY <2>1, <2>3 DEF Subscription
  <2>5. lines[l].call \in {"none", "sent"} /\ lines[l].messages = << >>
    BY <2>1
  <2> QED
    BY <2>2, <2>4, <2>5 DEF Subscribed, Orderly, Follows
<1> QED
  BY <1>4, <1>5, <1>6, <1>7, <1>8 DEF ProxiesInv

LEMMA ProxiesStep ==
  ASSUME ProxiesInv, [Next]_vars
  PROVE  ProxiesInv'
<1>1. CASE UNCHANGED vars
  BY <1>1 DEF vars, ProxiesInv, Now, OneQuery
<1>2. CASE Next
  <2>1. ASSUME NEW l \in Line,
               \/ Answer(l) \/ AnswerQuery(l) \/ LoseQuery(l)
               \/ \E kind \in Faults : Fail(l, kind)
               \/ Resubscribe(l) \/ GiveUp(l) \/ Confirmed(l)
               \/ \E room \in SUBSET Activities : Receive(l, room)
        PROVE  ProxiesInv'
    BY <2>1, AnswerStep, AnswerQueryStep, LoseQueryStep, FailStep, CloseStep, ConfirmedStep,
       ReceiveStep
  <2> QED
    BY <1>2, <2>1, ChangesStep, FallBackStep, ActivityStep DEF Next
<1> QED
  BY <1>1, <1>2

LEMMA ProxiesAlways == Spec => []ProxiesInv
<1>1. Init => ProxiesInv
  BY ProxiesInit
<1>2. ProxiesInv /\ [Next]_vars => ProxiesInv'
  BY ProxiesStep
<1> QED
  BY <1>1, <1>2, PTL DEF Spec

-----------------------------------------------------------------------------
(* Theorems.                                                               *)

\* The state is what its declarations say, and an Activity that is scheduled and
\* not running is ready exactly when everything it requires holds, whatever the
\* proxies hear and however requirements are put in place of others
\* (Activity::RequirementMet, RequirementUnmet and AddRequirement).
THEOREM ReadyKept == Spec => []Consistent
<1>1. ProxiesInv => Consistent
  <2> SUFFICES ASSUME ProxiesInv
               PROVE  TypeOK /\ ReadyWhenMet
    BY DEF Consistent
  <2>1. /\ prox \in ProxyState /\ DOMAIN act = Activities
        /\ \A a \in Activities : Record(act[a]) /\ Waits(act[a]) /\ Knows(act[a], prox, {})
    BY DEF ProxiesInv, State, Now, Fine
  <2>2. \A l \in Line : lines[l] \in Subscription(l)
    BY DEF ProxiesInv, Subscribed
  <2>3. TypeOK
    <3>1. prox.met \subseteq Requirement
      BY <2>1, CoreIs DEF ProxyState
    <3> QED
      BY <2>1, <2>2, <3>1 DEF TypeOK, Record, ProxyState, Subscription
  <2>4. ASSUME NEW a \in Activities, act[a].scheduled, ~act[a].running
        PROVE  act[a].ready <=> \A q \in act[a].wants :
                                  IF q \in SystemManagerRequirement THEN q \in act[a].met
                                  ELSE Holds(prox, q)
    <3>1. act[a].ready <=> act[a].met = act[a].wants
      BY <2>1, <2>4 DEF Waits
    <3>2. \A q \in act[a].wants : q \notin SystemManagerRequirement =>
            (q \in act[a].met <=> Holds(prox, q))
      BY <2>1 DEF Knows, Aware
    <3>3. act[a].met \subseteq act[a].wants
      BY <2>1 DEF Record
    <3> QED
      BY <3>1, <3>2, <3>3
  <2> QED
    BY <2>3, <2>4 DEF ReadyWhenMet
<1> QED
  BY <1>1, ProxiesAlways, PTL

\* What the subscribers of an Activity were last shown is the present state of
\* every requirement that is met (Requirement::Updated, Activity::RequirementUpdated).
THEOREM EventsCurrent == Spec => []LastEventIsCurrent
<1>1. ProxiesInv => LastEventIsCurrent
  BY DEF ProxiesInv, State, Now, Fine, Record, Knows, Seen, LastEventIsCurrent
<1> QED
  BY <1>1, ProxiesAlways, PTL

\* A proxy whose subscription is open, with nothing under way, makes of the device
\* what the daemon knows: neither failures nor subscribing again, nor a query after
\* the signal, leave it behind (PowerdProxy::BatteryStatusSignal and the others).
THEOREM Agreement == Spec => []QuietAgrees
<1>1. ProxiesInv => QuietAgrees
  <2> SUFFICES ASSUME ProxiesInv, NEW l \in Line, Quiet(l)
               PROVE  Agrees(l)
    BY DEF QuietAgrees
  <2>1. Subscribed(l, lines[l], prox, world) /\ ChargersMatch(prox) /\ world \in World
    BY DEF ProxiesInv
  <2>2. lines[l].call = "open" /\ lines[l].query = "none" /\ Len(lines[l].messages) = 0
    BY DEF Quiet
  <2>3. \A topic \in Topics(l) : Heard(prox, l, Latest(l, world, topic))
    BY <2>1, <2>2 DEF Subscribed, Follows, AsksAgain, Told
  <2>4. CASE l = "getstatus"
    BY <2>3, <2>4 DEF Topics, Heard, Latest, News, Reports, Agrees
  <2>5. CASE l \in {"platformQuery", "networkStatusQuery", "getBootStatus"}
    BY <2>3, <2>5 DEF Topics, Heard, Latest, News, Agrees
  <2>6. CASE l = "chargerStatus"
    BY <2>1, <2>3, <2>6 DEF Topics, Heard, Latest, News, Agrees, ChargersMatch
  <2>7. CASE l = "batteryStatus"
    BY <2>3, <2>7 DEF Topics, Heard, Latest, News, Agrees
  <2> QED
    BY <2>4, <2>5, <2>6, <2>7 DEF Line
<1> QED
  BY <1>1, ProxiesAlways, PTL
=============================================================================
