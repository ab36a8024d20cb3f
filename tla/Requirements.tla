------------------------------ MODULE Requirements ------------------------------
(***************************************************************************)
(* What Activities require of the device (Requirement.cpp,                 *)
(* RequirementManager.cpp and Activity.cpp), and what each proxy believes  *)
(* of it.  Operations are functions of the whole state s = [act, prox].    *)
(*                                                                         *)
(* A requirement is <<name, value>>; "true" is 1.  The Activity is reduced *)
(* to what requirements hold up: whether it is scheduled, ready, running.  *)
(***************************************************************************)
EXTENDS Integers, FiniteSetsExt

CONSTANT Activities

Kind == {"internet", "wifi", "wan"}

ConfidenceName ==
  [internet |-> "internetConfidence", wifi |-> "wifiConfidence", wan |-> "wanConfidence"]

\* ConnectionConfidenceUnknown is -1, and there are four levels above it.
Level == -1..3

\* The requirements each manager registers, with the values it takes.
ConnectionManagerRequirement ==
  (Kind \X {1}) \cup ({ConfidenceName[k] : k \in Kind} \X (0..3))
TelephonyRequirement     == {<<"telephony", 1>>}
PowerdRequirement        == ({"charging", "docked"} \X {1}) \cup ({"battery"} \X (0..100))
SystemManagerRequirement == {<<"bootup", 1>>}
DefaultRequirement       == {<<"never", 1>>}

Requirement ==
  ConnectionManagerRequirement \cup TelephonyRequirement \cup PowerdRequirement
    \cup SystemManagerRequirement \cup DefaultRequirement

\* What the master manager can instantiate: without a modem the telephony
\* proxy is never added.
Instantiable(modem) ==
  Requirement \ (IF modem THEN {} ELSE TelephonyRequirement)

\* Requirements of m's names, one for each.
OnePerName(spec) == \A q, o \in spec : q[1] = o[1] => q = o

NewActivity ==
  [wants |-> {}, met |-> {}, shown |-> << >>,
   created |-> FALSE, scheduled |-> FALSE, ready |-> FALSE, running |-> FALSE]

\* Op of v, with v evaluated once.
Then(v, Op(_)) == CHOOSE r \in {Op(x) : x \in {v}} : TRUE

-----------------------------------------------------------------------------
(* Requirements and their cores.                                           *)

\* IsMet of a requirement when it is instantiated.  Only the bootup and never
\* cores are never met.
Holds(p, q) == IF q[1] = "battery" THEN p.percent >= q[2] ELSE q \in p.met

\* ToJson of a requirement, for its current state.
CurrentValue(p, q) ==
  CASE q[1] = "battery"  -> p.percent
    [] q[1] = "internet" -> p.status
    [] q[1] = "wifi"     -> p.wifi
    [] q[1] = "wan"      -> p.wan
    [] \E k \in Kind : q[1] = ConfidenceName[k] ->
         p.level[CHOOSE k \in Kind : q[1] = ConfidenceName[k]]
    [] OTHER             -> q \in p.met

\* An event: subscribers see the current state of every requirement.
BroadcastEvent(r, p) == [r EXCEPT !.shown = [q \in r.wants |-> CurrentValue(p, q)]]

\* IsRunnable, as far as requirements go.
IsRunnable(r) == r.scheduled /\ r.met = r.wants

\* RequestRunActivity: the Manager runs the Activity at once if it has room.
RequestRunActivity(r, room) == [r EXCEPT !.ready = TRUE, !.running = room]

\* Activity::RequirementMet; the Requirement did not know yet.
RequirementMet(r, q, p, room) ==
  LET m == BroadcastEvent([r EXCEPT !.met = @ \cup {q}], p)
  IN IF ~m.running /\ ~m.ready /\ IsRunnable(m) THEN RequestRunActivity(m, room) ELSE m

\* Mutant of RequirementUnmet: an Activity that is ready stays so.
RequirementUnmetLate(r, q, p) == BroadcastEvent([r EXCEPT !.met = @ \ {q}], p)

\* Activity::RequirementUnmet.
RequirementUnmet(r, q, p) ==
  BroadcastEvent([r EXCEPT !.met = @ \ {q}, !.ready = @ /\ r.running], p)

\* Met, Unmet and Updated, called for each requirement in the lists Q, which are
\* all of one name: no Activity has two of them.
Met(s, Q, room) ==
  [s EXCEPT !.act = [a \in Activities |->
     IF Q \cap (@[a].wants \ @[a].met) = {} THEN @[a]
     ELSE RequirementMet(@[a], CHOOSE q \in Q : q \in @[a].wants, s.prox, a \in room)]]

Unmet(s, Q) ==
  [s EXCEPT !.act = [a \in Activities |->
     IF Q \cap @[a].met = {} THEN @[a]
     ELSE RequirementUnmet(@[a], CHOOSE q \in Q : q \in @[a].met, s.prox)]]

Updated(s, Q) ==
  [s EXCEPT !.act = [a \in Activities |->
     IF Q \cap @[a].wants = {} THEN @[a] ELSE BroadcastEvent(@[a], s.prox)]]

\* Mutant of SetCore: a core that stays met has nothing to report.
SetCoreQuietly(s, q, holds, updated, room) ==
  IF holds = (q \in s.prox.met) THEN s
  ELSE IF holds THEN Met([s EXCEPT !.prox.met = @ \cup {q}], {q}, room)
  ELSE Unmet([s EXCEPT !.prox.met = @ \ {q}], {q})

\* A core is met or unmet, and its requirements told, when it changes; while it
\* is met they are told of a new current value.
SetCore(s, q, holds, updated, room) ==
  IF holds = (q \in s.prox.met) THEN IF holds /\ updated THEN Updated(s, {q}) ELSE s
  ELSE IF holds THEN Met([s EXCEPT !.prox.met = @ \cup {q}], {q}, room)
  ELSE Unmet([s EXCEPT !.prox.met = @ \ {q}], {q})

-----------------------------------------------------------------------------
(* The Activity's requirements.                                            *)

Named(S, names) == {q \in S : q[1] \in names}

Names(S) == {q[1] : q \in S}

\* AddRequirement, for each of spec: it takes the place of the one with its name.
AddRequirements(r, spec, p) ==
  LET met == {q \in spec : Holds(p, q)}
  IN [r EXCEPT !.wants = (@ \ Named(@, Names(spec))) \cup spec,
               !.met   = (@ \ Named(@, Names(spec))) \cup met,
               !.ready = @ /\ (r.running \/ met = spec)]

\* RemoveRequirement, for each of names; the Activity may go ahead once what is
\* met is all that is left.
RemoveRequirements(r, names, room) ==
  LET m == [r EXCEPT !.wants = @ \ Named(@, names), !.met = @ \ Named(@, names)]
  IN IF m.wants # r.wants /\ ~m.running /\ ~m.ready /\ IsRunnable(m)
     THEN RequestRunActivity(m, room) ELSE m

\* MojoJsonConverter::UpdateRequirements: added first, so that an Activity does
\* not pass for one without requirements.
UpdateRequirements(r, spec, removed, p, room) ==
  RemoveRequirements(AddRequirements(r, spec, p), removed, room)
=============================================================================
