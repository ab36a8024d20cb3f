--------------------------------- MODULE Power ---------------------------------
(***************************************************************************)
(* The power lock of one Activity (PowerdPowerActivity.cpp, PowerManager.  *)
(* cpp), the calls it has under way with the power daemon, and the daemon. *)
(* A call that is replaced or reset is cancelled: its reply is not heard,  *)
(* but the daemon still gets the request.                                  *)
(*                                                                         *)
(* The Activity is reduced to what drives its power: running, ending, and  *)
(* whether db8 has stored what it was asked to.                            *)
(***************************************************************************)
EXTENDS Naturals, Sequences

CONSTANTS
  Faults,      \* what may go wrong, out of FaultName
  MaxRequests  \* bound: requests unread by the daemon when the Activity runs

\* An error reply; the daemon restarting; a call that cannot be put together;
\* and one that cannot be sent, whose error nobody looks at.
FaultName == {"error", "restart", "local", "send"}

ASSUME FaultsAssumption == Faults \subseteq FaultName

VARIABLES
  power,    \* the PowerdPowerActivity and its Activity
  daemon,   \* the lock as the daemon has it; "lost" if it dropped it unasked
  debounce, \* m_powerDebounce of the Activity
  renew     \* the build renews locks (ACTIVITYMANAGER_RENEW_POWER_ACTIVITIES)

vars == <<power, daemon, debounce, renew>>

Call == {"start", "debounce", "end"}

PowerActivity ==
  [current  : {"PowerUnlocked", "PowerUnknown", "PowerLocked"},
   target   : {"PowerUnlocked", "PowerLocked"},
   call     : Call \cup {"none"},        \* m_call
   reply    : {"none", "ok", "error"},   \* the reply to it, under way
   requests : Seq(Call),                 \* what the daemon has yet to read
   timeout  : {"none", "idle", "armed"}, \* m_timeout
   links    : Nat,                       \* m_listItem in m_poweredActivities
   faked    : BOOLEAN, \* (history) the unlock that counts was never sent
   running  : BOOLEAN,
   ending   : BOOLEAN]

Init ==
  /\ power = [current |-> "PowerUnlocked", target |-> "PowerUnlocked",
              call |-> "none", reply |-> "none", requests |-> << >>,
              timeout |-> "none", links |-> 0, faked |-> FALSE,
              running |-> FALSE, ending |-> FALSE]
  /\ daemon = "none"
  /\ debounce \in BOOLEAN
  /\ renew \in BOOLEAN

-----------------------------------------------------------------------------
(* Calls to the daemon.                                                    *)

\* How a call to the daemon may go: sent, not put together, or not sent.
Outcome ==
  {"sent"} \cup (IF "local" \in Faults THEN {"local"} ELSE {})
           \cup (IF "send" \in Faults THEN {"send"} ELSE {})

\* m_call.reset().
ResetCall(p) == [p EXCEPT !.call = "none", !.reply = "none"]

\* A new call replaces, and so cancels, the one under way; one that could not be
\* sent will never be answered.
Send(p, call, outcome) ==
  IF outcome = "send" THEN ResetCall(p)
  ELSE [p EXCEPT !.call = call, !.reply = "none", !.requests = Append(@, call)]

\* Activity::EndActivity's last part: the power is off.
Finish(p, stored) ==
  IF stored THEN [p EXCEPT !.running = FALSE, !.ending = FALSE] ELSE p

\* Mutant of PowerUnlocked: the Manager is not told.
PowerUnlockedUnconfirmed(p, stored) ==
  LET q == [p EXCEPT !.current = "PowerUnlocked"]
  IN IF q.ending THEN Finish(q, stored) ELSE q

\* The power counts as unlocked: Activity::PowerUnlockedNotification and
\* ConfirmPowerActivityEnd.
PowerUnlocked(p, stored) ==
  LET q == [p EXCEPT !.current = "PowerUnlocked", !.links = 0]
  IN IF q.ending THEN Finish(q, stored) ELSE q

\* The power counts as locked, and the Activity runs unless it is ending.
PowerLocked(p) == [p EXCEPT !.current = "PowerLocked"]

\* PowerdPowerActivity::Begin.
BeginPower(p, outcome) ==
  LET q == [ResetCall(p) EXCEPT !.timeout = "none", !.target = "PowerLocked",
                                !.current = "PowerUnknown", !.faked = FALSE]
  IN IF "PowerLocked" \in {p.current, p.target} THEN p
     ELSE IF outcome = "local" THEN PowerLocked(q)  \* so that it does not stall
     ELSE Send(q, "start", outcome)

Unlock == IF debounce THEN "debounce" ELSE "end"

\* Mutant of EndPower: the timeout stays armed.
EndPowerTicking(p, outcome, stored) ==
  LET q == [ResetCall(p) EXCEPT !.target = "PowerUnlocked", !.current = "PowerUnknown"]
  IN IF "PowerUnlocked" \in {p.current, p.target} THEN p
     ELSE IF outcome = "local" THEN PowerUnlocked([q EXCEPT !.faked = TRUE], stored)
     ELSE Send(q, Unlock, outcome)

\* PowerdPowerActivity::End.
EndPower(p, outcome, stored) ==
  LET q == [ResetCall(p) EXCEPT !.timeout = "none", !.target = "PowerUnlocked",
                                !.current = "PowerUnknown"]
  IN IF "PowerUnlocked" \in {p.current, p.target} THEN p
     ELSE IF outcome = "local" THEN PowerUnlocked([q EXCEPT !.faked = TRUE], stored)
     ELSE Send(q, Unlock, outcome)

-----------------------------------------------------------------------------
(* What the Activity does.                                                 *)

\* RunActivity and RequestBeginPowerActivity: the Activity joins the list
\* whether or not it is on it.
RunActivity ==
  /\ ~power.running
  /\ Len(power.requests) < MaxRequests
  /\ \E outcome \in Outcome :
       LET p == [power EXCEPT !.running = TRUE]
       IN power' = IF p.current = "PowerLocked" THEN p
                   ELSE BeginPower([p EXCEPT !.links = @ + 1], outcome)
  /\ UNCHANGED <<daemon, debounce, renew>>

\* EndActivity, once no subscriber is left; and RequestEndPowerActivity.  It is
\* called again and again while the Activity is ending.
EndActivity ==
  /\ power.running
  /\ \E outcome \in Outcome, stored \in BOOLEAN :
       LET p == [power EXCEPT !.ending = TRUE]
       IN power' = IF p.current = "PowerUnlocked" THEN Finish(p, stored)
                   ELSE EndPower(p, outcome, stored)
  /\ UNCHANGED <<daemon, debounce, renew>>

\* DoAdopt: a new parent, and the Activity is not ending any more.
Adopted ==
  /\ power.ending
  /\ power' = [power EXCEPT !.ending = FALSE]
  /\ UNCHANGED <<daemon, debounce, renew>>

-----------------------------------------------------------------------------
(* Replies, and the timeout.                                               *)

\* Mutant of PowerLockedNotification: an error counts as success.
PowerLockedNotificationAnyway ==
  /\ power.call = "start" /\ power.reply # "none"
  /\ power' = [ResetCall(PowerLocked(power)) EXCEPT !.timeout = "armed"]
  /\ UNCHANGED <<daemon, debounce, renew>>

\* The lock is created or renewed; an error is retried at once.
PowerLockedNotification ==
  /\ power.call = "start"
  /\ \/ /\ power.reply = "ok"
        /\ power' = [ResetCall(PowerLocked(power)) EXCEPT !.timeout = "armed"]
     \/ /\ power.reply = "error"
        /\ \E outcome \in Outcome :
             power' = IF outcome = "local" THEN PowerLocked(ResetCall(power))
                      ELSE Send(power, "start", outcome)
  /\ UNCHANGED <<daemon, debounce, renew>>

\* Mutant of PowerUnlockedNotification: an error is as good as an answer.
PowerUnlockedNotificationAnyway ==
  /\ power.call \in {"debounce", "end"} /\ power.reply # "none"
  /\ \E stored \in BOOLEAN : power' = PowerUnlocked(ResetCall(power), stored)
  /\ UNCHANGED <<daemon, debounce, renew>>

\* The lock is given back, or shortened to the debounce duration.
PowerUnlockedNotification ==
  /\ power.call \in {"debounce", "end"}
  /\ \E outcome \in Outcome, stored \in BOOLEAN :
       \/ /\ power.reply = "ok"
          /\ power' = PowerUnlocked(ResetCall(power), stored)
       \/ /\ power.reply = "error"
          /\ power' = IF outcome = "local"
                      THEN PowerUnlocked([ResetCall(power) EXCEPT !.faked = TRUE], stored)
                      ELSE Send(power, power.call, outcome)
  /\ UNCHANGED <<daemon, debounce, renew>>

\* The lock is about to expire.
TimeoutNotification ==
  /\ power.timeout = "armed"
  /\ IF renew
     THEN \E outcome \in Outcome :
            power' = IF outcome = "local" THEN power  \* armed again
                     ELSE Send([power EXCEPT !.timeout = "idle"], "start", outcome)
     ELSE power' = [power EXCEPT !.timeout = "idle"]
  /\ UNCHANGED <<daemon, debounce, renew>>

-----------------------------------------------------------------------------
(* The power daemon.                                                       *)

Effect(call) ==
  CASE call = "start" -> "held" [] call = "debounce" -> "debounced" [] call = "end" -> "none"

\* It reads requests in order; the last one is the call's own, if any.
Read(answer) ==
  power' = [power EXCEPT
              !.requests = Tail(@),
              !.reply = IF Len(power.requests) = 1 /\ power.call # "none" THEN answer ELSE @]

DaemonGrants ==
  /\ power.requests # << >>
  /\ Read("ok")
  /\ daemon' = Effect(Head(power.requests))
  /\ UNCHANGED <<debounce, renew>>

DaemonRefuses ==
  /\ "error" \in Faults
  /\ power.requests # << >>
  /\ Read("error")
  /\ UNCHANGED <<daemon, debounce, renew>>

\* The duration of a lock has passed, or the daemon has restarted.
DaemonForgets ==
  /\ \/ daemon = "debounced"
     \/ daemon = "held" /\ "restart" \in Faults
  /\ daemon' = IF daemon = "held" THEN "lost" ELSE "none"
  /\ UNCHANGED <<power, debounce, renew>>

-----------------------------------------------------------------------------
Next ==
  \/ RunActivity
  \/ EndActivity
  \/ Adopted
  \/ PowerLockedNotification
  \/ PowerUnlockedNotification
  \/ TimeoutNotification
  \/ DaemonGrants
  \/ DaemonRefuses
  \/ DaemonForgets

Safety == Init /\ [][Next]_vars

\* The event loop delivers replies and timeouts; the daemon reads its requests
\* and does not refuse forever.
Spec ==
  /\ Safety
  /\ WF_vars(PowerLockedNotification)
  /\ WF_vars(PowerUnlockedNotification)
  /\ WF_vars(TimeoutNotification)
  /\ WF_vars(DaemonGrants \/ DaemonRefuses)
  /\ SF_vars(DaemonGrants)

-----------------------------------------------------------------------------
(* Properties.                                                             *)

\* The state is what its declarations say, and only a call that is under way has
\* a reply.
TypeOK ==
  /\ power \in PowerActivity
  /\ power.call = "none" => power.reply = "none"
  /\ daemon \in {"none", "held", "debounced", "lost"}
  /\ debounce \in BOOLEAN
  /\ renew \in BOOLEAN

\* The lock as the Activity sees it.
LockState ==
  CASE power.current = "PowerUnlocked" -> "unlocked"
    [] power.current = "PowerLocked"   -> "locked"
    [] power.current = "PowerUnknown"  ->
         IF power.target = "PowerLocked" THEN "locking" ELSE "unlocking"

Lock == INSTANCE PowerLock WITH lock <- LockState

\* Whatever calls fail, are cancelled or cross, the Activity sees the lock it
\* relies on: no notification out of turn, and none owed forever.
ImplementsLock == Lock!Spec

\* A confirmed lock is in the daemon's hands, unless it dropped it by itself:
\* no reply of an older call is taken for the confirmation.
LockedIsHeld ==
  power.current = "PowerLocked" /\ power.timeout # "none" => daemon \in {"held", "lost"}

\* When the Activity's power is off, the daemon holds no lock for it and no
\* request that takes one is still to be read, unless the unlock was faked: a
\* request outlives the call that is cancelled.
UnlockedIsGivenBack ==
  power.current = "PowerUnlocked" /\ ~power.faked =>
    daemon # "held" /\ \A i \in 1..Len(power.requests) : power.requests[i] # "start"

\* The Manager's list has the Activity once while its power is not off, and
\* not otherwise: it is pushed on every request and taken off by one confirmation.
ListedOnce == power.links = IF power.current = "PowerUnlocked" THEN 0 ELSE 1
=============================================================================
