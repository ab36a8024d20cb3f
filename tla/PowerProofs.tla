------------------------------ MODULE PowerProofs ------------------------------
(***************************************************************************)
(* The power lock of an Activity for every set of faults, unsent calls     *)
(* included: the properties of Power.tla, and its safety as an             *)
(* implementation of PowerLock.tla.                                        *)
(***************************************************************************)
EXTENDS Power, SequenceTheorems, TLAPS

-----------------------------------------------------------------------------
(* The inductive invariant, of the Activity's side p and the daemon's d.   *)

Typed(p, d) ==
  /\ p \in PowerActivity
  /\ p.call = "none" => p.reply = "none"
  /\ d \in {"none", "held", "debounced", "lost"}

\* On the list while its power is not off, which it is while it does not run.
Listed(p) ==
  /\ p.links = IF p.current = "PowerUnlocked" THEN 0 ELSE 1
  /\ ~p.running => p.current = "PowerUnlocked"

Settled(p) ==
  /\ p.current = "PowerLocked" => p.target = "PowerLocked"
  /\ p.current = "PowerUnlocked" => p.target = "PowerUnlocked" /\ p.call = "none"

\* The call under way is one for the target.
Aimed(p) ==
  /\ p.call = "start" => p.target = "PowerLocked"
  /\ p.call \in {"debounce", "end"} => p.target = "PowerUnlocked"

\* What is still to be read ends with the call under way.
CallIsLast(p) ==
  p.call # "none" =>
    IF p.reply # "none" THEN p.requests = << >>
    ELSE p.requests # << >> /\ p.requests[Len(p.requests)] = p.call

\* The daemon has done what it has confirmed.
ReplyIsTrue(p, d) ==
  p.reply = "ok" =>
    IF p.call = "start" THEN d \in {"held", "lost"} ELSE d \in {"debounced", "none"}

\* Once the lock is confirmed only renewals are sent.
Kept(p, d) ==
  p.timeout # "none" =>
    /\ p.current = "PowerLocked" /\ d \in {"held", "lost"}
    /\ \A i \in 1..Len(p.requests) : p.requests[i] = "start"

GivenBack(p, d) ==
  p.current = "PowerUnlocked" /\ ~p.faked => d \in {"debounced", "none"} /\ p.requests = << >>

Good(p, d) ==
  /\ Typed(p, d) /\ Listed(p) /\ Settled(p) /\ Aimed(p) /\ CallIsLast(p)
  /\ ReplyIsTrue(p, d) /\ Kept(p, d) /\ GivenBack(p, d)

Inv ==
  /\ Good(power, daemon)
  /\ debounce \in BOOLEAN
  /\ renew \in BOOLEAN

-----------------------------------------------------------------------------
(* Requests.                                                               *)

\* A request that is sent is the last one, and the others stay as they were.
LEMMA AppendRequest ==
  ASSUME NEW s \in Seq(Call), NEW c \in Call
  PROVE  /\ Append(s, c) \in Seq(Call)
         /\ Append(s, c) # << >>
         /\ Append(s, c)[Len(Append(s, c))] = c
         /\ (\A i \in 1..Len(s) : s[i] = c) =>
              \A i \in 1..Len(Append(s, c)) : Append(s, c)[i] = c
<1>1. Len(Append(s, c)) = Len(s) + 1 /\ Append(s, c)[Len(s) + 1] = c
  BY AppendProperties
<1>2. \A i \in 1..Len(s) : Append(s, c)[i] = s[i]
  BY AppendProperties
<1>3. QED
  BY <1>1, <1>2, AppendProperties

\* The daemon reads the first request: the others follow in their order.
LEMMA ReadRequest ==
  ASSUME NEW s \in Seq(Call), s # << >>
  PROVE  /\ Head(s) \in Call /\ Tail(s) \in Seq(Call)
         /\ Head(s) = s[1]
         /\ Len(s) = 1 <=> Tail(s) = << >>
         /\ Len(s) # 1 => Tail(s)[Len(Tail(s))] = s[Len(s)]
         /\ \A i \in 1..Len(Tail(s)) : Tail(s)[i] = s[i + 1] /\ i + 1 \in 1..Len(s)
<1>1. Len(s) \in Nat /\ Len(s) # 0
  BY EmptySeq
<1>2. Tail(s) \in Seq(Call) /\ Len(Tail(s)) = Len(s) - 1 /\ Head(s) = s[1] /\ Head(s) \in Call
      /\ \A i \in 1..Len(Tail(s)) : Tail(s)[i] = s[i + 1]
  BY HeadTailProperties
<1>3. Tail(s) = << >> <=> Len(Tail(s)) = 0
  BY <1>2, EmptySeq
<1>4. QED
  BY <1>1, <1>2, <1>3

-----------------------------------------------------------------------------
(* What the operations keep.                                               *)

\* A call that is sent, or not, for the target at hand, with the power unknown or
\* about to be renewed.
LEMMA SendKeeps ==
  ASSUME NEW p \in PowerActivity, NEW d, NEW c \in Call, NEW outcome,
         Typed(p, d), Listed(p), Settled(p),
         p.current # "PowerUnlocked",
         p.target = IF c = "start" THEN "PowerLocked" ELSE "PowerUnlocked",
         Kept(p, d)
  PROVE  Good(Send(p, c, outcome), d)
<1> DEFINE q == Send(p, c, outcome)
<1> SUFFICES Good(q, d)
  OBVIOUS
<1>1. /\ q \in PowerActivity
      /\ q.current = p.current /\ q.target = p.target /\ q.timeout = p.timeout
      /\ q.links = p.links /\ q.faked = p.faked /\ q.running = p.running
      /\ q.reply = "none"
      /\ IF outcome = "send" THEN q.call = "none" /\ q.requests = p.requests
         ELSE q.call = c /\ q.requests = Append(p.requests, c)
  BY AppendRequest DEF Send, ResetCall, PowerActivity, Call
<1>2. p.requests \in Seq(Call)
  BY DEF PowerActivity
<1>3. /\ Append(p.requests, c) # << >>
      /\ Append(p.requests, c)[Len(Append(p.requests, c))] = c
      /\ (\A i \in 1..Len(p.requests) : p.requests[i] = c) =>
           \A i \in 1..Len(Append(p.requests, c)) : Append(p.requests, c)[i] = c
  BY <1>2, AppendRequest
<1> HIDE DEF q
<1>4. Typed(q, d) /\ Listed(q) /\ Settled(q) /\ Aimed(q)
  BY <1>1 DEF Typed, Listed, Settled, Aimed, Call
<1>5. CallIsLast(q) /\ ReplyIsTrue(q, d) /\ GivenBack(q, d)
  BY <1>1, <1>3 DEF CallIsLast, ReplyIsTrue, GivenBack
<1>6. Kept(q, d)
  <2>1. CASE p.current = "PowerLocked"
    <3>1. c = "start"
      BY <2>1 DEF Settled
    <3>2. QED
      BY <1>1, <1>3, <3>1 DEF Kept
  <2>2. CASE p.current # "PowerLocked"
    BY <1>1, <2>2 DEF Kept
  <2>3. QED
    BY <2>1, <2>2
<1>7. QED
  BY <1>4, <1>5, <1>6 DEF Good

\* The power counts as unlocked: really so, or only in appearance.
LEMMA UnlockedKeeps ==
  ASSUME NEW p \in PowerActivity, NEW d, NEW stored,
         Typed(p, d), p.target = "PowerUnlocked", p.call = "none", p.timeout = "none",
         p.faked \/ (d \in {"debounced", "none"} /\ p.requests = << >>)
  PROVE  Good(PowerUnlocked(p, stored), d) /\ PowerUnlocked(p, stored).current = "PowerUnlocked"
<1> DEFINE q == PowerUnlocked(p, stored)
<1>1. /\ q \in PowerActivity
      /\ q.current = "PowerUnlocked" /\ q.target = p.target /\ q.timeout = p.timeout
      /\ q.links = 0 /\ q.faked = p.faked /\ q.call = p.call /\ q.reply = p.reply
      /\ q.requests = p.requests
  BY DEF PowerUnlocked, Finish, PowerActivity, Call
<1> HIDE DEF q
<1>2. Good(q, d)
  BY <1>1 DEF Good, Typed, Listed, Settled, Aimed, CallIsLast, ReplyIsTrue, Kept, GivenBack
<1>3. QED
  BY <1>1, <1>2 DEF q

\* The power counts as locked, with no call under way.
LEMMA LockedKeeps ==
  ASSUME NEW p \in PowerActivity, NEW d,
         Typed(p, d), Kept(p, d), p.target = "PowerLocked", p.call = "none",
         p.links = 1, p.running
  PROVE  Good(PowerLocked(p), d) /\ PowerLocked(p).current = "PowerLocked"
<1> DEFINE q == PowerLocked(p)
<1>1. /\ q \in PowerActivity
      /\ q.current = "PowerLocked" /\ q.target = p.target /\ q.timeout = p.timeout
      /\ q.links = p.links /\ q.running = p.running /\ q.call = p.call /\ q.reply = p.reply
      /\ q.requests = p.requests
  BY DEF PowerLocked, PowerActivity, Call
<1> HIDE DEF q
<1>2. Good(q, d)
  BY <1>1 DEF Good, Typed, Listed, Settled, Aimed, CallIsLast, ReplyIsTrue, Kept, GivenBack
<1>3. QED
  BY <1>1, <1>2 DEF q

\* Begin, for an Activity that runs and is on the list, whose power is off.
LEMMA BeginKeeps ==
  ASSUME NEW p \in PowerActivity, NEW d, NEW outcome,
         Typed(p, d), Settled(p), p.current = "PowerUnlocked", p.links = 1, p.running
  PROVE  /\ Good(BeginPower(p, outcome), d)
         /\ BeginPower(p, outcome).target = "PowerLocked"
         /\ BeginPower(p, outcome).current \in {"PowerUnknown", "PowerLocked"}
<1> DEFINE q == [ResetCall(p) EXCEPT !.timeout = "none", !.target = "PowerLocked",
                                     !.current = "PowerUnknown", !.faked = FALSE]
<1>1. BeginPower(p, outcome) = IF outcome = "local" THEN PowerLocked(q)
                               ELSE Send(q, "start", outcome)
  BY DEF BeginPower, Settled
<1>2. /\ q \in PowerActivity
      /\ q.current = "PowerUnknown" /\ q.target = "PowerLocked" /\ q.timeout = "none"
      /\ q.links = 1 /\ q.running /\ q.call = "none" /\ q.reply = "none"
  BY DEF ResetCall, PowerActivity, Call
<1> HIDE DEF q
<1>3. Typed(q, d) /\ Listed(q) /\ Settled(q) /\ Kept(q, d)
  BY <1>2 DEF Typed, Listed, Settled, Kept
<1>4. Send(q, "start", outcome).target = "PowerLocked"
      /\ Send(q, "start", outcome).current = "PowerUnknown"
  BY <1>2 DEF Send, ResetCall, PowerActivity
<1>5. PowerLocked(q).target = "PowerLocked"
  BY <1>2 DEF PowerLocked, PowerActivity
<1>6. Good(Send(q, "start", outcome), d)
  BY <1>2, <1>3, SendKeeps DEF Call
<1>7. QED
  BY <1>1, <1>2, <1>3, <1>4, <1>5, <1>6, LockedKeeps

\* End, for an Activity whose power is not off.
LEMMA EndKeeps ==
  ASSUME NEW p \in PowerActivity, NEW d, NEW outcome, NEW stored,
         Good(p, d), debounce \in BOOLEAN, p.current # "PowerUnlocked"
  PROVE  /\ Good(EndPower(p, outcome, stored), d)
         /\ EndPower(p, outcome, stored).target = "PowerUnlocked"
         /\ EndPower(p, outcome, stored).current \in {"PowerUnknown", "PowerUnlocked"}
<1>1. CASE p.target = "PowerUnlocked"
  BY <1>1 DEF EndPower, Good, Settled, PowerActivity
<1>2. CASE p.target # "PowerUnlocked"
  <2> DEFINE q == [ResetCall(p) EXCEPT !.timeout = "none", !.target = "PowerUnlocked",
                                       !.current = "PowerUnknown"]
             r == [q EXCEPT !.faked = TRUE]
  <2>1. EndPower(p, outcome, stored) = IF outcome = "local" THEN PowerUnlocked(r, stored)
                                       ELSE Send(q, Unlock, outcome)
    BY <1>2 DEF EndPower
  <2>2. /\ q \in PowerActivity
        /\ q.current = "PowerUnknown" /\ q.target = "PowerUnlocked" /\ q.timeout = "none"
        /\ q.links = p.links /\ q.running = p.running /\ q.call = "none" /\ q.reply = "none"
    BY DEF ResetCall, PowerActivity, Call
  <2>3. /\ r \in PowerActivity /\ r.target = "PowerUnlocked" /\ r.timeout = "none"
        /\ r.call = "none" /\ r.reply = "none" /\ r.faked
    BY <2>2 DEF PowerActivity, Call
  <2> HIDE DEF q, r
  <2>4. Unlock \in {"debounce", "end"}
    BY DEF Unlock
  <2>5. Typed(q, d) /\ Listed(q) /\ Settled(q) /\ Kept(q, d) /\ Typed(r, d)
    BY <2>2, <2>3 DEF Good, Typed, Listed, Settled, Kept
  <2>6. Send(q, Unlock, outcome).target = "PowerUnlocked"
        /\ Send(q, Unlock, outcome).current = "PowerUnknown"
    BY <2>2 DEF Send, ResetCall, PowerActivity
  <2>7. Good(Send(q, Unlock, outcome), d)
    BY <2>2, <2>4, <2>5, SendKeeps DEF Call
  <2>8. Good(PowerUnlocked(r, stored), d) /\ PowerUnlocked(r, stored).current = "PowerUnlocked"
    BY <2>3, <2>5, UnlockedKeeps
  <2>9. PowerUnlocked(r, stored).target = "PowerUnlocked"
    BY <2>8 DEF Good, Settled
  <2>10. QED
    BY <2>1, <2>6, <2>7, <2>8, <2>9
<1>3. QED
  BY <1>1, <1>2

-----------------------------------------------------------------------------
(* The steps: each keeps the invariant, and is a step of the abstract lock *)
(* or leaves it as it is.                                                  *)

\* The abstract lock of the Activity's side p.
Abstract(p) ==
  IF p.current = "PowerUnlocked" THEN "unlocked"
  ELSE IF p.current = "PowerLocked" THEN "locked"
  ELSE IF p.target = "PowerLocked" THEN "locking" ELSE "unlocking"

\* What may become of the abstract lock in a step.
Allowed(old, new) ==
  \/ new = old
  \/ old = "unlocked" /\ new \in {"locking", "locked"}
  \/ old = "locking" /\ new = "locked"
  \/ old \in {"locking", "locked"} /\ new \in {"unlocking", "unlocked"}
  \/ old = "unlocking" /\ new = "unlocked"

LEMMA LockIsAbstract ==
  ASSUME power.current \in {"PowerUnlocked", "PowerUnknown", "PowerLocked"}
  PROVE  LockState = Abstract(power)
<1>1. CASE power.current = "PowerUnlocked"
  BY <1>1 DEF LockState, Abstract
<1>2. CASE power.current = "PowerLocked"
  BY <1>2 DEF LockState, Abstract
<1>3. CASE power.current = "PowerUnknown"
  BY <1>3 DEF LockState, Abstract
<1>4. QED
  BY <1>1, <1>2, <1>3

LEMMA RunActivityKeeps ==
  ASSUME Inv, RunActivity
  PROVE  Good(power', daemon') /\ Allowed(Abstract(power), Abstract(power'))
<1> DEFINE q == [power EXCEPT !.running = TRUE]
           p == [q EXCEPT !.links = @ + 1]
<1>1. power.current = "PowerUnlocked" /\ power.links = 0 /\ power.target = "PowerUnlocked"
  BY DEF Inv, Good, Listed, Settled, RunActivity
<1>2. PICK outcome \in Outcome : power' = BeginPower(p, outcome)
  BY <1>1 DEF RunActivity, Inv, Good, Typed, PowerActivity
<1>3. power \in PowerActivity
  BY DEF Inv, Good, Typed
<1>4. /\ p \in PowerActivity
      /\ p.current = power.current /\ p.target = power.target /\ p.links = 1 /\ p.running
      /\ p.call = power.call /\ p.reply = power.reply
  <2>1. /\ q \in PowerActivity
        /\ q.current = power.current /\ q.target = power.target /\ q.links = 0 /\ q.running
        /\ q.call = power.call /\ q.reply = power.reply
    BY <1>1, <1>3 DEF PowerActivity, Call
  <2> HIDE DEF q
  <2>2. QED
    BY <2>1 DEF PowerActivity, Call
<1> HIDE DEF p, q
<1>5. Typed(p, daemon) /\ Settled(p)
  BY <1>1, <1>4 DEF Inv, Good, Typed, Settled
<1>6. Good(power', daemon) /\ power'.target = "PowerLocked"
      /\ power'.current \in {"PowerUnknown", "PowerLocked"}
  BY <1>1, <1>2, <1>4, <1>5, BeginKeeps
<1>7. QED
  BY <1>1, <1>6 DEF Abstract, Allowed, RunActivity

LEMMA EndActivityKeeps ==
  ASSUME Inv, EndActivity
  PROVE  Good(power', daemon') /\ Allowed(Abstract(power), Abstract(power'))
<1> DEFINE p == [power EXCEPT !.ending = TRUE]
<1>1. PICK outcome \in Outcome, stored \in BOOLEAN :
        power' = IF p.current = "PowerUnlocked" THEN Finish(p, stored)
                 ELSE EndPower(p, outcome, stored)
  BY DEF EndActivity
<1>2. daemon' = daemon /\ power \in PowerActivity
  BY DEF EndActivity, Inv, Good, Typed
<1>3. /\ p \in PowerActivity
      /\ p.current = power.current /\ p.target = power.target /\ p.timeout = power.timeout
      /\ p.links = power.links /\ p.running = power.running /\ p.faked = power.faked
      /\ p.call = power.call /\ p.reply = power.reply /\ p.requests = power.requests
  BY <1>2 DEF PowerActivity, Call
<1> HIDE DEF p
<1>4. Good(p, daemon)
  BY <1>3 DEF Inv, Good, Typed, Listed, Settled, Aimed, CallIsLast, ReplyIsTrue, Kept, GivenBack
<1>5. CASE p.current = "PowerUnlocked"
  <2>1. /\ power' \in PowerActivity
        /\ power'.current = p.current /\ power'.target = p.target /\ power'.timeout = p.timeout
        /\ power'.links = p.links /\ power'.faked = p.faked
        /\ power'.call = p.call /\ power'.reply = p.reply /\ power'.requests = p.requests
    <3>1. power' = Finish(p, stored)
      BY <1>1, <1>5
    <3>2. CASE stored
      <4>1. power' = [p EXCEPT !.running = FALSE, !.ending = FALSE]
        BY <3>1, <3>2 DEF Finish
      <4>2. power' \in PowerActivity
        BY <1>3, <4>1 DEF PowerActivity
      <4> QED
        BY <1>3, <4>1, <4>2 DEF PowerActivity
    <3>3. CASE ~stored
      BY <1>3, <3>1, <3>3 DEF Finish
    <3> QED
      BY <3>2, <3>3
  <2>2. Good(power', daemon)
    BY <1>4, <1>5, <2>1
    DEF Good, Typed, Listed, Settled, Aimed, CallIsLast, ReplyIsTrue, Kept, GivenBack
  <2>3. QED
    BY <1>2, <1>3, <2>1, <2>2 DEF Abstract, Allowed
<1>6. CASE p.current # "PowerUnlocked"
  <2>1. debounce \in BOOLEAN
    BY DEF Inv
  <2>2. Good(power', daemon) /\ power'.target = "PowerUnlocked"
        /\ power'.current \in {"PowerUnknown", "PowerUnlocked"}
    BY <1>1, <1>3, <1>4, <1>6, <2>1, EndKeeps
  <2>3. QED
    BY <1>2, <1>3, <1>6, <2>2 DEF Abstract, Allowed, PowerActivity
<1>7. QED
  BY <1>5, <1>6

LEMMA AdoptedKeeps ==
  ASSUME Inv, Adopted
  PROVE  Good(power', daemon') /\ Allowed(Abstract(power), Abstract(power'))
<1>1. daemon' = daemon /\ power \in PowerActivity /\ power' = [power EXCEPT !.ending = FALSE]
  BY DEF Adopted, Inv, Good, Typed
<1> DEFINE q == [power EXCEPT !.ending = FALSE]
<1>2. /\ q \in PowerActivity
      /\ q.current = power.current /\ q.target = power.target /\ q.timeout = power.timeout
      /\ q.links = power.links /\ q.running = power.running /\ q.faked = power.faked
      /\ q.call = power.call /\ q.reply = power.reply /\ q.requests = power.requests
  BY <1>1 DEF PowerActivity, Call
<1> HIDE DEF q
<1>3. Good(q, daemon)
  BY <1>2 DEF Inv, Good, Typed, Listed, Settled, Aimed, CallIsLast, ReplyIsTrue, Kept, GivenBack
<1>4. QED
  BY <1>1, <1>2, <1>3 DEF Abstract, Allowed, q

LEMMA PowerLockedNotificationKeeps ==
  ASSUME Inv, PowerLockedNotification
  PROVE  Good(power', daemon') /\ Allowed(Abstract(power), Abstract(power'))
<1> DEFINE q == ResetCall(power)
<1>1. daemon' = daemon /\ power \in PowerActivity /\ Good(power, daemon)
      /\ power.call = "start" /\ power.target = "PowerLocked"
      /\ power.current \in {"PowerUnknown", "PowerLocked"} /\ power.links = 1 /\ power.running
  BY DEF PowerLockedNotification, Inv, Good, Typed, Aimed, Settled, Listed, PowerActivity
<1>2. /\ q \in PowerActivity
      /\ q.current = power.current /\ q.target = power.target /\ q.timeout = power.timeout
      /\ q.links = 1 /\ q.running /\ q.call = "none" /\ q.reply = "none"
      /\ q.requests = power.requests
  BY <1>1 DEF ResetCall, PowerActivity, Call
<1>3. power'.current = "PowerLocked" \/ (power'.current = power.current /\ power'.target = power.target)
        => Allowed(Abstract(power), Abstract(power'))
  BY <1>1 DEF Allowed, Abstract
<1>4. CASE power.reply = "ok"
  <2> DEFINE r == [ResetCall(PowerLocked(power)) EXCEPT !.timeout = "armed"]
  <2>1. power' = r
    BY <1>4 DEF PowerLockedNotification
  <2>2. power.requests = << >> /\ daemon \in {"held", "lost"}
    BY <1>1, <1>4 DEF Good, CallIsLast, ReplyIsTrue
  <2>3. /\ r \in PowerActivity
        /\ r.current = "PowerLocked" /\ r.target = "PowerLocked" /\ r.timeout = "armed"
        /\ r.links = 1 /\ r.running /\ r.call = "none" /\ r.reply = "none"
        /\ r.requests = << >>
    BY <1>1, <2>2 DEF ResetCall, PowerLocked, PowerActivity, Call
  <2> HIDE DEF r
  <2>4. Len(<< >>) = 0
    BY EmptySeq
  <2>5. Good(r, daemon)
    BY <2>2, <2>3, <2>4
    DEF Good, Typed, Listed, Settled, Aimed, CallIsLast, ReplyIsTrue, Kept, GivenBack
  <2>6. QED
    BY <1>1, <1>3, <2>1, <2>3, <2>5
<1>5. CASE power.reply = "error"
  <2>1. PICK outcome \in Outcome :
          power' = IF outcome = "local" THEN PowerLocked(q) ELSE Send(power, "start", outcome)
    BY <1>5 DEF PowerLockedNotification
  <2> HIDE DEF q
  <2>2. Typed(q, daemon) /\ Kept(q, daemon)
    BY <1>1, <1>2 DEF Good, Typed, Kept
  <2>3. Good(PowerLocked(q), daemon) /\ PowerLocked(q).current = "PowerLocked"
    BY <1>1, <1>2, <2>2, LockedKeeps
  <2>4. Good(Send(power, "start", outcome), daemon)
    BY <1>1, SendKeeps DEF Good, Call
  <2>5. Send(power, "start", outcome).current = power.current
        /\ Send(power, "start", outcome).target = power.target
    BY <1>1 DEF Send, ResetCall, PowerActivity
  <2>6. QED
    BY <1>1, <1>3, <2>1, <2>3, <2>4, <2>5
<1>6. QED
  BY <1>4, <1>5 DEF PowerLockedNotification

LEMMA PowerUnlockedNotificationKeeps ==
  ASSUME Inv, PowerUnlockedNotification
  PROVE  Good(power', daemon') /\ Allowed(Abstract(power), Abstract(power'))
<1> DEFINE q == ResetCall(power)
           r == [q EXCEPT !.faked = TRUE]
<1>1. daemon' = daemon /\ power \in PowerActivity /\ Good(power, daemon)
      /\ power.call \in {"debounce", "end"} /\ power.target = "PowerUnlocked"
      /\ power.current = "PowerUnknown" /\ power.timeout = "none"
  BY DEF PowerUnlockedNotification, Inv, Good, Typed, Aimed, Settled, Kept, PowerActivity
<1>2. /\ q \in PowerActivity
      /\ q.target = "PowerUnlocked" /\ q.timeout = "none"
      /\ q.call = "none" /\ q.reply = "none" /\ q.requests = power.requests
  BY <1>1 DEF ResetCall, PowerActivity, Call
<1>3. /\ r \in PowerActivity
      /\ r.target = "PowerUnlocked" /\ r.timeout = "none" /\ r.faked
      /\ r.call = "none" /\ r.reply = "none"
  BY <1>2 DEF PowerActivity, Call
<1>4. power'.current = "PowerUnlocked" \/ (power'.current = power.current /\ power'.target = power.target)
        => Allowed(Abstract(power), Abstract(power'))
  BY <1>1 DEF Allowed, Abstract
<1>5. PICK outcome \in Outcome, stored \in BOOLEAN :
        \/ power.reply = "ok" /\ power' = PowerUnlocked(q, stored)
        \/ /\ power.reply = "error"
           /\ power' = IF outcome = "local" THEN PowerUnlocked(r, stored)
                       ELSE Send(power, power.call, outcome)
  BY DEF PowerUnlockedNotification
<1> HIDE DEF q, r
<1>6. Typed(q, daemon) /\ Typed(r, daemon)
  BY <1>1, <1>2, <1>3 DEF Good, Typed
<1>7. CASE power.reply = "ok"
  <2>1. power.requests = << >> /\ daemon \in {"debounced", "none"}
    BY <1>1, <1>7 DEF Good, CallIsLast, ReplyIsTrue
  <2>2. Good(PowerUnlocked(q, stored), daemon) /\ PowerUnlocked(q, stored).current = "PowerUnlocked"
    BY <1>2, <1>6, <2>1, UnlockedKeeps
  <2>3. QED
    BY <1>1, <1>4, <1>5, <1>7, <2>2
<1>8. CASE power.reply = "error"
  <2>1. Good(PowerUnlocked(r, stored), daemon) /\ PowerUnlocked(r, stored).current = "PowerUnlocked"
    BY <1>3, <1>6, UnlockedKeeps
  <2>2. Good(Send(power, power.call, outcome), daemon)
    BY <1>1, SendKeeps DEF Good, Call
  <2>3. Send(power, power.call, outcome).current = power.current
        /\ Send(power, power.call, outcome).target = power.target
    BY <1>1 DEF Send, ResetCall, PowerActivity
  <2>4. QED
    BY <1>1, <1>4, <1>5, <1>8, <2>1, <2>2, <2>3
<1>9. QED
  BY <1>5, <1>7, <1>8

LEMMA TimeoutNotificationKeeps ==
  ASSUME Inv, TimeoutNotification
  PROVE  Good(power', daemon') /\ Allowed(Abstract(power), Abstract(power'))
<1> DEFINE q == [power EXCEPT !.timeout = "idle"]
<1>1. daemon' = daemon /\ power \in PowerActivity /\ Good(power, daemon)
      /\ power.timeout = "armed" /\ power.current = "PowerLocked" /\ power.target = "PowerLocked"
  BY DEF TimeoutNotification, Inv, Good, Typed, Kept, Settled
<1>2. /\ q \in PowerActivity
      /\ q.current = power.current /\ q.target = power.target /\ q.timeout = "idle"
      /\ q.links = power.links /\ q.running = power.running /\ q.faked = power.faked
      /\ q.call = power.call /\ q.reply = power.reply /\ q.requests = power.requests
  BY <1>1 DEF PowerActivity, Call
<1>3. \/ power' = power
      \/ power' = q
      \/ \E outcome \in Outcome : power' = Send(q, "start", outcome)
  BY DEF TimeoutNotification
<1> HIDE DEF q
<1>4. Good(q, daemon)
  BY <1>1, <1>2 DEF Good, Typed, Listed, Settled, Aimed, CallIsLast, ReplyIsTrue, Kept, GivenBack
<1>5. ASSUME NEW outcome PROVE Good(Send(q, "start", outcome), daemon)
  BY <1>1, <1>2, <1>4, SendKeeps DEF Good, Call
<1>6. ASSUME NEW outcome PROVE Send(q, "start", outcome).current = "PowerLocked"
  BY <1>1, <1>2 DEF Send, ResetCall, PowerActivity
<1>7. power'.current = "PowerLocked"
  BY <1>1, <1>2, <1>3, <1>6
<1>8. QED
  BY <1>1, <1>3, <1>4, <1>5, <1>7 DEF Abstract, Allowed

\* The daemon reads a request, and does what it says or refuses it.
LEMMA ReadKeeps ==
  ASSUME Inv, power.requests # << >>, NEW answer \in {"ok", "error"}, Read(answer),
         answer = "ok" => daemon' = Effect(Head(power.requests)),
         answer = "error" => daemon' = daemon
  PROVE  Good(power', daemon') /\ Abstract(power') = Abstract(power)
<1> DEFINE reply == IF Len(power.requests) = 1 /\ power.call # "none" THEN answer ELSE power.reply
           q == [power EXCEPT !.requests = Tail(@), !.reply = reply]
<1>1. power \in PowerActivity /\ Good(power, daemon) /\ power' = q
  BY DEF Inv, Good, Typed, Read
<1>2. power.requests \in Seq(Call)
  BY <1>1 DEF PowerActivity
<1>3. /\ Head(power.requests) \in Call /\ Tail(power.requests) \in Seq(Call)
      /\ Head(power.requests) = power.requests[1]
      /\ Len(power.requests) = 1 <=> Tail(power.requests) = << >>
      /\ Len(power.requests) # 1 =>
           Tail(power.requests)[Len(Tail(power.requests))] = power.requests[Len(power.requests)]
      /\ \A i \in 1..Len(Tail(power.requests)) :
           Tail(power.requests)[i] = power.requests[i + 1] /\ i + 1 \in 1..Len(power.requests)
  BY <1>2, ReadRequest
<1>4. /\ q \in PowerActivity
      /\ q.current = power.current /\ q.target = power.target /\ q.timeout = power.timeout
      /\ q.links = power.links /\ q.running = power.running /\ q.faked = power.faked
      /\ q.call = power.call /\ q.reply = reply /\ q.requests = Tail(power.requests)
  BY <1>1, <1>3 DEF PowerActivity, Call
<1>5. power.call # "none" => power.reply = "none" /\ power.requests[Len(power.requests)] = power.call
  BY <1>1 DEF Good, CallIsLast
<1>6. power.call = "none" => power.reply = "none"
  BY <1>1 DEF Good, Typed
<1>7. daemon' \in {"none", "held", "debounced", "lost"}
  BY <1>1, <1>3 DEF Good, Typed, Effect, Call
<1>8. daemon' = IF answer = "error" THEN daemon
                ELSE IF Head(power.requests) = "start" THEN "held"
                ELSE IF Head(power.requests) = "debounce" THEN "debounced" ELSE "none"
  BY <1>3 DEF Effect, Call
<1> HIDE DEF q
<1>9. Typed(q, daemon') /\ Listed(q) /\ Settled(q) /\ Aimed(q)
  BY <1>1, <1>4, <1>7 DEF Good, Typed, Listed, Settled, Aimed
<1>10. CallIsLast(q)
  BY <1>3, <1>4, <1>5 DEF CallIsLast
<1>11. ReplyIsTrue(q, daemon')
  <2>1. SUFFICES ASSUME q.reply = "ok"
                 PROVE  IF q.call = "start" THEN daemon' \in {"held", "lost"}
                        ELSE daemon' \in {"debounced", "none"}
    BY DEF ReplyIsTrue
  <2>2. Len(power.requests) = 1 /\ power.call # "none" /\ answer = "ok"
    BY <1>4, <1>5, <1>6, <2>1
  <2>3. Head(power.requests) = power.call
    BY <1>3, <1>5, <2>2
  <2>4. QED
    BY <1>4, <1>8, <2>2, <2>3
<1>12. Kept(q, daemon')
  <2>1. SUFFICES ASSUME q.timeout # "none"
                 PROVE  /\ q.current = "PowerLocked" /\ daemon' \in {"held", "lost"}
                        /\ \A i \in 1..Len(q.requests) : q.requests[i] = "start"
    BY DEF Kept
  <2>2. /\ power.current = "PowerLocked" /\ daemon \in {"held", "lost"}
        /\ \A i \in 1..Len(power.requests) : power.requests[i] = "start"
    BY <1>1, <1>4, <2>1 DEF Good, Kept
  <2>3. Len(power.requests) \in Nat \ {0}
    BY <1>2, EmptySeq
  <2>4. Head(power.requests) = "start"
    BY <1>3, <2>2, <2>3
  <2>5. \A i \in 1..Len(q.requests) : q.requests[i] = "start"
    BY <1>3, <1>4, <2>2
  <2>6. QED
    BY <1>4, <1>8, <2>2, <2>4, <2>5
<1>13. GivenBack(q, daemon')
  BY <1>1, <1>4 DEF Good, GivenBack
<1>14. QED
  BY <1>1, <1>4, <1>9, <1>10, <1>11, <1>12, <1>13 DEF Good, Abstract

LEMMA DaemonForgetsKeeps ==
  ASSUME Inv, DaemonForgets
  PROVE  Good(power, daemon')
BY DEF DaemonForgets, Inv, Good, Typed, ReplyIsTrue, Kept, GivenBack

-----------------------------------------------------------------------------
(* The theorems.                                                           *)

LEMMA InitInv == Init => Inv
<1> SUFFICES ASSUME Init PROVE Inv
  OBVIOUS
<1>1. power \in PowerActivity
  BY EmptySeq DEF Init, PowerActivity, Call
<1>2. Good(power, daemon)
  BY <1>1 DEF Init, Good, Typed, Listed, Settled, Aimed, CallIsLast, ReplyIsTrue, Kept, GivenBack
<1>3. QED
  BY <1>2 DEF Inv, Init

LEMMA NextInv == Inv /\ [Next]_vars => Inv' /\ Allowed(Abstract(power), Abstract(power'))
<1> SUFFICES ASSUME Inv, [Next]_vars
             PROVE  Inv' /\ Allowed(Abstract(power), Abstract(power'))
  OBVIOUS
<1>1. ASSUME Good(power', daemon'), Allowed(Abstract(power), Abstract(power')),
             debounce' = debounce, renew' = renew
      PROVE  Inv' /\ Allowed(Abstract(power), Abstract(power'))
  BY <1>1 DEF Inv, Good, Typed, Listed, Settled, Aimed, CallIsLast, ReplyIsTrue, Kept, GivenBack
<1>2. CASE RunActivity
  BY <1>1, <1>2, RunActivityKeeps DEF RunActivity
<1>3. CASE EndActivity
  BY <1>1, <1>3, EndActivityKeeps DEF EndActivity
<1>4. CASE Adopted
  BY <1>1, <1>4, AdoptedKeeps DEF Adopted
<1>5. CASE PowerLockedNotification
  BY <1>1, <1>5, PowerLockedNotificationKeeps DEF PowerLockedNotification
<1>6. CASE PowerUnlockedNotification
  BY <1>1, <1>6, PowerUnlockedNotificationKeeps DEF PowerUnlockedNotification
<1>7. CASE TimeoutNotification
  BY <1>1, <1>7, TimeoutNotificationKeeps DEF TimeoutNotification
<1>8. CASE DaemonGrants
  <2>1. Good(power', daemon') /\ Abstract(power') = Abstract(power)
    BY <1>8, ReadKeeps DEF DaemonGrants
  <2>2. QED
    BY <1>1, <1>8, <2>1 DEF DaemonGrants, Allowed
<1>9. CASE DaemonRefuses
  <2>1. Good(power', daemon') /\ Abstract(power') = Abstract(power)
    BY <1>9, ReadKeeps DEF DaemonRefuses
  <2>2. QED
    BY <1>1, <1>9, <2>1 DEF DaemonRefuses, Allowed
<1>10. CASE DaemonForgets
  BY <1>1, <1>10, DaemonForgetsKeeps DEF DaemonForgets, Allowed
<1>11. CASE UNCHANGED vars
  BY <1>1, <1>11 DEF vars, Allowed, Inv
<1>12. QED
  BY <1>2, <1>3, <1>4, <1>5, <1>6, <1>7, <1>8, <1>9, <1>10, <1>11 DEF Next

LEMMA Invariance == Safety => []Inv
<1>1. Inv /\ [Next]_vars => Inv'
  BY NextInv
<1>2. QED
  BY InitInv, <1>1, PTL DEF Safety

\* The state is what its declarations say, whatever calls fail or cross.
THEOREM TypeCorrect == Safety => []TypeOK
<1>1. Inv => TypeOK
  BY DEF Inv, Good, Typed, TypeOK
<1>2. QED
  BY <1>1, Invariance, PTL

\* The Manager's list never has the Activity twice, and never lacks it while its
\* power is not off.
THEOREM Listing == Safety => []ListedOnce
<1>1. Inv => ListedOnce
  BY DEF Inv, Good, Listed, ListedOnce
<1>2. QED
  BY <1>1, Invariance, PTL

\* A confirmed lock is in the daemon's hands.
THEOREM Confirmed == Safety => []LockedIsHeld
<1>1. Inv => LockedIsHeld
  BY DEF Inv, Good, Kept, LockedIsHeld
<1>2. QED
  BY <1>1, Invariance, PTL

\* An Activity whose power is off leaves no lock behind, except one whose release
\* could not be asked for.
THEOREM NothingLeft == Safety => []UnlockedIsGivenBack
<1>1. Inv => UnlockedIsGivenBack
  <2>1. SUFFICES ASSUME Inv, power.current = "PowerUnlocked", ~power.faked
                 PROVE  /\ daemon # "held"
                        /\ \A i \in 1..Len(power.requests) : power.requests[i] # "start"
    BY DEF UnlockedIsGivenBack
  <2>2. daemon \in {"debounced", "none"} /\ power.requests = << >>
    BY <2>1 DEF Inv, Good, GivenBack
  <2>3. Len(<< >>) = 0
    BY EmptySeq
  <2>4. QED
    BY <2>2, <2>3
<1>2. QED
  BY <1>1, Invariance, PTL

\* The code is a lock as Activity.cpp relies on it: every step of the calls, the
\* replies and the timeout is a step of PowerLock or leaves the lock as it is.
THEOREM Refinement == Safety => Lock!Safety
<1>1. Init => Lock!Init
  BY DEF Init, Lock!Init, LockState
<1>2. Inv => LockState = Abstract(power)
  BY LockIsAbstract DEF Inv, Good, Typed, PowerActivity
<1>3. Inv' => (LockState = Abstract(power))'
  BY <1>2, PTL
<1>4. Inv /\ Inv' /\ [Next]_vars => [Lock!Next]_LockState
  <2>1. SUFFICES ASSUME Inv, Inv', [Next]_vars PROVE [Lock!Next]_LockState
    OBVIOUS
  <2>2. Allowed(Abstract(power), Abstract(power'))
    BY <2>1, NextInv
  <2>3. LockState = Abstract(power)
    BY <1>2, <2>1
  <2>4. LockState' = Abstract(power')
    BY <1>3, <2>1
  <2>5. QED
    BY <2>2, <2>3, <2>4
    DEF Allowed, Lock!Next, Lock!Begin, Lock!Locked, Lock!End, Lock!Unlocked
<1>5. QED
  BY <1>1, <1>4, Invariance, PTL DEF Safety, Lock!Safety
=============================================================================
