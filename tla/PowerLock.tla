------------------------------- MODULE PowerLock -------------------------------
(***************************************************************************)
(* The power of one Activity as Activity.cpp relies on it: RunActivity     *)
(* begins, EndActivity ends, and a notification says when the lock has     *)
(* been taken or given back.  It may come at once.                         *)
(***************************************************************************)
VARIABLE lock  \* "unlocked", "locking", "locked" or "unlocking"

Init == lock = "unlocked"

Begin == lock = "unlocked" /\ lock' \in {"locking", "locked"}

Locked == lock = "locking" /\ lock' = "locked"

End == lock \in {"locking", "locked"} /\ lock' \in {"unlocking", "unlocked"}

Unlocked == lock = "unlocking" /\ lock' = "unlocked"

Next == Begin \/ Locked \/ End \/ Unlocked

Safety == Init /\ [][Next]_lock

\* Neither notification is owed forever.
Spec == Safety /\ WF_lock(Locked \/ Unlocked)
=============================================================================
