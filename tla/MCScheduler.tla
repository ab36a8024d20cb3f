------------------------------ MODULE MCScheduler ------------------------------
(***************************************************************************)
(* Instances of Scheduler for TLC. Intervals are of ten minutes, the       *)
(* clock moves by five, and zones are some minutes apart.                  *)
(***************************************************************************)
EXTENDS Scheduler

For(minutes) == [days |-> 0, hours |-> 0, minutes |-> minutes, seconds |-> 0]

\* A smart interval, as clients ask for it.
Smart == [recurs |-> TRUE, start |-> DayOne, startUTC |-> TRUE, end |-> Unbounded,
          endUTC |-> TRUE, interval |-> For(10), precise |-> FALSE, relative |-> FALSE,
          skip |-> FALSE, local |-> "none"]

Once == [Smart EXCEPT !.recurs = FALSE, !.start = Start + 300]
Precise == [Smart EXCEPT !.precise = TRUE, !.start = Start]
Relative == [Precise EXCEPT !.relative = TRUE]
Uneven == [Smart EXCEPT !.interval = For(7)]   \* refused

CONSTANTS i1, i2

MCSpecs == (i1 :> {Smart, Relative, Uneven}) @@ (i2 :> {Precise, Once})
MCZones == {0, 450}
=============================================================================
