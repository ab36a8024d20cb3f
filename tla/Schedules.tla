------------------------------- MODULE Schedules -------------------------------
(***************************************************************************)
(* When a scheduled Activity is to start: Schedule.cpp, IntervalSchedule.  *)
(* cpp and what MojoJsonConverter.cpp accepts as a schedule.               *)
(*                                                                         *)
(* Times are seconds. A time as a client writes it is a pair of the time   *)
(* and whether it ends in 'Z'; the text itself is left out.                *)
(***************************************************************************)
EXTENDS Integers

CONSTANTS
  DayOne,     \* Schedule::DAY_ONE: no start time was given
  SmartBase,  \* m_smartBase: chosen at random at each boot
  Word        \* 2^32: an unsigned wraps there

ASSUME WordAssumption == Word \in Nat \ {0}
ASSUME TimesAssumption == DayOne \in Nat /\ SmartBase \in Nat

Never == -1       \* Schedule::NEVER
Unbounded == -1   \* Schedule::UNBOUNDED
Error == [error |-> TRUE]

Unsigned(x) == x % Word

-----------------------------------------------------------------------------
(* Intervals.                                                              *)

\* A duration, as written: 1d2h3m4s.
Duration == [days : Nat, hours : Nat, minutes : Nat, seconds : Nat]

Seconds(d) == d.seconds + d.minutes * 60 + d.hours * 3600 + d.days * 86400

\* What a schedule without a precise start may have as its interval.
SmartInterval == {60 * m : m \in {5, 10, 15, 20, 30, 60, 180, 360, 720}}

\* Refused: no seconds.
StringToInterval(d, smart) ==
  IF Seconds(d) = 0 THEN 0
  ELSE IF smart /\ Seconds(d) \notin SmartInterval /\ Seconds(d) % 86400 # 0 THEN 0
  ELSE Seconds(d)

IntervalToString(interval) ==
  [seconds |-> interval % 60,
   minutes |-> (interval \div 60) % 60,
   hours   |-> (interval \div 3600) % 24,
   days    |-> interval \div 86400]

-----------------------------------------------------------------------------
(* Schedules.                                                              *)

\* What a client asks for.
Specification ==
  [recurs : BOOLEAN, start : Int, startUTC : BOOLEAN, end : Int, endUTC : BOOLEAN,
   interval : Duration, precise : BOOLEAN, relative : BOOLEAN, skip : BOOLEAN,
   local : {"none", "yes", "no"}]

Schedule ==
  [kind : {"once", "precise", "smart", "relative"}, start : Int, end : Int,
   interval : Nat \ {0}, skip : BOOLEAN, local : BOOLEAN]

\* Whether the times are local: those given say so, and "local" overrules it.
IsLocal(spec) ==
  IF spec.local # "none" THEN spec.local = "yes"
  ELSE IF spec.start # DayOne THEN ~spec.startUTC
  ELSE IF spec.end # Unbounded THEN ~spec.endUTC
  ELSE TRUE

\* MojoJsonConverter::CreateSchedule: the schedule a specification stands for,
\* or Error.
CreateSchedule(spec) ==
  LET interval == StringToInterval(spec.interval, ~spec.precise)
      schedule == [kind     |-> IF spec.relative THEN "relative"
                                ELSE IF spec.precise THEN "precise" ELSE "smart",
                   start    |-> spec.start,
                   end      |-> spec.end,
                   interval |-> interval,
                   skip     |-> spec.skip,
                   local    |-> IsLocal(spec)]
  IN IF ~spec.recurs
     THEN IF spec.start = DayOne THEN Error
          ELSE [schedule EXCEPT !.kind = "once", !.interval = 1, !.end = Unbounded,
                                !.skip = FALSE]
     ELSE IF interval = 0 THEN Error
     ELSE IF ~spec.precise /\ (spec.start # DayOne \/ spec.end # Unbounded) THEN Error
     ELSE IF ~spec.precise /\ spec.relative THEN Error
     ELSE IF spec.start # DayOne /\ spec.end # Unbounded /\ spec.startUTC # spec.endUTC
       THEN Error
     ELSE schedule

\* IntervalSchedule::SetLastFinishedTime: only one in the past, and after the
\* start, is accepted.
SetLastFinishedTime(schedule, finished, now) ==
  IF schedule.kind # "once" /\ now > finished /\ finished > schedule.start
  THEN finished ELSE Never

\* InformActivityFinished: the time may have moved back since the start.
InformActivityFinished(schedule, lastFinished, now) ==
  IF schedule.kind # "once" /\ now > schedule.start THEN now ELSE lastFinished

\* GetBaseStartTime, of the kind of interval schedule.
GetBaseStartTime(schedule, lastFinished) ==
  CASE schedule.kind = "smart" -> SmartBase
    [] schedule.kind = "relative" /\ lastFinished # Never -> lastFinished
    [] OTHER -> schedule.start

\* Mutant of NextPoint: the point before now.
NextPointPassed(base, interval, now) ==
  IF now > base THEN base + ((now - base) \div interval) * interval ELSE base

\* The scheduling point after now, or the first one.
NextPoint(base, interval, now) ==
  IF now > base THEN base + ((now - base) \div interval + 1) * interval ELSE base

\* Points passed since it last finished, or started to count.
Slipped(schedule, lastFinished, next) ==
  /\ ~schedule.skip
  /\ IF lastFinished = Never
     THEN schedule.start # DayOne /\ Unsigned(next - schedule.start) > schedule.interval
     ELSE next > lastFinished /\ Unsigned(next - lastFinished) > schedule.interval

\* CalcNextStartTime: the next point, or at once to make up for missed ones.
CalcNextStartTime(schedule, lastFinished, now) ==
  LET next == NextPoint(GetBaseStartTime(schedule, lastFinished), schedule.interval, now)
  IN IF schedule.kind = "once" THEN schedule.start
     ELSE IF Slipped(schedule, lastFinished, next) THEN now
     ELSE next

\* ShouldReschedule: there is time for another run before the end.
ShouldReschedule(schedule, next) ==
  /\ schedule.kind # "once"
  /\ schedule.end = Unbounded \/ Unsigned(schedule.end - next) > schedule.interval
=============================================================================
