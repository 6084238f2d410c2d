------------------------------- MODULE NextRun -------------------------------
(***************************************************************************)
(* computeNextRun: the next time a schedule is due, in a time zone with    *)
(* daylight saving time.  The unit is one hour, so that the second added   *)
(* to "from" makes the comparison strict; a day is counted from day 0, a   *)
(* month has MonthLength days.                                             *)
(***************************************************************************)
EXTENDS Integers, FiniteSets

CONSTANTS
    MonthLength,  \* bound of the model: days of a month
    Horizon       \* the days ahead that are tried, 370 in the code

\* The days that are tried reach past a week and past a month.
ASSUME NextRunAssumption ==
    /\ MonthLength \in Nat \ {0} /\ Horizon \in Nat
    /\ Horizon > 7 /\ Horizon > MonthLength

Hours == 24

Zone == [offset: Int, summer: Int, winter: Int]

\* The days among which a schedule of a frequency names one.
Period(frequency) ==
    CASE frequency = "daily" -> 1 [] frequency = "weekly" -> 7 [] frequency = "monthly" -> MonthLength

\* The arguments of computeNextRun.
Query ==
    {q \in [zone: Zone, hour: 0 .. Hours - 1, from: Int, frequency: {"daily", "weekly", "monthly"}, day: Nat] :
        q.day < Period(q.frequency)}

-----------------------------------------------------------------------------
(* A zone is ahead of UTC by offset, and by one hour more from the instant *)
(* summer to the instant winter.                                           *)

Offset(zone, instant) ==
    IF zone.summer <= instant /\ instant < zone.winter THEN zone.offset + 1 ELSE zone.offset

LocalHour(zone, instant) == instant + Offset(zone, instant)

\* Faulty variant of ZonedToUtc: the offset of the first guess is final.
ZonedToUtcOnce(zone, day, hour) ==
    LET guess == day * Hours + hour
    IN  guess - Offset(zone, guess)

\* zonedDateToUtc: the offset is looked up twice.
ZonedToUtc(zone, day, hour) ==
    LET guess == day * Hours + hour
        first == guess - Offset(zone, guess)
    IN  guess - Offset(zone, first)

\* The days that a frequency allows.
Matches(query, day) ==
    CASE query.frequency = "daily" -> TRUE
      [] query.frequency = "weekly" -> day % 7 = query.day
      [] query.frequency = "monthly" -> day % MonthLength = query.day

LocalDay(zone, instant) == LocalHour(zone, instant) \div Hours

\* The loop of computeNextRun: the first day whose candidate is later, also if
\* a later day had an earlier one.
ComputeNextRun(query) ==
    LET today == LocalDay(query.zone, query.from)
        Fits(i) == /\ Matches(query, today + i)
                   /\ ZonedToUtc(query.zone, today + i, query.hour) > query.from
        first == CHOOSE i \in 0 .. Horizon :
                    Fits(i) /\ \A j \in 0 .. Horizon : Fits(j) => i <= j
    IN  ZonedToUtc(query.zone, today + first, query.hour)

-----------------------------------------------------------------------------
(* What the next run should be                                             *)

\* The wall clock of the zone shows the hour that was asked for, unless that
\* hour is skipped on the day.
ShowsHour(query, instant) ==
    \/ LocalHour(query.zone, instant) % Hours = query.hour
    \/ \A u \in instant - 2 .. instant + 2 : LocalHour(query.zone, u) % Hours # query.hour

\* No run is skipped: whatever days around are tried, no earlier candidate lies
\* between the run and the instant it was computed from.
NothingBetween(query, instant) ==
    LET today == LocalDay(query.zone, query.from) IN
    \A day \in today - 2 .. today + Horizon :
        Matches(query, day) =>
            LET candidate == ZonedToUtc(query.zone, day, query.hour)
            IN  candidate <= query.from \/ instant <= candidate

\* The next run is later than the instant it is computed from, at the hour the
\* schedule asks for, and it leaves no run out.
NextRunIsRight(query) ==
    LET run == ComputeNextRun(query)
    IN  query.from < run /\ ShowsHour(query, run) /\ NothingBetween(query, run)
=============================================================================
