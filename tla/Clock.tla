--------------------------------- MODULE Clock ---------------------------------
(***************************************************************************)
(* When a logcat line was written (logcat/ts.ts).  The device stamps lines *)
(* with its local month, day and time, and no year; logcatTsToEpochMs puts *)
(* each in the year that brings it nearest to the start of the session,    *)
(* and undoes the zone's offset at that moment.                            *)
(*                                                                         *)
(* The calendar is a small one: a common year has Year hours and a leap    *)
(* year one more, the stamp LeapStamp, which the common years skip.  Local *)
(* time runs one hour ahead of a zone's base from stamp SummerFrom until   *)
(* stamp SummerTo.                                                         *)
(***************************************************************************)
EXTENDS Integers, FiniteSets

CONSTANTS
    Year, LeapStamp, LeapYears,     \* the calendar
    SummerFrom, SummerTo,           \* daylight saving time
    NoTime                          \* no time

ASSUME CalendarAssumption ==
    /\ Year \in Nat \ {0} /\ LeapStamp \in 0 .. Year
    /\ LeapYears \subseteq Nat
    /\ SummerFrom \in 0 .. Year /\ SummerTo \in SummerFrom .. Year

Stamp == 0 .. Year
Zone  == [base : -2 .. 2, summer : BOOLEAN]

-----------------------------------------------------------------------------
(* Date.UTC: a stamp of a year as an hour.  Like the 29th of February, the *)
(* stamp a common year skips is the hour after it.                         *)
UTC(y, stamp) ==
    LET before == Cardinality({l \in LeapYears : l < y})
        skips  == y \notin LeapYears /\ stamp > LeapStamp
    IN  Year * y + before + (IF skips THEN stamp - 1 ELSE stamp)

(* The stamp of the hour that follows so many of its year.                 *)
StampIn(y, hours) ==
    IF y \notin LeapYears /\ hours >= LeapStamp THEN hours + 1 ELSE hours

YearOf(t) == CHOOSE y \in 0 .. t \div Year : UTC(y, 0) <= t /\ t < UTC(y + 1, 0)

(* The year and the stamp of an hour.                                      *)
PartsOf(t) ==
    LET y == YearOf(t) IN [year |-> y, stamp |-> StampIn(y, t - UTC(y, 0))]

Summer(t, zone) ==
    zone.summer /\ PartsOf(t + zone.base).stamp \in SummerFrom .. SummerTo - 1

PartsInZone(t, zone) ==
    PartsOf(t + zone.base + (IF Summer(t, zone) THEN 1 ELSE 0))

UTCOf(parts) == UTC(parts.year, parts.stamp)

TimeZoneOffset(t, zone) == UTCOf(PartsInZone(t, zone)) - t

(* An hour that was taken for UTC, corrected by the offset twice.          *)
Corrected(guess, zone) ==
    guess - TimeZoneOffset(guess - TimeZoneOffset(guess, zone), zone)

(* The stamp as if it were UTC, corrected, and dropped if that hour does   *)
(* not show this stamp.                                                    *)
LocalPartsToEpoch(y, stamp, zone) ==
    LET epoch == Corrected(UTC(y, stamp), zone)
    IN  IF PartsInZone(epoch, zone) = [year |-> y, stamp |-> stamp]
        THEN epoch ELSE NoTime

(* Mutant: every line is of the year the session began in.                 *)
YearsSame(start, zone) == {PartsInZone(start, zone).year}

Years(start, zone) == {PartsInZone(start, zone).year + k : k \in {-1, 0, 1}}

(* Of two as near the earlier one.                                         *)
Nearest(found, start) ==
    LET away(t) == IF t < start THEN start - t ELSE t - start
    IN  IF found = {} THEN NoTime
        ELSE CHOOSE t \in found :
                \A u \in found \ {t} : away(t) < away(u)
                                       \/ (away(t) = away(u) /\ t < u)

(* logcatTsToEpochMs: the candidate nearest to the session's start.        *)
LogcatTsToEpoch(stamp, start, zone) ==
    Nearest({LocalPartsToEpoch(y, stamp, zone) : y \in Years(start, zone)} \ {NoTime},
            start)

(* What the device prints.                                                 *)
StampOf(t, zone) == PartsInZone(t, zone).stamp

(* An hour whose stamp the clock shows once only that day.                 *)
Unambiguous(t, zone) ==
    \A u \in {t - 1, t + 1} : StampOf(u, zone) # StampOf(t, zone)
=============================================================================
