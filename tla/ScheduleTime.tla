----------------------------- MODULE ScheduleTime -----------------------------
(***************************************************************************)
(* When a follow-up is due, when a snooze ends and when sending is open.   *)
(*                                                                         *)
(* Pure functions of whole minutes in a time zone without daylight-saving  *)
(* changes: an instant is the minute since the epoch, a day its number, a  *)
(* clock time the minute of the day.  MCScheduleTime checks them against   *)
(* what their callers rely on.                                             *)
(***************************************************************************)
EXTENDS Integers, FiniteSetsExt

Day == 1440

Instant(d, m) == d * Day + m
DayOf(i) == i \div Day
Clock(i) == i % Day

\* Sunday is 0; day 0 was a Thursday.
Weekday(d) == (d + 4) % 7

-----------------------------------------------------------------------------
(* Dates of a person that come back.                                       *)

DaysInMonth(y, m) ==
    CASE m \in {4, 6, 9, 11} -> 30
      [] m = 2 -> IF y % 4 = 0 /\ (y % 100 # 0 \/ y % 400 = 0) THEN 29 ELSE 28
      [] OTHER -> 31

ClampDate(y, m, d) == <<y, m, Min({Max({d, 1}), DaysInMonth(y, m)})>>

NotAfter(a, b) ==
    \/ a[1] < b[1]
    \/ a[1] = b[1] /\ a[2] < b[2]
    \/ a[1] = b[1] /\ a[2] = b[2] /\ a[3] <= b[3]

\* The dates between two, the first and last included, on which a stored month
\* and day come round.
DateOccurrences(recurrence, month, day, from, to) ==
    {x \in {ClampDate(y, m, day) :
              y \in from[1]..to[1],
              m \in IF recurrence = "YEARLY" THEN {month} ELSE 1..12} :
        NotAfter(from, x) /\ NotAfter(x, to)}

-----------------------------------------------------------------------------
(* Weekends and quiet hours of a prepared follow-up.                       *)

ShiftWeekend(d, rule) ==
    LET saturday == d - ((Weekday(d) + 1) % 7)
    IN  IF rule = "KEEP" \/ Weekday(d) \notin {6, 0} THEN d
        ELSE IF rule = "NEXT_MONDAY" THEN saturday + 2 ELSE saturday - 1

\* Hours that start and end together are none.
IsQuiet(m, start, end) ==
    IF start <= end THEN start <= m /\ m < end ELSE m >= start \/ m < end

OutsideQuietHours(m, start, end) == IF IsQuiet(m, start, end) THEN end ELSE m

\* A calendar-day Beat of a workspace without journey preferences.
PlannedAt(d, m, weekend, start, end) ==
    Instant(ShiftWeekend(d, weekend), OutsideQuietHours(m, start, end))

-----------------------------------------------------------------------------
(* Snoozes.                                                                *)

LaterOutsideQuietHours(d, m, start, end) ==
    IF ~IsQuiet(m, start, end) THEN Instant(d, m)
    ELSE IF start < end \/ m < end THEN Instant(d, end)
    ELSE Instant(d + 1, end)

NextMonday(d) ==
    LET days == (8 - Weekday(d)) % 7 IN d + (IF days = 0 THEN 7 ELSE days)

Presets == {"later-today", "tomorrow", "next-monday", "next-week"}

SnoozeAt(now, preset, preferred, start, end) ==
    LET today == DayOf(now)
        soon == now + 240
        rounded == ((Clock(soon) + 14) \div 15) * 15
        On(d) == LaterOutsideQuietHours(d, preferred, start, end)
    IN  CASE preset = "tomorrow" -> On(today + 1)
          [] preset = "next-week" -> On(today + 7)
          [] preset = "next-monday" -> On(NextMonday(today))
          [] preset = "later-today" ->
                IF DayOf(soon) # today \/ rounded >= Day THEN On(today + 1)
                ELSE LaterOutsideQuietHours(today, rounded, start, end)

-----------------------------------------------------------------------------
(* Working hours: hours.days and hours.from to hours.to, outside the quiet *)
(* hours hours.start to hours.end.                                         *)

Never == -1

\* Rounds that are enough of the 400 the code allows: a week repeats itself.
Rounds == 10

\* Where step leads from i in a few rounds; Never when it does not come to rest.
Rest(step(_), i) ==
    LET after[n \in 0..Rounds] == IF n = 0 THEN i ELSE step(after[n - 1])
        last == after[Rounds]
    IN  IF step(last) = last THEN last ELSE Never

NextJourneyAvailability(at, hours) ==
    LET free(i) == IF Weekday(DayOf(i)) \notin hours.days THEN {}
                   ELSE {m \in Max({hours.from, Clock(i)})..(hours.to - 1) :
                            ~IsQuiet(m, hours.start, hours.end)}
        step(i) == IF free(i) = {} THEN Instant(DayOf(i) + 1, hours.from)
                   ELSE Instant(DayOf(i), Min(free(i)))
    IN  Rest(step, at)

\* The end of the quiet hours that hold at i.
QuietEnd(i, start, end) == LaterOutsideQuietHours(DayOf(i), Clock(i), start, end)

\* When automatic sending first opens for a workspace with these working hours.
SendingOpensAt(from, hours) ==
    LET step(i) == IF IsQuiet(Clock(i), hours.start, hours.end)
                   THEN QuietEnd(i, hours.start, hours.end)
                   ELSE NextJourneyAvailability(i, hours)
    IN  IF NextJourneyAvailability(from, hours) = Never THEN Never ELSE Rest(step, from)

=============================================================================
