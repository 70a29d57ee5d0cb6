---------------------------- MODULE MCScheduleTime ----------------------------
(* ScheduleTime against what its callers rely on, over two weeks and the clock  *)
(* times where the rules change.                                              *)
EXTENDS ScheduleTime

Fortnight == 0..13
Weekends == {"KEEP", "NEXT_MONDAY", "PREVIOUS_FRIDAY"}

\* Both sides of the defaults (eight to twenty, ten o'clock) and of midnight.
Clocks == {0, 479, 480, 600, 1185, 1199, 1200, 1439}
Ends == {0, 480, 600, 1200, 1439}
QuietHours == Ends \X Ends

Hours == {[days |-> w, from |-> f, to |-> t, start |-> q[1], end |-> q[2]] :
            w \in {{1, 2, 3, 4, 5}, {0, 3}}, f \in {540}, t \in {600, 620},
            q \in {<<1200, 480>>, <<600, 600>>, <<540, 580>>, <<500, 600>>, <<590, 560>>}}

\* i is the first instant from `from' on that is Good.
IsFirst(i, from, Good(_)) ==
    i >= from /\ Good(i) /\ \A j \in from..(i - 1) : ~Good(j)

Quiet(i, q) == IsQuiet(Clock(i), q[1], q[2])

Open(i, h) ==
    /\ Weekday(DayOf(i)) \in h.days
    /\ h.from <= Clock(i) /\ Clock(i) < h.to
    /\ ~Quiet(i, <<h.start, h.end>>)

\* A stored date comes round once in every month or year, on its last day when
\* the month is short.
ASSUME DatesComeRound ==
    \A day \in {1, 28, 29, 30, 31}, month \in {1, 2, 4}, y \in {1900, 2000, 2023, 2024} :
        LET yearly == DateOccurrences("YEARLY", month, day, <<y, 1, 1>>, <<y, 12, 31>>)
            monthly == DateOccurrences("MONTHLY", month, day, <<y, 1, 1>>, <<y, 12, 31>>)
        IN  /\ yearly = {x \in monthly : x[2] = month}
            /\ \A m \in 1..12 : \E x \in monthly :
                  /\ {z \in monthly : z[2] = m} = {x}
                  /\ x[3] = Min({day, DaysInMonth(y, m)})

\* A weekend shift leaves working days alone and lands on the nearest Monday
\* after, or Friday before.
ASSUME WeekendsShift ==
    \A d \in Fortnight :
        LET works(x) == Weekday(x) \in 1..5
            monday == ShiftWeekend(d, "NEXT_MONDAY")
            friday == ShiftWeekend(d, "PREVIOUS_FRIDAY")
        IN  /\ IsFirst(monday, d, works)
            /\ friday <= d /\ works(friday) /\ \A x \in (friday + 1)..d : ~works(x)

\* What a pass plans is never in the quiet hours; it is earlier than what was
\* asked for exactly when the evening part of quiet hours over midnight asks for
\* the morning of the same day.
ASSUME PlansAvoidQuietHours ==
    \A d \in Fortnight, m \in Clocks, w \in Weekends, q \in QuietHours :
        LET at == PlannedAt(d, m, w, q[1], q[2])
        IN  /\ ~Quiet(at, q)
            /\ DayOf(at) = ShiftWeekend(d, w)
            /\ (Clock(at) < m) <=> (q[1] > q[2] /\ m >= q[1])

\* Moving a snooze out of quiet hours takes the first time after it.
ASSUME SnoozesAvoidQuietHours ==
    \A m \in Clocks, q \in QuietHours :
        LET good(i) == ~Quiet(i, q)
        IN  IsFirst(LaterOutsideQuietHours(2, m, q[1], q[2]), Instant(2, m), good)

\* No preset is refused as past, none ends in the quiet hours, and "later today"
\* gives at least four hours if it stays on the same day.
ASSUME SnoozesAreLater ==
    \A d \in 0..6, m \in Clocks, preferred \in {0, 600, 1439}, q \in QuietHours, p \in Presets :
        LET now == Instant(d, m)
            at == SnoozeAt(now, p, preferred, q[1], q[2])
        IN  /\ at > now
            /\ ~Quiet(at, q)
            /\ (p = "later-today" /\ DayOf(at) = d) => at >= now + 240
            /\ p = "next-monday" => LET n == NextMonday(d) IN
                  Weekday(n) = 1 /\ n \in (d + 1)..(d + 7) /\ DayOf(at) \in {n, n + 1}

\* The next working time is the first open minute, and there is none exactly when
\* the quiet hours cover the working hours.
ASSUME AvailabilityIsTheFirst ==
    \A h \in Hours, i \in {Instant(d, m) : d \in {1, 3}, m \in {0, 570, 700}} :
        LET at == NextJourneyAvailability(i, h)
            good(j) == Open(j, h)
        IN  IF \E m \in h.from..(h.to - 1) : ~IsQuiet(m, h.start, h.end)
            THEN IsFirst(at, i, good) ELSE at = Never

\* Sending opens at the same time the working hours allow: waiting for the end of
\* the quiet hours first changes nothing.
ASSUME SendingOpensWithTheHours ==
    \A h \in Hours, i \in {Instant(d, m) : d \in {1, 6}, m \in {0, 570, 590, 700, 1439}} :
        SendingOpensAt(i, h) = NextJourneyAvailability(i, h)

=============================================================================
