------------------------- MODULE FollowUpSystemProofs -------------------------
(***************************************************************************)
(* What scheduler passes, automatic sending and the owner keep when they   *)
(* all write the same rows: each component's promise, proved of it beside  *)
(* the promises of the others, holds beside the others themselves.  And    *)
(* where the times fall that a pass plans and a snooze ends at.            *)
(***************************************************************************)
EXTENDS FollowUpSystem, ScheduleTime, PreparationProofs, AutomaticSendingProofs

SystemInv == PrepInv /\ ClaimInv /\ ReceiptInv /\ OneClaimPerPerson

-----------------------------------------------------------------------------
(* The two components' steps, seen by one another.                         *)

\* A step of sending is one of AutomaticSending by itself.
LEMMA SendingIsSending ==
    ASSUME SendingStep
    PROVE  SendNext
BY DEF SendingStep, SendNext

\* Of the rows, a step of sending writes at most a pending one, which is done then.
LEMMA SendingWritesPending ==
    ASSUME SystemInv, SendingStep
    PROVE  /\ UNCHANGED <<drafts, saving, setup, enrollment, clock, edits>>
           /\ \A k \in Keys : \/ row'[k] = row[k]
                              \/ /\ row[k].status = "PENDING"
                                 /\ row'[k].status = "DONE"
                                 /\ row'[k].snoozed = row[k].snoozed
<1>1. row \in [Keys -> Row]
  BY DEF SystemInv, PrepInv, IInv, GoodRows
<1>2. CASE SwitchAutomation
  BY <1>2 DEF SwitchAutomation, vars
<1>3. ASSUME NEW w \in Workers, LoseWorker(w)
      PROVE  UNCHANGED <<row, drafts, saving, setup, enrollment, clock, edits>>
  BY <1>3 DEF LoseWorker, vars
<1>4. ASSUME NEW w \in Workers, WorkerStep(w)
      PROVE  /\ UNCHANGED <<drafts, saving, setup, enrollment, clock, edits>>
             /\ UNCHANGED row \/ SentAutomatically(worker[w].key)
  <2>1. UNCHANGED <<drafts, saving, setup, enrollment, clock, edits>>
    BY <1>4 DEF WorkerStep
  <2>2. CASE Settle(w)
    BY <2>1, <2>2 DEF Settle, SentAutomatically
  <2>3. CASE ~Settle(w)
    BY <1>4, <2>3 DEF WorkerStep, BeginPass, ReadCandidates, Claim, CheckPreference, CheckJump,
       CheckStop, Release, Send, RecordProvider, StoreFails, Fail
  <2> QED
    BY <2>1, <2>2, <2>3
<1>5. ASSUME NEW j, SentAutomatically(j), NEW k \in Keys
      PROVE  \/ row'[k] = row[k]
             \/ /\ row[k].status = "PENDING"
                /\ row'[k].status = "DONE"
                /\ row'[k].snoozed = row[k].snoozed
  BY <1>1, <1>5 DEF SentAutomatically, Row
<1> QED
  BY <1>2, <1>3, <1>4, <1>5 DEF SendingStep

LEMMA SendingIsStep ==
    ASSUME SystemInv, SendingStep
    PROVE  [Next]_vars
BY SendingIsSending, SendStepIsStep DEF SystemInv, PrepInv, SendIInv

\* A step of sending leaves the passes as they may be: what it writes they notice.
LEMMA SendingKeepsPreparation ==
    ASSUME SystemInv, SendingStep
    PROVE  PrepInv'
<1>1. IInv /\ RowsAndDrafts /\ Plans /\ crashes \in Nat
  BY DEF SystemInv, PrepInv
<1>2. IInv'
  BY <1>1, SendingIsStep, StepPreserves
<1>3. Plans' /\ crashes' \in Nat
  BY <1>1, OthersKeepPlans DEF SendingStep
<1>4. drafts' = drafts /\ saving' = saving /\ drafts \subseteq Keys /\ saving \subseteq Keys
  BY <1>1, SendingWritesPending DEF IInv, Surroundings
<1>5. ASSUME NEW k \in Keys
      PROVE  /\ row[k].status # "none" => row'[k].status # "none"
             /\ row'[k].snoozed = row[k].snoozed
  BY SendingWritesPending
<1>6. RowsAndDrafts'
  BY <1>1, <1>4, <1>5 DEF RowsAndDrafts
<1> QED
  BY <1>2, <1>3, <1>6 DEF PrepInv

\* A scheduler pass marks no follow-up done automatically.
LEMMA PassesMarkNothingAutomatic ==
    ASSUME GoodRows, SchedulerStep, NEW k \in Keys, row'[k].method = "automatic"
    PROVE  row[k].method = "automatic"
<1>1. row[k] \in Row
  BY DEF GoodRows
<1>2. ASSUME NEW r \in ScheduledRows(k) PROVE r.method \in {"", "reconciled"}
  <2>1. \/ \E s \in 0..MaxClock, t \in Wordings : r = NewRow(k, s, t)
        \/ \E t \in Wordings : r = Prepared(k, row[k], t)
        \/ r = [row[k] EXCEPT !.status = "CANCELED", !.method = "reconciled"]
    BY DEF ScheduledRows
  <2>2. ASSUME NEW s, NEW t PROVE NewRow(k, s, t).method = ""
    BY DEF NewRow
  <2>3. ASSUME NEW t PROVE Prepared(k, row[k], t).method = ""
    BY <1>1 DEF Prepared, Row
  <2>4. [row[k] EXCEPT !.status = "CANCELED", !.method = "reconciled"].method = "reconciled"
    BY <1>1 DEF Row
  <2> QED
    BY <2>1, <2>2, <2>3, <2>4
<1>3. row'[k] = row[k] \/ row'[k] \in ScheduledRows(k)
  BY DEF SchedulerStep
<1> QED
  BY <1>2, <1>3

\* A step of the owner or of a pass leaves every claim and receipt as it is.
LEMMA PreparationKeepsSending ==
    ASSUME SystemInv, PreparationStep
    PROVE  ClaimInv' /\ ReceiptInv' /\ OneClaimPerPerson'
<1>1. /\ UNCHANGED <<delivery, worker, sent, automation, losses>>
      /\ ClaimInv /\ ReceiptInv /\ SendIInv /\ PrepInv /\ GoodRows
  BY DEF PreparationStep, sendingVars, SystemInv, SendIInv, PrepInv, IInv
<1>2. ClaimInv'
  <2>1. automation' \in BOOLEAN
    BY <1>1 DEF ClaimInv, SendTypeOK
  <2> QED
    BY <1>1, <2>1, UntouchedClaimsStay
<1>3. OneClaimPerPerson'
  BY <1>1 DEF SystemInv, OneClaimPerPerson
<1>4. ReceiptInv'
  <2>1. CASE OthersStep
    <3>1. SurroundingStep
      BY <2>1 DEF PreparationStep, OthersStep, SurroundingStep
    <3> QED
      BY <1>1, <3>1, ReceiptsStay
  <2>2. ASSUME NEW p \in Passes, Crash(p) PROVE ReceiptInv'
    <3>1. UNCHANGED row
      BY <2>2 DEF Crash, vars
    <3> QED
      BY <1>1, <3>1, ReceiptsStay
  <2>3. ASSUME NEW p \in Passes, PassStep(p) PROVE ReceiptInv'
    <3>1. SchedulerStep \/ UNCHANGED vars
      BY <1>1, <2>3, PassStepImplements
    <3>2. CASE UNCHANGED vars
      BY <1>1, <3>2, ReceiptsStay DEF vars
    <3>3. CASE SchedulerStep
      <4>1. ASSUME NEW k \in Keys, row'[k].method = "automatic"
            PROVE  row[k].method = "automatic"
        BY <1>1, <3>3, <4>1, PassesMarkNothingAutomatic
      <4>2. SendsAreReal'
        BY <1>1 DEF ReceiptInv, SendsAreReal, Holds
      <4>3. AutomaticDoneWasSent'
        BY <1>1, <4>1 DEF ReceiptInv, AutomaticDoneWasSent
      <4> QED
        BY <4>2, <4>3 DEF ReceiptInv
    <3> QED
      BY <3>1, <3>2, <3>3
  <2> QED
    BY <2>1, <2>2, <2>3 DEF PreparationStep
<1> QED
  BY <1>2, <1>3, <1>4

LEMMA PreparationIsPreparation ==
    ASSUME PreparationStep
    PROVE  PrepNext
BY DEF PreparationStep, PrepNext

-----------------------------------------------------------------------------
LEMMA SystemInitEstablishes == SystemInit => SystemInv
<1> SUFFICES ASSUME SystemInit PROVE SystemInv
  OBVIOUS
<1>1. PrepInit /\ SendInit
  BY DEF SystemInit, PrepInit, SendInit
<1>2. PrepInv /\ ClaimInv /\ ReceiptInv
  BY <1>1, PrepInitEstablishes, SendInitEstablishes, ReceiptsAtFirst DEF SendIInv
<1>3. OneClaimPerPerson
  BY <1>1 DEF SendInit, NoDelivery, OneClaimPerPerson
<1> QED
  BY <1>2, <1>3 DEF SystemInv

LEMMA SystemStepPreserves ==
    ASSUME SystemInv, [SystemNext]_systemVars
    PROVE  SystemInv' /\ [Next]_vars
<1>1. PrepInv /\ IInv /\ SendIInv /\ ClaimInv /\ ReceiptInv /\ OneClaimPerPerson
  BY DEF SystemInv, PrepInv, SendIInv
<1>2. CASE PreparationStep
  <2>1. PrepInv' /\ [Next]_vars
    BY <1>1, <1>2, PreparationIsPreparation, PrepStepPreserves
  <2> QED
    BY <1>2, <2>1, PreparationKeepsSending DEF SystemInv
<1>3. CASE SendingStep
  <2>1. SendNext
    BY <1>3, SendingIsSending
  <2>2. ClaimInv' /\ ReceiptInv'
    BY <1>1, <2>1, SendStepPreserves, SendStepKeepsReceipts DEF SendIInv
  <2>3. OneClaimPerPerson'
    BY <1>1, <2>1, SendStepKeepsOneClaim DEF ClaimInv
  <2> QED
    BY <1>3, <2>2, <2>3, SendingKeepsPreparation, SendingIsStep DEF SystemInv
<1>4. CASE UNCHANGED systemVars
  <2>1. UNCHANGED prepVars /\ UNCHANGED sendVars
    BY <1>4 DEF systemVars, prepVars, sendVars
  <2>2. PrepInv' /\ [Next]_vars
    BY <1>1, <2>1, PrepStepPreserves
  <2>3. ClaimInv' /\ ReceiptInv'
    BY <1>1, <2>1, SendStepPreserves, SendStepKeepsReceipts DEF SendIInv
  <2>4. OneClaimPerPerson'
    BY <1>1, <2>1, SendStepKeepsOneClaim DEF ClaimInv
  <2> QED
    BY <2>2, <2>3, <2>4 DEF SystemInv
<1> QED
  BY <1>2, <1>3, <1>4 DEF SystemNext

LEMMA SystemInvHolds == SystemSpec => []SystemInv
BY SystemInitEstablishes, SystemStepPreserves, PTL DEF SystemSpec

-----------------------------------------------------------------------------
(* What the whole keeps.                                                   *)

\* Passes, automatic sending and the owner together do to the follow-ups only what
\* FollowUps allows of each.
THEOREM SystemImplementsFollowUps == SystemSpec => FollowUpsSpec
<1>1. SystemInit => Init
  BY DEF SystemInit, PrepInit
<1>2. SystemInv /\ [SystemNext]_systemVars => [Next]_vars
  BY SystemStepPreserves
<1> QED
  BY <1>1, <1>2, SystemInvHolds, PTL DEF SystemSpec, FollowUpsSpec

\* Beside passes that read and write at their own pace, a follow-up's message still
\* goes out at most once, a follow-up done automatically was really sent, and a person
\* has one message under way.
THEOREM SystemSendsOnce ==
    SystemSpec => [](AtMostOneSend /\ AutomaticDoneWasSent /\ ReleasedWasNotSent
                     /\ OneClaimPerPerson)
<1>1. SystemInv => AtMostOneSend /\ AutomaticDoneWasSent /\ ReleasedWasNotSent
                   /\ OneClaimPerPerson
  BY DEF SystemInv, ClaimInv, ReceiptInv, UnsentUnlessClaimed, ReleasedWasNotSent
<1> QED
  BY <1>1, SystemInvHolds, PTL

\* A stop and the end of a run hold against passes also while messages go out, and a
\* snooze is honoured by all three.
THEOREM SystemHonoursTheOwner ==
    SystemSpec => EndedRunsStayEnded /\ StopHolds /\ []SnoozeHolds
<1>1. ASSUME SystemInv, [SystemNext]_systemVars, NEW k \in Keys
      PROVE  /\ /\ ~enrollment[Person(k)].active
                /\ row[k].status \notin {"PENDING"} \cup Finished
                => row'[k].status # "PENDING"
             /\ /\ row[k].method = "mix_stopped_for_contact"
                /\ Person(k) \in setup'.stopped
                => row'[k] = row[k]
  <2>1. PrepInv
    BY <1>1 DEF SystemInv
  <2>2. CASE PreparationStep \/ UNCHANGED systemVars
    <3>1. [PrepNext]_prepVars
      BY <2>2, PreparationIsPreparation DEF systemVars, prepVars
    <3> QED
      BY <2>1, <3>1, NothingIsTakenBack
  <2>3. CASE SendingStep
    <3>1. \/ row'[k] = row[k]
          \/ row[k].status = "PENDING" /\ row'[k].status = "DONE"
      BY <1>1, <2>3, SendingWritesPending
    <3>2. row[k].method = "mix_stopped_for_contact" => row[k].status # "PENDING"
      BY <2>1 DEF PrepInv, IInv, GoodRows, GoodRow, Coherent
    <3> QED
      BY <3>1, <3>2
  <2> QED
    BY <1>1, <2>2, <2>3 DEF SystemNext
<1>2. SystemInv /\ [SystemNext]_systemVars =>
        [\A k \in Keys :
            /\ ~enrollment[Person(k)].active
            /\ row[k].status \notin {"PENDING"} \cup Finished
            => row'[k].status # "PENDING"]_prepVars
  BY <1>1
<1>3. SystemInv /\ [SystemNext]_systemVars =>
        [\A k \in Keys :
            /\ row[k].method = "mix_stopped_for_contact"
            /\ Person(k) \in setup'.stopped
            => row'[k] = row[k]]_prepVars
  BY <1>1
<1>4. SystemSpec => []SnoozeHolds
  BY SystemImplementsFollowUps, SnoozeIsHonoured, PTL
<1> QED
  BY <1>2, <1>3, <1>4, SystemInvHolds, PTL DEF SystemSpec, EndedRunsStayEnded, StopHolds

\* A receipt or a failure is never rewritten, and a follow-up still wanted is never left
\* canceled for good, whichever of the three wrote last.
THEOREM SystemLosesNothing == SystemSpec => FinalDeliveriesStay /\ []NothingIsStranded
<1>1. ASSUME SystemInv, [SystemNext]_systemVars, NEW k \in Keys,
             delivery[k].status \in {"FAILED", "DELIVERED"}
      PROVE  delivery'[k] = delivery[k]
  <2>1. CASE SendingStep
    <3>1. SendTypeOK
      BY <1>1 DEF SystemInv, ClaimInv
    <3> QED
      BY <1>1, <2>1, <3>1, SendingIsSending, FinalDeliveryStays
  <2>2. CASE PreparationStep \/ UNCHANGED systemVars
    BY <2>2 DEF PreparationStep, sendingVars, systemVars
  <2> QED
    BY <1>1, <2>1, <2>2 DEF SystemNext
<1>2. SystemInv /\ [SystemNext]_systemVars =>
        [\A k \in Keys : delivery[k].status \in {"FAILED", "DELIVERED"}
                         => delivery'[k] = delivery[k]]_sendVars
  BY <1>1
<1>3. SystemSpec => []NothingIsStranded
  BY SystemImplementsFollowUps, NoFollowUpIsStranded
<1> QED
  BY <1>2, <1>3, SystemInvHolds, PTL DEF SystemSpec, FinalDeliveriesStay

-----------------------------------------------------------------------------
(* The times a follow-up is planned at or snoozed to: what MCScheduleTime  *)
(* evaluates over two weeks and the clock times where the rules change,    *)
(* for every day and minute.                                               *)

ClockTimes == 0..(Day - 1)
Works(d) == Weekday(d) \in 1..5

LEMMA InstantParts ==
    ASSUME NEW d \in Int, NEW m \in ClockTimes
    PROVE  /\ Instant(d, m) \in Int
           /\ DayOf(Instant(d, m)) = d
           /\ Clock(Instant(d, m)) = m
BY DEF DayOf, Clock, Instant, Day, ClockTimes

LEMMA PartsOfInstant ==
    ASSUME NEW i \in Int
    PROVE  /\ DayOf(i) \in Int /\ Clock(i) \in ClockTimes
           /\ Instant(DayOf(i), Clock(i)) = i
BY DEF DayOf, Clock, Instant, Day, ClockTimes

LEMMA LaterDay ==
    ASSUME NEW d \in Int, NEW m \in ClockTimes, NEW e \in Int, NEW n \in ClockTimes, d < e
    PROVE  Instant(d, m) < Instant(e, n)
BY DEF Instant, ClockTimes, Day

LEMMA LaterClock ==
    ASSUME NEW d \in Int, NEW m \in ClockTimes, NEW n \in ClockTimes, m <= n
    PROVE  Instant(d, m) <= Instant(d, n)
BY DEF Instant, ClockTimes, Day

LEMMA NextQuarter ==
    ASSUME NEW c \in ClockTimes
    PROVE  LET quarter == ((c + 14) \div 15) * 15 IN quarter \in Nat /\ quarter >= c
BY DEF ClockTimes, Day

\* A weekend shift leaves a working day alone and otherwise goes to the first working
\* day after, or the last before, on every day and not only in the fortnight TLC tries.
THEOREM ShiftsReachWorkingDays ==
    ASSUME NEW d \in Int
    PROVE  /\ \A rule : Works(d) \/ rule = "KEEP" => ShiftWeekend(d, rule) = d
           /\ LET monday == ShiftWeekend(d, "NEXT_MONDAY")
              IN  monday >= d /\ Works(monday) /\ \A x \in d..(monday - 1) : ~Works(x)
           /\ LET friday == ShiftWeekend(d, "PREVIOUS_FRIDAY")
              IN  friday <= d /\ Works(friday) /\ \A x \in (friday + 1)..d : ~Works(x)
<1>1. CASE Works(d)
  BY <1>1 DEF Works, ShiftWeekend, Weekday
<1>2. CASE Weekday(d) = 6
  BY <1>2 DEF Works, ShiftWeekend, Weekday
<1>3. CASE Weekday(d) = 0
  BY <1>3 DEF Works, ShiftWeekend, Weekday
<1>4. Weekday(d) \in 0..6
  BY DEF Weekday
<1> QED
  BY <1>1, <1>2, <1>3, <1>4 DEF Works

\* What a pass plans is outside the quiet hours, on the day the weekend rule gives.  It is
\* earlier than asked for exactly when quiet hours over midnight have begun by then: the
\* code goes back to the morning of the same day.
THEOREM PlansAreNotQuiet ==
    ASSUME NEW d \in Int, NEW m \in ClockTimes, NEW rule, NEW start \in ClockTimes, NEW end \in ClockTimes
    PROVE  LET at == PlannedAt(d, m, rule, start, end)
           IN  /\ ~IsQuiet(Clock(at), start, end)
               /\ DayOf(at) = ShiftWeekend(d, rule)
               /\ Clock(at) < m <=> start > end /\ m >= start
<1> DEFINE day == ShiftWeekend(d, rule)
           minute == OutsideQuietHours(m, start, end)
<1>1. day \in Int
  BY DEF ShiftWeekend, Weekday
<1>2. minute \in ClockTimes
  BY DEF OutsideQuietHours
<1>3. DayOf(Instant(day, minute)) = day /\ Clock(Instant(day, minute)) = minute
  BY <1>1, <1>2, InstantParts
<1>4. ~IsQuiet(minute, start, end) /\ (minute < m <=> start > end /\ m >= start)
  BY DEF OutsideQuietHours, IsQuiet, ClockTimes, Day
<1> QED
  BY <1>3, <1>4 DEF PlannedAt

\* A snooze that falls into the quiet hours ends with them: at the first instant from then
\* on that is not quiet.
THEOREM SnoozesEndWithQuietHours ==
    ASSUME NEW d \in Int, NEW m \in ClockTimes, NEW start \in ClockTimes, NEW end \in ClockTimes
    PROVE  LET at == LaterOutsideQuietHours(d, m, start, end)
           IN  /\ at \in Int /\ at >= Instant(d, m)
               /\ DayOf(at) \in {d, d + 1}
               /\ ~IsQuiet(Clock(at), start, end)
               /\ \A i \in Instant(d, m)..(at - 1) : IsQuiet(Clock(i), start, end)
<1> DEFINE at == LaterOutsideQuietHours(d, m, start, end)
<1>1. CASE ~IsQuiet(m, start, end)
  <2>1. at = Instant(d, m)
    BY <1>1 DEF LaterOutsideQuietHours
  <2> QED
    BY <1>1, <2>1, InstantParts
<1>2. CASE IsQuiet(m, start, end) /\ (start < end \/ m < end)
  <2>1. at = Instant(d, end)
    BY <1>2 DEF LaterOutsideQuietHours
  <2>2. m < end /\ ~IsQuiet(end, start, end)
    BY <1>2 DEF IsQuiet, ClockTimes, Day
  <2>3. ASSUME NEW i \in Instant(d, m)..(at - 1) PROVE Clock(i) \in m..(end - 1)
    BY <2>1, <2>2 DEF Instant, Clock, ClockTimes, Day
  <2>4. ASSUME NEW n \in m..(end - 1) PROVE IsQuiet(n, start, end)
    BY <1>2, <2>4 DEF IsQuiet, ClockTimes, Day
  <2>5. at >= Instant(d, m)
    BY <2>1, <2>2 DEF Instant, ClockTimes, Day
  <2> QED
    BY <2>1, <2>2, <2>3, <2>4, <2>5, InstantParts
<1>3. CASE IsQuiet(m, start, end) /\ ~(start < end \/ m < end)
  <2>1. at = Instant(d + 1, end)
    BY <1>3 DEF LaterOutsideQuietHours
  <2>2. end <= start /\ start <= m /\ ~IsQuiet(end, start, end)
    BY <1>3 DEF IsQuiet, ClockTimes, Day
  <2>3. ASSUME NEW i \in Instant(d, m)..(at - 1) PROVE Clock(i) \in (m..(Day - 1)) \cup (0..(end - 1))
    BY <2>1, <2>2 DEF Instant, Clock, ClockTimes, Day
  <2>4. ASSUME NEW n \in (m..(Day - 1)) \cup (0..(end - 1)) PROVE IsQuiet(n, start, end)
    BY <1>3, <2>2, <2>4 DEF IsQuiet, ClockTimes, Day
  <2>5. at >= Instant(d, m)
    BY <2>1, <2>2 DEF Instant, ClockTimes, Day
  <2> QED
    BY <2>1, <2>2, <2>3, <2>4, <2>5, InstantParts
<1> QED
  BY <1>1, <1>2, <1>3

LEMMA NextMondayIsMonday ==
    ASSUME NEW d \in Int
    PROVE  Weekday(NextMonday(d)) = 1 /\ NextMonday(d) \in (d + 1)..(d + 7)
BY DEF NextMonday, Weekday

\* A preset of the snooze menu is never refused as past and never ends in the quiet hours,
\* whenever it is chosen and whatever hour the owner prefers; "later today" leaves at least
\* four hours if it stays on the day.
THEOREM PresetsAreLater ==
    ASSUME NEW now \in Int, NEW preset \in Presets, NEW preferred \in ClockTimes,
           NEW start \in ClockTimes, NEW end \in ClockTimes
    PROVE  LET at == SnoozeAt(now, preset, preferred, start, end)
           IN  /\ at > now
               /\ ~IsQuiet(Clock(at), start, end)
               /\ preset = "later-today" /\ DayOf(at) = DayOf(now) => at >= now + 240
<1> DEFINE today == DayOf(now)
           soon == now + 240
           rounded == ((Clock(soon) + 14) \div 15) * 15
           On(d) == LaterOutsideQuietHours(d, preferred, start, end)
           at == SnoozeAt(now, preset, preferred, start, end)
<1>1. today \in Int /\ Clock(now) \in ClockTimes /\ Instant(today, Clock(now)) = now
  BY PartsOfInstant
<1>2. ASSUME NEW d \in Int, d > today
      PROVE  On(d) > now /\ ~IsQuiet(Clock(On(d)), start, end) /\ DayOf(On(d)) # today
  <2>1. /\ On(d) \in Int /\ On(d) >= Instant(d, preferred) /\ DayOf(On(d)) \in {d, d + 1}
        /\ ~IsQuiet(Clock(On(d)), start, end)
    BY SnoozesEndWithQuietHours
  <2>2. Instant(today, Clock(now)) < Instant(d, preferred)
    <3>1. today < d
      BY <1>1, <1>2
    <3> HIDE DEF today, soon, rounded, On, at
    <3> QED
      BY <1>1, <3>1, LaterDay
  <2>3. Instant(d, preferred) \in Int
    BY InstantParts
  <2> HIDE DEF today, On
  <2> QED
    BY <1>1, <1>2, <2>1, <2>2, <2>3
<1>3. CASE preset = "later-today" /\ ~(DayOf(soon) # today \/ rounded >= Day)
  <2>1. at = LaterOutsideQuietHours(today, rounded, start, end)
    BY <1>3 DEF SnoozeAt
  <2>2. /\ soon \in Int /\ DayOf(soon) \in Int /\ Clock(soon) \in ClockTimes
        /\ Instant(today, Clock(soon)) = soon
    BY <1>3, PartsOfInstant
  <2>3. rounded \in ClockTimes /\ rounded >= Clock(soon)
    <3>1. rounded \in Nat /\ rounded >= Clock(soon)
      BY <2>2, NextQuarter
    <3> HIDE DEF rounded
    <3> QED
      BY <1>3, <3>1 DEF ClockTimes, Day
  <2>4. Instant(today, rounded) >= now + 240
    <3>1. Instant(today, Clock(soon)) <= Instant(today, rounded)
      <4> HIDE DEF today, rounded, soon
      <4> QED
        BY <1>1, <2>2, <2>3, LaterClock
    <3>2. Instant(today, rounded) \in Int
      BY <1>1, <2>3, InstantParts
    <3> HIDE DEF today, rounded
    <3> QED
      BY <2>2, <3>1, <3>2
  <2>5. at \in Int /\ at >= Instant(today, rounded) /\ ~IsQuiet(Clock(at), start, end)
    BY <1>1, <2>1, <2>3, SnoozesEndWithQuietHours
  <2>6. Instant(today, rounded) \in Int
    BY <1>1, <2>3, InstantParts
  <2> HIDE DEF at, today, rounded
  <2> QED
    BY <2>4, <2>5, <2>6 DEF at
<1>4. CASE preset # "later-today" \/ DayOf(soon) # today \/ rounded >= Day
  <2>1. PICK d \in {today + 1, today + 7, NextMonday(today)} : at = On(d)
    BY <1>4 DEF SnoozeAt, Presets
  <2>2. NextMonday(today) \in (today + 1)..(today + 7)
    BY <1>1, NextMondayIsMonday
  <2>3. d \in Int /\ d > today
    BY <1>1, <2>1, <2>2
  <2> QED
    BY <1>2, <2>1, <2>3
<1> QED
  BY <1>3, <1>4

LEMMA LargerOfTwo ==
    ASSUME NEW a \in Int, NEW b \in Int
    PROVE  Max({a, b}) = IF a >= b THEN a ELSE b
BY DEF Max

LEMMA SmallerOfTwo ==
    ASSUME NEW a \in Int, NEW b \in Int
    PROVE  Min({a, b}) = IF a <= b THEN a ELSE b
BY DEF Min

LEMMA MonthLength ==
    ASSUME NEW y \in Int, NEW m \in 1..12
    PROVE  DaysInMonth(y, m) \in 28..31
BY DEF DaysInMonth

LEMMA ClampedDate ==
    ASSUME NEW y \in Int, NEW m \in 1..12, NEW d \in 1..31
    PROVE  /\ ClampDate(y, m, d) \in Int \X (1..12) \X (1..31)
           /\ ClampDate(y, m, d) = <<y, m, IF d <= DaysInMonth(y, m) THEN d ELSE DaysInMonth(y, m)>>
<1>1. DaysInMonth(y, m) \in 28..31
  BY MonthLength
<1>2. Max({d, 1}) = d
  BY LargerOfTwo
<1>3. Min({d, DaysInMonth(y, m)}) = IF d <= DaysInMonth(y, m) THEN d ELSE DaysInMonth(y, m)
  BY <1>1, SmallerOfTwo
<1> HIDE DEF DaysInMonth
<1> QED
  BY <1>1, <1>2, <1>3 DEF ClampDate

\* Between any two dates a stored month and day come round exactly once in every month, or
\* every year, that has room for them there: on the day itself, and on the last day of a
\* month that is too short for it.
THEOREM DatesComeRoundOnce ==
    ASSUME NEW recurrence \in {"YEARLY", "MONTHLY"}, NEW month \in 1..12, NEW day \in 1..31,
           NEW from \in Int \X (1..12) \X (1..31), NEW to \in Int \X (1..12) \X (1..31),
           NEW y \in Int, NEW m \in 1..12
    PROVE  LET dates == DateOccurrences(recurrence, month, day, from, to)
               last == DaysInMonth(y, m)
               date == <<y, m, IF day <= last THEN day ELSE last>>
               due == /\ recurrence = "YEARLY" => m = month
                      /\ NotAfter(from, date) /\ NotAfter(date, to)
           IN  {x \in dates : x[1] = y /\ x[2] = m} = IF due THEN {date} ELSE {}
<1> DEFINE dates == DateOccurrences(recurrence, month, day, from, to)
           last == DaysInMonth(y, m)
           date == <<y, m, IF day <= last THEN day ELSE last>>
           months == IF recurrence = "YEARLY" THEN {month} ELSE 1..12
           between(x) == NotAfter(from, x) /\ NotAfter(x, to)
<1>1. ClampDate(y, m, day) = date
  BY ClampedDate
<1>2. ASSUME NEW x \in dates, x[1] = y, x[2] = m
      PROVE  x = date /\ m \in months /\ between(date)
  <2>1. between(x) /\ \E z \in from[1]..to[1], n \in months : x = ClampDate(z, n, day)
    BY DEF DateOccurrences
  <2>2. PICK z \in from[1]..to[1], n \in months : x = ClampDate(z, n, day)
    BY <2>1
  <2>3. z \in Int /\ n \in 1..12
    OBVIOUS
  <2>4. x[1] = z /\ x[2] = n
    BY <2>2, <2>3 DEF ClampDate
  <2>5. z = y /\ n = m
    BY <1>2, <2>4
  <2> QED
    BY <1>1, <2>1, <2>2, <2>5
<1>3. ASSUME m \in months, between(date) PROVE date \in dates
  <2>1. y \in from[1]..to[1]
    BY <1>3 DEF NotAfter
  <2> QED
    BY <1>1, <1>3, <2>1 DEF DateOccurrences
<1>4. date[1] = y /\ date[2] = m
  OBVIOUS
<1>5. m \in months <=> (recurrence = "YEARLY" => m = month)
  OBVIOUS
<1> HIDE DEF dates, date, months, between
<1>6. {x \in dates : x[1] = y /\ x[2] = m} = IF m \in months /\ between(date) THEN {date} ELSE {}
  BY <1>2, <1>3, <1>4
<1> QED
  BY <1>5, <1>6 DEF dates, date, between

=============================================================================
