# Jump in the Mix: a TLA+ verification project

Jump in the Mix prepares follow-ups ("Jumps") for the people of a small business
from plans ("Mixes") of steps ("Beats"), and can send them by itself. This
directory models the parts of it where several actors write the same rows: the
scheduler pass, automatic sending and the owner; the job table and the import that
runs from it; the waitlist, its invitations and their mail. Paths below are relative
to the repository; `jump-engine.ts` and the like are in `src/lib/`.

## 1. The system

One PostgreSQL database is the only shared state. The Next.js server runs the
owner's actions, each a short transaction. One or more worker processes
(`src/worker/index.ts`, woken by a schedule or by the server) run jobs from a
table, reconcile workspaces periodically, send what is due, and do maintenance.
Nothing but row locks and guarded `updateMany ... where` writes orders these
actors: a pass of minutes reads and writes in many statements with everyone else
in between.

| Component | State | Operations | Interacts with | Status |
|---|---|---|---|---|
| Follow-ups | `Jump` (status, completionMethod, scheduledAt, baseScheduledAt, snoozedUntil, manualOnly, snapshot), `JumpDraft` | complete, skip, reopen, snooze, save and discard a draft | written by every other component | modelled |
| Mix, people and holds | `Mix.status`, `MixAssignment`, `MixStop`, `Contact.archivedAt`, `ContactRelationshipState.doNotContact`, settings | pause, activate, archive, start, remove, stop, resume, archive and restore a person, Do not contact, change times and wording | cancel rows, queue a pass | modelled for one Mix |
| Scheduler pass (`reconcileJumps`) | what it has read | read, create, update, cancel | follow-ups | modelled, without bindings and workflow |
| Automatic sending | `AutomatedDelivery`, `AutomationPreference` | expire, claim, recheck, send, record, settle, fail | follow-ups, the mail and text providers | modelled |
| Follow-up system | the above together | | passes, sending and the owner over the same rows | modelled |
| Time arithmetic | none | weekend shift, quiet hours, snooze presets, working hours, recurring dates | the pass, snoozing, sending | modelled without time zones |
| Job queue | `Job` (status, attempts, runAt, lockedAt, lockedBy, executionStartedAt) | enqueue, claim, renew, finish, fail with backoff, release, retry, cancel | starts passes and imports | modelled |
| Contact import | `ContactImportBatch`, receipts, the import's job | queue, begin, commit a row, save a chunk, finish, fail, retry, cancel | people; holds its job's lease | the background import is modelled |
| Admission, referrals | `ReferralInvite`, accounts, limits and pauses, allowance | invite, redeem, revoke, suspend, restore, delete | the waitlist | modelled without staff invitations |
| Waitlist | `WaitlistEntry`, links, blocks, the weekly slot | request, confirm, select, wave, leave, stop, provider reports | invitations, their mail | modelled |
| Invitation mail | `WaitlistDelivery`, the send ledger | claim, check, reserve, call, record, review, repeat | admission, the mail provider | modelled |
| Appointment bindings, Mix workflow, Journey | `AppointmentBinding`, `MixWorkflowInstance`, stages | hold, release, gate, enter, exit | follow-ups, stops | planned |
| Worker loop | `nextReconcileAt` | maintain, periodic reconciliation | starts passes | planned |
| Notifications, push | deliveries | claim, send, settle | follow-ups | planned |
| Staff access, billing | grants, subscriptions | grant, expire, sync | plan limits | planned |
| Reports, support mail, merge, marketplace, capture, retention, calendar feeds, pages | | | | not modelled, reasons in `PROJECT.json` |

What is hard here: reads of a pass that are old when it writes; two passes at
once; an owner's action between a check and the write it guards; a worker that
dies, or is given up on while it is alive, with a message at the provider; keys
that change when only a setting changed.

What makes each modelled component correct:

- *Follow-ups*: the time of a pending row is the later of its base and its snooze,
  whoever wrote it; a status and how it came about belong together; a finished row
  is changed only by the owner.
- *Scheduler pass*: it changes rows in few allowed ways; it never takes back what a
  stop canceled or prepares an ended run; passes converge to what the settings ask.
- *Automatic sending*: a row's message goes out at most once whatever fails; a
  receipt is never rewritten; a person has one message under way; a refusal that
  stands before the recheck is seen; every claim ends.
- *Job queue*: only the holder of a job finishes it; executions are bounded by the
  attempts; an ended job stays ended; every job ends.
- *Contact import*: a row of the file is saved once, whoever dies; what is reported
  of a row is what became of it; the job and the import end together.
- *Admission and waitlist*: nobody has two open invitations, and nobody who is
  blocked has one; a wave fits the limits; places in the line are kept; a link that
  was overtaken does nothing.
- *Invitation mail*: one mail for each key of the provider; what is canceled stays
  canceled; who waits is served.
- *Time arithmetic*: what is planned or snoozed is not in the quiet hours; the first
  open time is found, if there is one.

## 2. Modules

| Module | What it is |
|---|---|
| `FollowUps` | The rows, the owner's actions (one action per server action or route), the clock, and **the abstract specification**: `SchedulerStep`, all a scheduler pass promises of its writes, and `SentAutomatically`, all that automatic sending may do to a row. |
| `Preparation` | EXTENDS FollowUps with `reconcileJumps` in detail. Implements `FollowUpsSpec`. |
| `AutomaticSending` | EXTENDS FollowUps with `runAutomaticDeliveries` in detail; the scheduler is its promise, one row at a time. Implements `FollowUpsSpec`. |
| `RefusedSends` | AutomaticSending with a history variable: what has stood against a claim since it was made. |
| `FollowUpSystem` | Preparation and AutomaticSending over the same rows. |
| `ScheduleTime` | The functions of dates and clock times. `MCScheduleTime` states what each must return, as ASSUMEs over bounded inputs that TLC evaluates with the runs of `MCPreparation`, whose two time settings are weekend rules. |
| `JobQueue` | The table of jobs and the workers that take from it. Abstract for `ContactImport`: what an execution does is an outcome. |
| `ImportPromise` | **The abstract specification** of an import: what its owner is told. |
| `ContactImport` | EXTENDS JobQueue with an import's execution, transaction by transaction. Implements `QueueSpec` and `ImportPromise`. |
| `Admission` | The waitlist, the invitations and the blocks, one action per handler. |
| `InvitationMail` | EXTENDS Admission with the outbox and the send ledger. Implements `AdmissionSpec`. |
| `FollowUpsProofs`, `PreparationProofs`, `AutomaticSendingProofs`, `FollowUpSystemProofs`, `JobQueueProofs`, `ContactImportProofs`, `AdmissionProofs`, `InvitationMailProofs` | Theorems. |
| `MC*` | The constants of the runs. |

`Preparation` and `AutomaticSending` keep the variables of `FollowUps`, so the
refinement mapping is the identity on them and hides the rest (`pass`, `worker`,
`delivery`, ...): the abstract specification is a PROPERTY of their runs by name.

### Correspondence: FollowUps

A key `<<person, beat, base time>>` stands for `uniquenessKey`: it holds the local
date and time (`createJumpUniquenessKey`), so other time settings give an
occurrence another key. `Occurrence(k)` is what the code matches by when keys
differ (`settledOccurrenceKey`, `occurrenceCarryKey`). `row[k]` is the `Jump`:
`method` is `completionMethod` (`"owner"` for every outcome an owner records),
`at` is `scheduledAt`, `snoozed` is `snoozedUntil`, `born` is `createdAt`, and
`wording` the rendered snapshot. `setup` has the Mix's status, the stops, the
archived people, Do not contact, the time settings and the wording; `enrollment`
one `MixAssignment` per person with `updatedAt` as a counter. Saving a draft is
two steps (`BeginDraft`, `InsertDraft`): `saveJumpDraft` reads that the follow-up
is pending and inserts later, with no lock.

### Correspondence: Preparation

`pass[p].pc` is where `reconcileJumps` is between two statements: `Begin` (start
time, enrollments, stops, rows with a snooze or draft, 208-317), `ReadSettled`
(336-350), `ReadSettings` (352-441), `ReadRows` (635-695), `CreateRows` and
`UpdateRows` (the two transactions, with the enrollment lock of
`enrollment-preparation.ts`), `ReadStale` and `CancelStale` (787-810). A version
column is not a counter in the model: `moved` is the set of rows of the pass's
plan written since it read them (the `updatedAt` guard at 736), `fresh` the rows
written since it began (the `createdAt` and `updatedAt` guard at 795), and every
step of anyone else adds to them (`Noticed`).

### Correspondence: AutomaticSending

`worker[w].pc` is where `runAutomaticDeliveries` is: `BeginPass` (expiry, 117-161),
`ReadCandidates` (167-204), `Claim` (206-237, atomic because it locks the Contact
row), `CheckPreference`, `CheckJump`, `CheckStop` (three reads, 243-249), `Release`,
`Send` (`deliver`), `RecordProvider` (257-260), `Settle` (261-292), `StoreFails`
and `Fail` (294-302), and `LoseWorker` at any point. `sent[k]` counts how often the
provider took the message; no code reads it. `delivery[k].at` is `lockedAt`, which
is the start of the pass and not the time of the claim.

### Correspondence: ScheduleTime

Instants are minutes, days are numbers and there is one time zone without
daylight-saving changes, so `zonedDateTimeToUtc` is `Instant` and its inverses are
`DayOf` and `Clock`. The two quiet-hour rules of the code are two operators, because
they differ: a pass stays on the day (`OutsideQuietHours`, `personal-scheduling.ts`)
and may so move a follow-up back, a snooze goes on to the next morning
(`LaterOutsideQuietHours`, `snooze-schedule.ts`). `NextJourneyAvailability` and
`SendingOpensAt` are the loops of the code, ten rounds of its 400, since a week
repeats itself; `Never` is the error they throw.

### Correspondence: JobQueue

`job[j]` is a row of `Job` (`src/worker/index.ts`): `phase` is what `completedAt` and
`failedAt` say, `wait` how long until `runAt`, `by` is `lockedBy`, `age` how long
since `lockedAt`, never counted beyond what the lease can tell apart. `ReadCandidate`
and `Claim` are `claimJob`'s two statements, `Renew` the timer around the task,
`Execute` the task with any outcome, then `Complete`, `RecordFailure` (`processJob`'s
backoff or end) or `ReleasePaused`, each guarded as in the code by what the worker
remembers of its claim. `Crash`, `RequestStop` and `Restart` are the process.
`RetryFailed` is the staff's (`admin-job-retry.ts`), `CancelJob` what an owner's
cancellation of an import does to its job. `Tick` moves every time at once.

### Correspondence: ContactImport

The job of an import is the queue's only job here and its execution is taken apart
(`progress[w].at`) into `BeginImport`, `NextChunk`, `CommitRow`, `SaveChunk` and
`FinishImport` (`contact-import-jobs.ts`), each a transaction that takes the
workspace's import key and re-reads the lease (`contact-import-lease.ts`). `applied`
counts what a row wrote to the contacts, `receipts` the receipts that make a rerun
recognize it. Any step may fail (`StepFails`), be interrupted, or be the last before
a crash. `RecordImportFailure` joins the queue's failure with the batch's. Receipts
expire only when the import cannot run again (`ExpireReceipt`,
`import-receipt-retention.ts`).

### Correspondence: Admission and InvitationMail

Every handler of `Admission` runs under `lockAccess`, so it is one action. `entry`
is `WaitlistEntry`, `ahead` the order of `createdAt`, `invites[r]` all invitations
ever made to a recipient, `blocks` the suppression rows by reason, `confirmLink` and
`stopLink` the tokens that still work, `policy` the limits and pauses, `schedule`
the weekly slot. `asked` and `offered` are history variables for
`StaleLinksDoNothing`.

`InvitationMail` adds the outbox (`delivery`, `waitlist-delivery.ts`), the send
ledger (`ledger`: age of the first attempt, receipt, and the mails the provider
really sent) and the workers (`sender[w].pc`). `OutboxFollows` is what each handler
of `Admission` does to the outbox in its own transaction. `ReadDue`,
`ClaimDelivery`, `CheckDelivery`, `Reserve`, `Call`, `Accept`, `RecordSent` and
`RecordError` are the statements of a delivery; `Review` the staff's retry, receipt
recovery and repeat. The ages are the two limits that matter: the code tries no more
23 hours after the first attempt and the provider forgets a key after 24.

### Abstractions

- The horizon of a pass covers all times; `At` gives the result of the time
  arithmetic, so weekend shifts and quiet hours are another value of the settings.
- No appointment bindings, workflow rules or gates, merged people or people limit;
  one Mix with one family of draft per follow-up; no tags and no places of a Mix for
  Everyone, so a removal is of an enrollment the owner started. Restarting does not
  move the start date.
- The reads `reconcileJumps` issues together are one step. Snoozing is one step: its
  write is guarded on the snooze it read. Skipping and completing are one action.
- `CreateRows` and `UpdateRows` are one step each. The code writes in batches of 500
  and of 100, each its own transaction: what every property says is said row by row,
  and a plan beyond one batch, with another writer between its batches, is not
  modelled.
- What a pass can tell of later writes is by the order of commits (`Noticed`); the
  code compares the rows' wall-clock times with the pass's start, so a time
  stamped before a pass began and committed after it, and clocks that disagree, are
  not modelled.
- Quiet hours, working hours and a suspended owner are a pass that may find the
  workspace closed. Candidates are taken in any order. The review window is constant.
- In `AutomaticSending`, `ScheduleRow` creates rows with no carried snooze (the
  owner's `Snooze` then reaches the same rows) and writes one row per step.
- A provider that answers late is the failure branch of `Send` in which the message
  was taken.
- `ScheduleTime` has no appointments in the way, no custom dates of snoozes, and no
  anchored or planned instants.
- In `JobQueue` a task's effects are left to the modules over it. In `ContactImport`
  what a row writes to a person is one effect that may be rejected; parsing and review
  are what `QueueImport` may find invalid; the foreground import is left out.
- In `Admission` an address stands for a person; staff invitations, the reuse of a
  prepared invitation and the expiry of tokens by age are left out. The retention of
  an unconfirmed entry waits for a live link to expire, which `ForgetUnconfirmed`
  takes as done, and asks for no granted access, which is so of every entry that
  waits unconfirmed: what grants access also takes the entry out of waiting.
- In `InvitationMail` a full budget, a key used with another message or retired, and
  an error before or at the reservation are refusals that may happen. `known` says
  that the delivery's first attempt is the ledger's; another recorded time (an error
  before any attempt, or one that hid the ledger's) is kept as not known, so it does
  not send a delivery to review earlier than the ledger would. `RetryReview` and
  `MayRepeat` go by the ledger's age and let the staff act whenever one of the code's
  recorded times may: a time later than the ledger's only delays the repeat, and a
  retry too late is refused by the next `Reserve`.

## 3. Runs

| Run | Question | Bounds |
|---|---|---|
| `one_pass` | Does a pass keep `SchedulerStep`'s promise? `SnoozeHolds`, `EndedRunsStayEnded`, `StopHolds`, `NothingIsStranded` (a follow-up the settings ask for is never left canceled in a way no pass takes back), and `EventuallyConverged`: after the owner's last action, what remains is what the settings ask for | one person and Beat, on a Saturday that the settings keep or move to Friday, two wordings, one pass at a time, two owner actions, one crash, clock to 2 |
| `two_passes` | The same promise and convergence with two passes at once | one wording, two owner actions, clock to 1, no crash |
| `claims` | `AtMostOneSend`, `ReleasedWasNotSent`, `AutomaticDoneWasSent`, `FinalDeliveriesStay`, `ClaimsSettle`, `RefusalStopsSending`, and implementation of `FollowUpsSpec` | two workers, one follow-up, Lease 0 so that a claim expires under a live worker, Window 1, clock to 3, one owner action, one lost worker |
| `person` | `OneClaimPerPerson` | two workers, two follow-ups of one person, Limit 1, one lost worker |
| `imports` | The import against its promise (`KeepsPromise`) and the queue (`RefinesQueue`), `RowsApplyOnce`, `JobAndBatchAgree`, the queue's own `ExecutionsBounded`, `EndedJobsStay`, `LeaseIsRespected`, and that everything ends (`EveryJobEnds`, `EveryImportEnds`) | two workers, two rows in one chunk, two attempts, a lease of one tick, one trouble (a crash, a stop, a late renewal or a retry) |
| `admission` | `OneOpenInvitation`, `NoInvitationToTheBlocked`, `GrantsFitTheLimits`, `PlaceIsKept`, `StaleLinksDoNothing` | a member, two others (interchangeable) and a phone number; six steps of theirs, the staff and the provider, the wave whenever it is due |
| `mail` | `OneMailPerGeneration`, `SentWasAccepted`, `CanceledStaysCanceled`, `WaitersAreServed` | one waiter, two workers, two attempts of two requests each, two troubles, one repeat |
| `settled`, `carried`, `backlog`, `resend`, `limits` | five sentences of the documentation that the code does not keep (section 5) | the smallest instance that shows it; `resend` under `TakingTurns`, the behaviours of `SystemSpec` in which a pass or a claim ends before another begins and time and the owner wait for it, with the clock to 3 |

Each run also has its module's type invariant. The ASSUMEs of `MCScheduleTime` are
evaluated with `one_pass` and `two_passes`, over two weeks and the clock times on both
sides of every boundary.

Why the bounds are enough: people meet only in `Claim`, which the person run
covers with two follow-ups of one; Beats of one person never meet in a pass. The
hazards of a pass need one action before a read and one between read and write,
interleaved with the steps of the pass. Two time settings give an occurrence two
rows, the case a pass carries from. Two workers are all that a claim can tell apart:
its holder and anyone else. Two rows of a file are one that is saved and one that is
not yet. One trouble reaches each takeover; two at once, and every larger instance,
are covered by the proofs of the same properties. Six steps are enough to invite,
take back, rejoin, and use an old link. Two troubles in the mail are a lost answer
and the crash or delay after it. Clocks run just far enough for due, window and
lease. The limits `MaxEdits`, `MaxClock`, `MaxCrashes`, `MaxLosses`, `MaxTroubles`,
`MaxEvents`, `MaxInvites` and `MaxGenerations` are the only bounds in the guards,
each for a counter the code does not have.

Runs that say `CHECK_DEADLOCK FALSE` may stop: an import that ended, or people with
nothing left of `MaxEvents`, do nothing more.

Fairness. `FairPrepSpec` has weak fairness of every pass's next step: the worker
goes on with the statement it is at, and `runDueWorkspaceReconciliations` begins
another pass of each workspace periodically, after a crash too. It also has it of
the second half of a draft's save. It assumes nothing of the owner. `FairSendSpec`
(and `FairRefusedSpec`, the same with the history variable) has weak fairness of time
and of each worker's next step (each worker runs a pass in every loop). Neither
assumes that a provider answers or that a write succeeds: `StoreFails` and an
unrecorded failure stay possible. `ClaimsSettle` asks only of claims whose lease runs
out before the clock's bound. `FairImportSpec` has it of each worker's next step, of
the renewal timer, of a process manager that restarts a worker, and of time;
`FairMailSpec` of each worker's next step, of time passing for a delivery, and of the
weekly slot and its wave. None has fairness of the owner, the staff, the recipients
or of any failure.

## 4. Proofs

Proved by TLAPS for all constants that satisfy the named assumptions of the modules:
`FollowUpsAssumption` (times are naturals, the planned ones not 0),
`PreparationAssumption`, `SendingAssumption`, `JobQueueAssumption`,
`ContactImportAssumption`, `AdmissionAssumption` and `MailAssumption`.

- `FollowUpsTypeCorrect`, `SnoozeIsHonoured` (`FollowUpsProofs`). `SnoozeHolds`
  speaks of pending rows only and is not inductive: a canceled row is taken back
  and a finished one reopened with the time they have. `IInv` asks the right time
  of every row that exists.
- `NoFollowUpIsStranded` (`FollowUpsProofs`, and `PassesStrandNothing` beside passes).
  A pass does not take back what a stop canceled or what ended with an archived Mix.
  `NothingIsStranded` looks only at what is wanted now and is not inductive:
  `HoldsAreMarked` says of every canceled row with either mark that the stop, or the
  archive, which made it still stands (`Held`).
- `NoSecondSend`, `ReleaseIsSafe`, `SendingTypeCorrect`, `OnePersonOneClaim`
  (`AutomaticSendingProofs`). `AtMostOneSend` needs to know, of each worker at each
  step, that the claim it works under is its own or has ended (`ClaimIsOwn`), that
  two workers do not work on one follow-up whose claim is alive (`WorkIsApart`),
  that nothing was sent before the step that sends (`UnsentBefore`) and that a row
  never claimed or given back was never sent (`UnsentUnlessClaimed`); `ClaimInv` is
  their conjunction.
- `AutomaticDoneIsReal` adds `SendsAreReal` (a recorded provider means a send) and
  uses the invariant above for "exactly once".
- `FinalDeliveriesAreFinal`, from a lemma of the ways one step can move a delivery.
- `RefusalsStopTheSend`, over the history variable of `RefusedSends`. The three reads
  before a send are made at three times; `RuledOut` says what each has excluded for
  good: the switch after the first, everything but a stop after the second, and
  everything after the third. The history only shrinks while the claim goes on, so
  what one read excludes need not be read again.
- `SendingImplementsFollowUps`: initial states map to initial states and each step
  to a step or a stutter of `FollowUpsSpec`. The scheduler's single row write maps
  to `SchedulerStep`, and `Settle` to `SentAutomatically`.

- `PassesImplementFollowUps`, `PassTypesHold`, `PassesHonourSnoozes`,
  `EndedRunsAreNotPrepared`, `StopsHoldAgainstPasses` (`PreparationProofs`), for any
  number of passes at once. Each write of a pass must be one that `SchedulerStep`
  allows in the state it is made in, not in the one it was read in. `PrepInv` says of
  a plan what stays true whatever others do (`GoodPlan`: it names a row once and
  carries from one row of the occurrence) and what is true of the rows nobody wrote
  since they were read (`Current`: such an update still applies to a row that a pass
  may prepare). The drafts a create carries are moved, not copied: their number is
  kept by a bijection.
- `UndisturbedPassConverges` and `ConvergedIsLeftAlone` (`PreparationProofs`), the part
  of `EventuallyConverged` that is safety: whatever reachable state a pass begins in,
  if nobody else writes rows, enrollments or settings until it ends, it ends in
  `Converged`; and from `Converged` such passes write nothing. The invariant of the
  undisturbed pass is `UpToDate`: at each statement, what it has read is still so, and
  what is wanted and not yet right is in its plan (`WantedIsPlanned`), then right
  (`WantedIsReady`). It needs `NothingIsStranded`. What is left to TLC is that such a
  pass comes about under the fairness of `FairPrepSpec`.
- `SystemImplementsFollowUps`, `SystemSendsOnce`, `SystemHonoursTheOwner`,
  `SystemLosesNothing`
  (`FollowUpSystemProofs`): the composition. Each component was proved beside the
  promises of the other; its invariant is kept by the other's real steps because they
  implement those promises.
- `ShiftsReachWorkingDays`, `PlansAreNotQuiet`, `SnoozesEndWithQuietHours`,
  `PresetsAreLater`, `DatesComeRoundOnce` (`FollowUpSystemProofs`): what `MCScheduleTime`
  evaluates for two weeks, of every day, minute, quiet hours and date.
- `QueueTypes`, `QueueExecutionsBounded`, `QueueEndedJobsStay`,
  `QueueLeaseIsRespected` (`JobQueueProofs`). The invariant says of each row that an
  ended one is held by nobody and that the executions not handed back are its
  attempts, and of each worker that while a row is its own the attempts are those it
  remembers.
- `ImportRefinesQueue`, `ImportKeepsPromise`, `ImportRowsApplyOnce`,
  `ImportJobAndBatchAgree`, `ImportTypesHold`, `ImportKeepsTheQueue` (`ContactImportProofs`): every step of
  an import is a step or a stutter of `QueueSpec` and of `ImportPromise`. The
  invariant: a saved row has its receipt until the import ends, and what the holder of
  the job remembers of its chunk is true, since nobody else saves a row meanwhile.
- `AtMostOneOpenInvitation`, `TheBlockedAreNotInvited`, `PlacesAreKept`,
  `StaleLinksAreHarmless`, `AdmissionTypesHold` (`AdmissionProofs`). The links need
  that whoever has one that works was given it after the last step that made such
  links worthless; the rest follows from the shape of every step: it closes invitations
  or adds one where none is open to an address that nothing blocks.
- `TheLineIsOrdered`, `GrantsFit` (`AdmissionProofs`). That a wave fits the limits is an
  argument about a count: the first `n` of the line are at most `n` people, because the
  line is a strict total order of the people on it (`LineIsOrdered`), and their
  invitations add at most one each to those outstanding.
- `MailLeavesAdmissionAlone` (`MailSpec => AdmissionSpec`), `OneMailForEachKey`,
  `WhatIsSentWasAccepted`, `WhatIsCanceledStaysSo`, `MailTypesHold`
  (`InvitationMailProofs`). The invariant: a request is under way only within the day
  in which the provider remembers its key, and what a worker is about to record did
  happen.

Only model-checked: liveness (`EventuallyConverged`, `ClaimsSettle`, `EveryJobEnds`,
`EveryImportEnds`, `WaitersAreServed`), which is beyond the prover; every other property
of a passing run is a theorem. Only evaluated, over bounded inputs: the loops of
`ScheduleTime` that look for a working time (`NextJourneyAvailability`,
`SendingOpensAt`), which are functions over a count of rounds.

## 5. Where the documentation and the code part

Each is a `violation` run with a finding in `PROJECT.json`:

1. `settled`: "An occurrence with a DONE or SKIPPED row is settled, and no timing,
   rule or settings change may re-create it"
   (`docs/standards/11-engineering-architecture.md:97`). A canceled row of the old
   time is taken back when the settings return: the settled check is only made for
   keys that have no row.
2. `carried`: "The snooze and the drafts are carried onto the regenerated row"
   (`jump-engine.ts:300`). Only onto a created one.
3. `backlog`: "The app MUST NOT send a backlog automatically"
   (`docs/standards/09-information-architecture-and-user-workflows.md:250`). Only
   the resumption of a stop marks what is due for the owner alone.
4. `resend`: "Durable claims prevent duplicate sending" (`docs/SECURITY.md:35`).
   Per row; an occurrence can have two. In the run the owner changes the time
   settings; before the next pass a worker sends the first row and the answer is
   lost, so its delivery is failed and the row still pending; the pass makes the row
   of the new time, cancels the first, and the new row is claimed and sent too.
   Nothing in it races: `TakingTurns` lets no two steps of different actors
   interleave.
5. `limits`: "Total committed capacity is customer accounts plus active unused
   customer invitations", "New grants must fit both limits"
   (`docs/ADMISSION_CONTROLS.md:17` and `:21`). Invitations that members send are not
   counted (`admission.ts:27-30`) and are made without a look at the limits
   (`referral-access.ts:57-66`).

## 6. Plan

What is next, in order, each with its MC module and run, and with proofs where the
properties are safety:

1. `AppointmentHolds`, then `MixWorkflow` and `Journey`, as parts of a pass.
2. `WorkerLoop`: periodic reconciliation over `JobQueue`, and that a workspace whose
   pass fails does not keep others from their turn.
3. Further questions to what exists: starvation of sending by failed follow-ups, an
   address that changes between the candidate read and the send, and the manual-only
   mark when a resumed follow-up is replaced.
4. `Notifications`, `StaffAccess`, `Billing`.
5. The safety parts of the other liveness properties, as was done for
   `EventuallyConverged`: what one undisturbed worker makes of a claim, a job, an import
   and a delivery.

### Not modelled, and why

Pages, components, formatting, generated code and the schema's plain fields have no
state of their own. Calendar feeds, capture, reports and the marketplace are reads or
single guarded writes. Phone canonicalization and file parsing are string algorithms.
Merge and bulk actions, support mail, plan limits, accounts and sessions are described
with their reasons in `PROJECT.json`. The modelled part is small beside the
repository, most of which is pages and their queries; it was chosen for the writes
that several actors make to the same rows.

Running: `tlc -config MCPreparation_one_pass.cfg MCPreparation`, and so on, and
`tlapm AutomaticSendingProofs.tla`.
