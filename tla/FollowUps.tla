------------------------------ MODULE FollowUps ------------------------------
(***************************************************************************)
(* The follow-ups of one Mix and what may write them.                      *)
(*                                                                         *)
(* A Mix is a sequence of Beats that people are enrolled in.  Each Beat a  *)
(* person reaches is one Jump row (a follow-up) whose uniqueness key holds *)
(* the person, the Beat and the local time it is planned for, so a change  *)
(* of the time settings gives the same occurrence another key.  The module *)
(* has the state of those rows, the owner's actions on them, one action    *)
(* per server action or route, and SchedulerStep, which is all that a      *)
(* scheduler pass promises about its writes.  Preparation implements that  *)
(* promise; AutomaticSending relies on it.                                 *)
(***************************************************************************)
EXTENDS Naturals, FiniteSets

CONSTANTS
    Contacts,   \* the people of one workspace
    Beats,      \* the active Beats of the Mix
    Rules,      \* the time settings the owner can choose between
    Wordings,   \* the texts the Beats can render to
    At,         \* At[<<b, r>>]: when Beat b is planned under time settings r
    MaxClock,   \* bound: the last instant of the model's clock
    MaxEdits    \* bound: how many actions the owner takes

NoTime == 0

ASSUME FollowUpsAssumption ==
    /\ At \in [Beats \X Rules -> Nat \ {NoTime}]
    /\ MaxClock \in Nat
    /\ MaxEdits \in Nat

Keys == {<<c, b, At[<<b, r>>]>> : c \in Contacts, b \in Beats, r \in Rules}

Person(k) == k[1]
Base(k) == k[3]                    \* baseScheduledAt, part of the key
Occurrence(k) == <<k[1], k[2]>>    \* what a time change leaves the same

VARIABLES
    row,        \* the Jump row of each key
    drafts,     \* the keys whose row has an owner's draft
    saving,     \* drafts being saved: the row was read as pending, the insert is to come
    setup,      \* the Mix, the settings and the holds the owner controls
    enrollment, \* one MixAssignment per person, with its revision (updatedAt)
    clock,
    edits       \* how many actions the owner has taken

vars == <<row, drafts, saving, setup, enrollment, clock, edits>>

Statuses == {"none", "PENDING", "DONE", "SKIPPED", "CANCELED"}
Finished == {"DONE", "SKIPPED"}

\* completionMethod: "" is null, "owner" any outcome the owner recorded.
ReconcilableMethods == {"reconciled", "mix_paused", "contact_archived", "do_not_contact"}
CancellationMethods == ReconcilableMethods \cup {"mix_stopped_for_contact", "mix_archived"}
Methods == CancellationMethods \cup {"", "owner", "automatic"}

Row == [status : Statuses, method : Methods, at : Nat, snoozed : Nat,
        manualOnly : BOOLEAN, wording : Wordings, born : Nat]

NoRow(w) == [status |-> "none", method |-> "", at |-> NoTime, snoozed |-> NoTime,
             manualOnly |-> FALSE, wording |-> w, born |-> NoTime]

\* A status and how it came about belong together.
Coherent(r) ==
    CASE r.status \in {"none", "PENDING"} -> r.method = ""
      [] r.status \in Finished -> r.method \in {"owner", "automatic"}
      [] r.status = "CANCELED" -> r.method \in CancellationMethods

TypeOK ==
    /\ row \in [Keys -> Row]
    /\ \A k \in Keys : Coherent(row[k])
    /\ drafts \subseteq Keys
    /\ saving \subseteq Keys
    /\ setup \in [mix : {"ACTIVE", "PAUSED", "ARCHIVED"}, stopped : SUBSET Contacts,
                  archived : SUBSET Contacts, dnc : SUBSET Contacts,
                  rule : Rules, wording : Wordings]
    /\ enrollment \in [Contacts -> [active : BOOLEAN, rev : Nat]]
    /\ clock \in Nat
    /\ edits \in Nat

Later(s, t) == IF s > t THEN s ELSE t

Pending == {k \in Keys : row[k].status = "PENDING"}
PendingOf(c) == {k \in Pending : Person(k) = c}

\* Broken: takes every cancellation back.
CanReconcileAny(r) == r.status \in {"PENDING", "CANCELED"}

\* A pending row, or a cancellation that a pass may take back.
CanReconcile(r) ==
    \/ r.status = "PENDING"
    \/ r.status = "CANCELED" /\ r.method \in ReconcilableMethods

\* The rows the settings of this moment ask for.
Wanted ==
    {<<c, b, At[<<b, setup.rule>>]>> :
        c \in {x \in Contacts : /\ setup.mix = "ACTIVE"
                                /\ enrollment[x].active
                                /\ x \notin setup.stopped
                                /\ x \notin setup.archived
                                /\ x \notin setup.dnc},
        b \in Beats}

-----------------------------------------------------------------------------
(* The owner's actions.                                                    *)

Cancel(S, how) ==
    row' = [k \in Keys |-> IF k \in S
                           THEN [row[k] EXCEPT !.status = "CANCELED", !.method = how]
                           ELSE row[k]]

Complete(k) ==
    /\ row[k].status = "PENDING"
    /\ \E s \in Finished : row' = [row EXCEPT ![k].status = s, ![k].method = "owner"]
    /\ UNCHANGED <<drafts, saving, setup, enrollment>>

Reopen(k) ==
    /\ row[k].status \in Finished
    /\ row' = [row EXCEPT ![k].status = "PENDING", ![k].method = ""]
    /\ UNCHANGED <<drafts, saving, setup, enrollment>>

\* A snooze is a chosen time in the future that may not be before the base.
Snooze(k, t) ==
    /\ row[k].status = "PENDING"
    /\ t > clock
    /\ t >= Base(k)
    /\ row' = [row EXCEPT ![k].at = t, ![k].snoozed = t]
    /\ UNCHANGED <<drafts, saving, setup, enrollment>>

\* A first save reads that the row is pending, then inserts the draft: nothing
\* holds the row in between, and the insert does not write the Jump row.
BeginDraft(k) ==
    /\ row[k].status = "PENDING"
    /\ k \notin drafts
    /\ saving' = saving \cup {k}
    /\ UNCHANGED <<row, drafts, setup, enrollment>>

InsertDraft(k) ==
    /\ k \in saving
    /\ saving' = saving \ {k}
    /\ drafts' = drafts \cup {k}
    /\ UNCHANGED <<row, setup, enrollment>>

DiscardDraft(k) ==
    /\ k \in drafts
    /\ drafts' = drafts \ {k}
    /\ UNCHANGED <<row, saving, setup, enrollment>>

StopMix(c) ==
    /\ c \notin setup.archived
    /\ setup' = [setup EXCEPT !.stopped = @ \cup {c}]
    /\ Cancel(PendingOf(c), "mix_stopped_for_contact")
    /\ UNCHANGED <<drafts, saving, enrollment>>

\* Broken: lifts the stop and leaves its cancellations as they are.
ResumeMixKeepingMarks(c) ==
    /\ c \in setup.stopped
    /\ setup' = [setup EXCEPT !.stopped = @ \ {c}]
    /\ UNCHANGED <<row, drafts, saving, enrollment>>

\* Resuming hands the stop's cancellations to the scheduler; those already due
\* come back for the owner alone.
ResumeMix(c) ==
    /\ c \in setup.stopped
    /\ setup' = [setup EXCEPT !.stopped = @ \ {c}]
    /\ row' = [k \in Keys |->
                 IF /\ Person(k) = c
                    /\ row[k].status = "CANCELED"
                    /\ row[k].method = "mix_stopped_for_contact"
                 THEN [row[k] EXCEPT !.method = "reconciled",
                                     !.manualOnly = @ \/ row[k].at <= clock]
                 ELSE row[k]]
    /\ UNCHANGED <<drafts, saving, enrollment>>

ArchiveContact(c) ==
    /\ c \notin setup.archived
    /\ setup' = [setup EXCEPT !.archived = @ \cup {c}]
    /\ Cancel(PendingOf(c), "contact_archived")
    /\ UNCHANGED <<drafts, saving, enrollment>>

RestoreContact(c) ==
    /\ c \in setup.archived
    /\ setup' = [setup EXCEPT !.archived = @ \ {c}]
    /\ UNCHANGED <<row, drafts, saving, enrollment>>

SetDoNotContact(c) ==
    /\ c \notin setup.archived
    /\ setup' = [setup EXCEPT !.dnc = @ \cup {c}]
    /\ Cancel(PendingOf(c), "do_not_contact")
    /\ UNCHANGED <<drafts, saving, enrollment>>

ClearDoNotContact(c) ==
    /\ c \notin setup.archived
    /\ c \in setup.dnc
    /\ setup' = [setup EXCEPT !.dnc = @ \ {c}]
    /\ UNCHANGED <<row, drafts, saving, enrollment>>

\* Pausing cancels what is still to come; what is overdue stays pending until
\* the next pass finds that nothing wants it.
PauseMix ==
    /\ setup.mix = "ACTIVE"
    /\ setup' = [setup EXCEPT !.mix = "PAUSED"]
    /\ Cancel({k \in Pending : row[k].at >= clock}, "mix_paused")
    /\ UNCHANGED <<drafts, saving, enrollment>>

ActivateMix ==
    /\ setup.mix = "PAUSED"
    /\ setup' = [setup EXCEPT !.mix = "ACTIVE"]
    /\ UNCHANGED <<row, drafts, saving, enrollment>>

ArchiveMix ==
    /\ setup.mix # "ARCHIVED"
    /\ setup' = [setup EXCEPT !.mix = "ARCHIVED"]
    /\ enrollment' = [c \in Contacts |-> [active |-> FALSE, rev |-> enrollment[c].rev + 1]]
    /\ Cancel(Pending, "mix_archived")
    /\ UNCHANGED <<drafts, saving>>

\* Removing locks the enrollment row, then ends the run's pending rows.
RemoveEnrollment(c) ==
    /\ enrollment' = [enrollment EXCEPT ![c] = [active |-> FALSE, rev |-> @.rev + 1]]
    /\ Cancel(PendingOf(c), "reconciled")
    /\ UNCHANGED <<drafts, saving, setup>>

StartEnrollment(c) ==
    /\ setup.mix = "ACTIVE"
    /\ c \notin setup.archived
    /\ c \notin setup.dnc
    /\ c \notin setup.stopped
    /\ enrollment' = [enrollment EXCEPT ![c] = [active |-> TRUE, rev |-> @.rev + 1]]
    /\ UNCHANGED <<row, drafts, saving, setup>>

ChangeTimes(r) ==
    /\ r # setup.rule
    /\ setup' = [setup EXCEPT !.rule = r]
    /\ UNCHANGED <<row, drafts, saving, enrollment>>

ChangeWording(w) ==
    /\ w # setup.wording
    /\ setup' = [setup EXCEPT !.wording = w]
    /\ UNCHANGED <<row, drafts, saving, enrollment>>

OwnerAction ==
    \/ \E k \in Keys : \/ Complete(k)
                       \/ Reopen(k)
                       \/ BeginDraft(k)
                       \/ DiscardDraft(k)
                       \/ \E t \in 1..MaxClock : Snooze(k, t)
    \/ \E c \in Contacts : \/ StopMix(c)
                           \/ ResumeMix(c)
                           \/ ArchiveContact(c)
                           \/ RestoreContact(c)
                           \/ SetDoNotContact(c)
                           \/ ClearDoNotContact(c)
                           \/ RemoveEnrollment(c)
                           \/ StartEnrollment(c)
    \/ PauseMix
    \/ ActivateMix
    \/ ArchiveMix
    \/ \E r \in Rules : ChangeTimes(r)
    \/ \E w \in Wordings : ChangeWording(w)

OwnerStep ==
    /\ edits < MaxEdits
    /\ edits' = edits + 1
    /\ OwnerAction
    /\ UNCHANGED clock

\* The second half of a save that is under way: not a new action of the owner.
FinishSave == \E k \in Keys : InsertDraft(k) /\ UNCHANGED <<clock, edits>>

Tick ==
    /\ clock < MaxClock
    /\ clock' = clock + 1
    /\ UNCHANGED <<row, drafts, saving, setup, enrollment, edits>>

-----------------------------------------------------------------------------
(* What a scheduler pass promises, and automatic sending.                  *)

\* Broken: does not clear how the row was canceled.
PreparedKeepingMethod(k, r, w) ==
    [r EXCEPT !.status = "PENDING", !.wording = w, !.at = Later(Base(k), r.snoozed)]

\* Broken: writes the planned time over the owner's snooze.
PreparedForgettingSnooze(k, r, w) ==
    [r EXCEPT !.status = "PENDING", !.method = "", !.wording = w, !.at = Base(k)]

\* A prepared row keeps its snooze and its manual-only mark, and its time is the
\* later of the base and the snooze.
Prepared(k, r, w) ==
    [r EXCEPT !.status = "PENDING", !.method = "", !.wording = w,
              !.at = Later(Base(k), r.snoozed)]

NewRow(k, s, w) ==
    [status |-> "PENDING", method |-> "", at |-> Later(Base(k), s), snoozed |-> s,
     manualOnly |-> FALSE, wording |-> w, born |-> clock]

\* The rows one write of a pass can make of k's row.
ScheduledRows(k) ==
    CASE row[k].status = "none" -> {NewRow(k, s, w) : s \in 0..MaxClock, w \in Wordings}
      [] row[k].status = "PENDING" ->
            {Prepared(k, row[k], w) : w \in Wordings}
            \cup {[row[k] EXCEPT !.status = "CANCELED", !.method = "reconciled"]}
      [] CanReconcile(row[k]) /\ row[k].status = "CANCELED" ->
            {Prepared(k, row[k], w) : w \in Wordings}
      [] OTHER -> {}

\* Drafts only move, from a pending row to the row of the same occurrence.
DraftsOnlyMove ==
    /\ drafts' \subseteq Keys
    /\ Cardinality(drafts') = Cardinality(drafts)
    /\ \A k \in drafts \ drafts' :
          /\ row[k].status = "PENDING"
          /\ \E j \in drafts' \ drafts : Occurrence(j) = Occurrence(k)

SchedulerStep ==
    /\ row' = [k \in Keys |-> row'[k]]
    /\ \A k \in Keys : row'[k] = row[k] \/ row'[k] \in ScheduledRows(k)
    /\ DraftsOnlyMove
    /\ UNCHANGED <<saving, setup, enrollment, clock, edits>>

\* The one thing automatic sending does to a follow-up.
SentAutomatically(k) ==
    /\ row[k].status = "PENDING"
    /\ row' = [row EXCEPT ![k].status = "DONE", ![k].method = "automatic"]
    /\ UNCHANGED <<drafts, saving, setup, enrollment, clock, edits>>

-----------------------------------------------------------------------------
\* The Mix is active, everyone is enrolled, and nothing is prepared yet.
Init ==
    /\ setup \in [mix : {"ACTIVE"}, stopped : {{}}, archived : {{}}, dnc : {{}},
                  rule : Rules, wording : Wordings]
    /\ row = [k \in Keys |-> NoRow(setup.wording)]
    /\ drafts = {}
    /\ saving = {}
    /\ enrollment = [c \in Contacts |-> [active |-> TRUE, rev |-> 0]]
    /\ clock = 0
    /\ edits = 0

Next ==
    \/ OwnerStep
    \/ FinishSave
    \/ Tick
    \/ SchedulerStep
    \/ \E k \in Keys : SentAutomatically(k)

FollowUpsSpec == Init /\ [][Next]_vars

-----------------------------------------------------------------------------
\* A follow-up waits for the later of its planned time and the owner's snooze,
\* whichever of the two writers, owner or scheduler, wrote its time last.
SnoozeHolds ==
    \A k \in Pending : row[k].at = Later(Base(k), row[k].snoozed)

\* No follow-up is lost for good: whatever order stops, resumptions, pauses, archives
\* and passes come in, a canceled follow-up that the settings ask for again is one that
\* a pass may take back.
NothingIsStranded ==
    \A k \in Wanted : row[k].status = "CANCELED" => CanReconcile(row[k])

=============================================================================
