--------------------------- MODULE FollowUpsProofs ---------------------------
(***************************************************************************)
(* What holds of the follow-ups for any contacts, Beats, time settings and *)
(* wordings, and for any number of the owner's actions: the types, that a  *)
(* follow-up waits for the later of its planned time and its snooze, and   *)
(* that none that is wanted is left canceled for good.                     *)
(***************************************************************************)
EXTENDS FollowUps, TLAPS

\* A row of key k as it may be: SnoozeHolds is not inductive for pending rows alone,
\* since Reopen and a pass bring finished and canceled ones back, so the time must
\* be right on every row that exists.
GoodRow(k, r) ==
    /\ r \in Row
    /\ Coherent(r)
    /\ r.status # "none" => r.at = Later(Base(k), r.snoozed)

GoodRows == row \in [Keys -> Row] /\ \A k \in Keys : GoodRow(k, row[k])

Surroundings ==
    /\ drafts \subseteq Keys
    /\ saving \subseteq Keys
    /\ setup \in [mix : {"ACTIVE", "PAUSED", "ARCHIVED"}, stopped : SUBSET Contacts,
                  archived : SUBSET Contacts, dnc : SUBSET Contacts,
                  rule : Rules, wording : Wordings]
    /\ enrollment \in [Contacts -> [active : BOOLEAN, rev : Nat]]
    /\ clock \in Nat
    /\ edits \in Nat

IInv == GoodRows /\ Surroundings

-----------------------------------------------------------------------------
\* A key names a person and a planned time.
LEMMA KeyParts ==
    ASSUME NEW k \in Keys
    PROVE  Person(k) \in Contacts /\ Base(k) \in Nat
<1>1. PICK c \in Contacts, b \in Beats, r \in Rules : k = <<c, b, At[<<b, r>>]>>
  BY DEF Keys
<1>2. At[<<b, r>>] \in Nat
  BY FollowUpsAssumption
<1> QED
  BY <1>1, <1>2 DEF Person, Base

\* The later of two instants is an instant.
LEMMA LaterIsNat ==
    ASSUME NEW s \in Nat, NEW t \in Nat
    PROVE  Later(s, t) \in Nat
BY DEF Later

\* A canceled row keeps its times.
LEMMA CanceledRow ==
    ASSUME NEW k \in Keys, NEW r, GoodRow(k, r), r.status = "PENDING",
           NEW how \in CancellationMethods
    PROVE  GoodRow(k, [r EXCEPT !.status = "CANCELED", !.method = how])
<1> DEFINE c == [r EXCEPT !.status = "CANCELED", !.method = how]
<1>1. r \in Row /\ r.at = Later(Base(k), r.snoozed)
  BY DEF GoodRow
<1>2. how \in Methods
  BY DEF Methods
<1>3. c \in Row
  BY <1>1, <1>2 DEF Row, Statuses
<1>4. c.status = "CANCELED" /\ c.method = how /\ c.at = r.at /\ c.snoozed = r.snoozed
  BY <1>1 DEF Row
<1> HIDE DEF c
<1>5. Coherent(c)
  BY <1>4 DEF Coherent, Finished
<1>6. GoodRow(k, c)
  BY <1>1, <1>3, <1>4, <1>5 DEF GoodRow
<1> QED
  BY <1>6 DEF c

\* Canceling pending rows leaves every row as it may be.
LEMMA CancelKeepsRows ==
    ASSUME GoodRows, NEW S \in SUBSET Pending, NEW how \in CancellationMethods, Cancel(S, how)
    PROVE  GoodRows'
<1>1. ASSUME NEW k \in Keys PROVE GoodRow(k, row'[k])
  <2>1. CASE k \in S
    <3>1. row'[k] = [row[k] EXCEPT !.status = "CANCELED", !.method = how]
      BY <2>1 DEF Cancel
    <3>2. row[k].status = "PENDING"
      BY <2>1 DEF Pending
    <3>3. GoodRow(k, row[k])
      BY DEF GoodRows
    <3>4. GoodRow(k, [row[k] EXCEPT !.status = "CANCELED", !.method = how])
      BY <3>2, <3>3, CanceledRow
    <3> QED
      BY <3>1, <3>4
  <2>2. CASE k \notin S
    BY <2>2 DEF Cancel, GoodRows
  <2> QED
    BY <2>1, <2>2
<1>2. row' = [k \in Keys |-> row'[k]]
  BY DEF Cancel
<1>3. \A k \in Keys : row'[k] \in Row
  BY <1>1 DEF GoodRow
<1>4. row' \in [Keys -> Row]
  BY <1>2, <1>3
<1> QED
  BY <1>1, <1>4 DEF GoodRows

\* A write of one row leaves every row as it may be when that row is.
LEMMA OneRowChanges ==
    ASSUME GoodRows, NEW k \in Keys, NEW r, GoodRow(k, r), row' = [row EXCEPT ![k] = r]
    PROVE  GoodRows'
<1>1. row' \in [Keys -> Row]
  BY DEF GoodRows, GoodRow
<1>2. ASSUME NEW j \in Keys PROVE GoodRow(j, row'[j])
  <2>1. CASE j = k
    BY <2>1 DEF GoodRows
  <2>2. CASE j # k
    BY <2>2 DEF GoodRows
  <2> QED
    BY <2>1, <2>2
<1> QED
  BY <1>1, <1>2 DEF GoodRows, GoodRow

-----------------------------------------------------------------------------
LEMMA CompleteKeepsRows ==
    ASSUME GoodRows, NEW k \in Keys, Complete(k)
    PROVE  GoodRows'
<1>1. PICK s \in Finished :
         row' = [row EXCEPT ![k].status = s, ![k].method = "owner"]
  BY DEF Complete
<1> DEFINE r == [row[k] EXCEPT !.status = s, !.method = "owner"]
<1>2. GoodRow(k, row[k]) /\ row[k].status = "PENDING"
  BY DEF GoodRows, Complete
<1>3. GoodRow(k, r)
  BY <1>2 DEF GoodRow, Row, Coherent, Statuses, Finished, Methods
<1>4. row' = [row EXCEPT ![k] = r]
  BY <1>1 DEF GoodRows
<1> QED
  BY <1>3, <1>4, OneRowChanges

LEMMA ReopenKeepsRows ==
    ASSUME GoodRows, NEW k \in Keys, Reopen(k)
    PROVE  GoodRows'
<1> DEFINE r == [row[k] EXCEPT !.status = "PENDING", !.method = ""]
<1>1. GoodRow(k, row[k]) /\ row[k].status \in Finished
  BY DEF GoodRows, Reopen
<1>2. GoodRow(k, r)
  BY <1>1 DEF GoodRow, Row, Coherent, Statuses, Finished, Methods
<1>3. row' = [row EXCEPT ![k] = r]
  BY DEF Reopen, GoodRows
<1> QED
  BY <1>2, <1>3, OneRowChanges

LEMMA SnoozeKeepsRows ==
    ASSUME GoodRows, NEW k \in Keys, NEW t \in Nat, Snooze(k, t)
    PROVE  GoodRows'
<1> DEFINE r == [row[k] EXCEPT !.at = t, !.snoozed = t]
<1>1. GoodRow(k, row[k]) /\ row[k].status = "PENDING"
  BY DEF GoodRows, Snooze
<1>2. Later(Base(k), t) = t
  BY KeyParts DEF Later, Snooze
<1>3. GoodRow(k, r)
  BY <1>1, <1>2 DEF GoodRow, Row, Coherent
<1>4. row' = [row EXCEPT ![k] = r]
  BY DEF Snooze, GoodRows
<1> QED
  BY <1>3, <1>4, OneRowChanges

LEMMA SentKeepsRows ==
    ASSUME GoodRows, NEW k \in Keys, SentAutomatically(k)
    PROVE  GoodRows'
<1> DEFINE r == [row[k] EXCEPT !.status = "DONE", !.method = "automatic"]
<1>1. GoodRow(k, row[k]) /\ row[k].status = "PENDING"
  BY DEF GoodRows, SentAutomatically
<1>2. GoodRow(k, r)
  BY <1>1 DEF GoodRow, Row, Coherent, Statuses, Finished, Methods
<1>3. row' = [row EXCEPT ![k] = r]
  BY DEF SentAutomatically, GoodRows
<1> QED
  BY <1>2, <1>3, OneRowChanges

\* Resuming changes how a row was canceled and who may send it, not its times.
LEMMA ResumeKeepsRows ==
    ASSUME GoodRows, clock \in Nat, NEW c \in Contacts, ResumeMix(c)
    PROVE  GoodRows'
<1> DEFINE r(k) == [row[k] EXCEPT !.method = "reconciled",
                                  !.manualOnly = @ \/ row[k].at <= clock]
           Resumed(k) == /\ Person(k) = c
                         /\ row[k].status = "CANCELED"
                         /\ row[k].method = "mix_stopped_for_contact"
<1>1. row' = [k \in Keys |-> IF Resumed(k) THEN r(k) ELSE row[k]]
  BY DEF ResumeMix
<1>2. ASSUME NEW k \in Keys, Resumed(k) PROVE GoodRow(k, r(k))
  <2>1. GoodRow(k, row[k])
    BY DEF GoodRows
  <2>2. (row[k].manualOnly \/ row[k].at <= clock) \in BOOLEAN
    OBVIOUS
  <2> QED
    BY <1>2, <2>1, <2>2 DEF GoodRow, Row, Coherent, Statuses, Finished, Methods,
       CancellationMethods, ReconcilableMethods
<1>3. ASSUME NEW k \in Keys PROVE GoodRow(k, row'[k])
  <2>1. CASE Resumed(k)
    BY <1>1, <1>2, <2>1
  <2>2. CASE ~Resumed(k)
    BY <1>1, <2>2 DEF GoodRows
  <2> QED
    BY <2>1, <2>2
<1> QED
  BY <1>1, <1>3 DEF GoodRows, GoodRow

-----------------------------------------------------------------------------
\* Whatever a pass writes of a row is a row as it may be.
LEMMA ScheduledRowIsGood ==
    ASSUME GoodRows, clock \in Nat, NEW k \in Keys, NEW r \in ScheduledRows(k)
    PROVE  GoodRow(k, r)
<1>1. GoodRow(k, row[k]) /\ Base(k) \in Nat
  BY KeyParts DEF GoodRows
<1>2. ASSUME NEW s \in 0..MaxClock, NEW w \in Wordings, r = NewRow(k, s, w)
      PROVE  GoodRow(k, r)
  <2>1. s \in Nat
    BY FollowUpsAssumption
  <2>2. Later(Base(k), s) \in Nat
    BY <1>1, <2>1, LaterIsNat
  <2> QED
    BY <1>2, <2>1, <2>2 DEF NewRow, GoodRow, Row, Coherent, Statuses, Finished, Methods
<1>3. ASSUME NEW w \in Wordings, r = Prepared(k, row[k], w)
      PROVE  GoodRow(k, r)
  <2>1. row[k] \in Row
    BY <1>1 DEF GoodRow
  <2>2. row[k].snoozed \in Nat
    BY <2>1 DEF Row
  <2>3. Later(Base(k), row[k].snoozed) \in Nat
    BY <1>1, <2>2, LaterIsNat
  <2> QED
    BY <1>3, <2>1, <2>2, <2>3 DEF Prepared, GoodRow, Row, Coherent, Statuses, Finished, Methods
<1>4. ASSUME row[k].status = "PENDING",
             r = [row[k] EXCEPT !.status = "CANCELED", !.method = "reconciled"]
      PROVE  GoodRow(k, r)
  BY <1>1, <1>4, CanceledRow DEF CancellationMethods, ReconcilableMethods
<1>5. \/ \E s \in 0..MaxClock, w \in Wordings : r = NewRow(k, s, w)
      \/ \E w \in Wordings : r = Prepared(k, row[k], w)
      \/ /\ row[k].status = "PENDING"
         /\ r = [row[k] EXCEPT !.status = "CANCELED", !.method = "reconciled"]
  BY DEF ScheduledRows
<1> QED
  BY <1>2, <1>3, <1>4, <1>5

LEMMA SchedulerKeepsRows ==
    ASSUME GoodRows, clock \in Nat, SchedulerStep
    PROVE  GoodRows'
<1>1. ASSUME NEW k \in Keys PROVE GoodRow(k, row'[k])
  <2>1. CASE row'[k] = row[k]
    BY <2>1 DEF GoodRows
  <2>2. CASE row'[k] \in ScheduledRows(k)
    BY <2>2, ScheduledRowIsGood
  <2> QED
    BY <2>1, <2>2 DEF SchedulerStep
<1>2. row' = [k \in Keys |-> row'[k]]
  BY DEF SchedulerStep
<1>3. row' \in [Keys -> Row]
  BY <1>1, <1>2 DEF GoodRow
<1> QED
  BY <1>1, <1>3 DEF GoodRows, GoodRow

-----------------------------------------------------------------------------
\* Nothing pending, and nothing else, is what these actions cancel.
LEMMA PendingOfPersonIsPending ==
    ASSUME NEW c \in Contacts
    PROVE  PendingOf(c) \subseteq Pending
BY DEF PendingOf

LEMMA OwnerKeepsRows ==
    ASSUME GoodRows, clock \in Nat, OwnerAction
    PROVE  GoodRows'
<1>1. ASSUME UNCHANGED row PROVE GoodRows'
  BY <1>1 DEF GoodRows, GoodRow
<1>2. ASSUME NEW c \in Contacts, NEW how \in CancellationMethods, Cancel(PendingOf(c), how)
      PROVE  GoodRows'
  BY <1>2, PendingOfPersonIsPending, CancelKeepsRows
<1>3. {"mix_stopped_for_contact", "contact_archived", "do_not_contact", "mix_paused",
       "mix_archived", "reconciled"} \subseteq CancellationMethods
  BY DEF CancellationMethods, ReconcilableMethods
<1>4. ASSUME NEW k \in Keys, Complete(k) PROVE GoodRows'
  BY <1>4, CompleteKeepsRows
<1>5. ASSUME NEW k \in Keys, Reopen(k) PROVE GoodRows'
  BY <1>5, ReopenKeepsRows
<1>6. ASSUME NEW k \in Keys, BeginDraft(k) \/ DiscardDraft(k) PROVE GoodRows'
  BY <1>1, <1>6 DEF BeginDraft, DiscardDraft
<1>7. ASSUME NEW k \in Keys, NEW t \in 1..MaxClock, Snooze(k, t) PROVE GoodRows'
  <2>1. t \in Nat
    BY FollowUpsAssumption
  <2> QED
    BY <1>7, <2>1, SnoozeKeepsRows
<1>8. ASSUME NEW c \in Contacts, StopMix(c) PROVE GoodRows'
  BY <1>2, <1>3, <1>8 DEF StopMix
<1>9. ASSUME NEW c \in Contacts, ResumeMix(c) PROVE GoodRows'
  BY <1>9, ResumeKeepsRows
<1>10. ASSUME NEW c \in Contacts, ArchiveContact(c) PROVE GoodRows'
  BY <1>2, <1>3, <1>10 DEF ArchiveContact
<1>11. ASSUME NEW c \in Contacts, RestoreContact(c) \/ ClearDoNotContact(c) \/ StartEnrollment(c)
       PROVE  GoodRows'
  BY <1>1, <1>11 DEF RestoreContact, ClearDoNotContact, StartEnrollment
<1>12. ASSUME NEW c \in Contacts, SetDoNotContact(c) PROVE GoodRows'
  BY <1>2, <1>3, <1>12 DEF SetDoNotContact
<1>13. ASSUME NEW c \in Contacts, RemoveEnrollment(c) PROVE GoodRows'
  BY <1>2, <1>3, <1>13 DEF RemoveEnrollment
<1>14. CASE PauseMix
  <2>1. {k \in Pending : row[k].at >= clock} \subseteq Pending
    OBVIOUS
  <2> QED
    BY <1>3, <1>14, <2>1, CancelKeepsRows DEF PauseMix
<1>15. CASE ArchiveMix
  BY <1>3, <1>15, CancelKeepsRows DEF ArchiveMix
<1>16. CASE ActivateMix
  BY <1>1, <1>16 DEF ActivateMix
<1>17. ASSUME NEW r \in Rules, ChangeTimes(r) PROVE GoodRows'
  BY <1>1, <1>17 DEF ChangeTimes
<1>18. ASSUME NEW w \in Wordings, ChangeWording(w) PROVE GoodRows'
  BY <1>1, <1>18 DEF ChangeWording
<1> QED
  BY <1>4, <1>5, <1>6, <1>7, <1>8, <1>9, <1>10, <1>11, <1>12, <1>13, <1>14, <1>15, <1>16,
     <1>17, <1>18 DEF OwnerAction

\* What surrounds the rows keeps its type under the owner's actions.
LEMMA OwnerKeepsSurroundings ==
    ASSUME Surroundings, OwnerAction, clock' = clock, edits' = edits + 1
    PROVE  Surroundings'
<1> DEFINE SetupOK == setup \in [mix : {"ACTIVE", "PAUSED", "ARCHIVED"},
                                 stopped : SUBSET Contacts, archived : SUBSET Contacts,
                                 dnc : SUBSET Contacts, rule : Rules, wording : Wordings]
           EnrollmentOK == enrollment \in [Contacts -> [active : BOOLEAN, rev : Nat]]
<1>1. SetupOK /\ EnrollmentOK /\ drafts \subseteq Keys /\ saving \subseteq Keys
  BY DEF Surroundings
<1>2. ASSUME SetupOK', EnrollmentOK', drafts' \subseteq Keys, saving' \subseteq Keys
      PROVE  Surroundings'
  BY <1>2 DEF Surroundings
<1>3. ASSUME UNCHANGED <<setup, enrollment>>, drafts' \subseteq Keys, saving' \subseteq Keys
      PROVE  Surroundings'
  BY <1>1, <1>2, <1>3
<1>4. ASSUME SetupOK', UNCHANGED <<drafts, saving, enrollment>> PROVE Surroundings'
  BY <1>1, <1>2, <1>4
<1>5. ASSUME EnrollmentOK', UNCHANGED <<drafts, saving, setup>> PROVE Surroundings'
  BY <1>1, <1>2, <1>5
<1> HIDE DEF SetupOK, EnrollmentOK
<1>6. ASSUME NEW k \in Keys, Complete(k) PROVE Surroundings'
  <2>1. UNCHANGED <<drafts, saving, setup, enrollment>>
    BY <1>6 DEF Complete
  <2> QED
    BY <1>1, <1>3, <2>1
<1>7. ASSUME NEW k \in Keys, Reopen(k) PROVE Surroundings'
  <2>1. UNCHANGED <<drafts, saving, setup, enrollment>>
    BY <1>7 DEF Reopen
  <2> QED
    BY <1>1, <1>3, <2>1
<1>8. ASSUME NEW k \in Keys, NEW t \in 1..MaxClock, Snooze(k, t) PROVE Surroundings'
  <2>1. UNCHANGED <<drafts, saving, setup, enrollment>>
    BY <1>8 DEF Snooze
  <2> QED
    BY <1>1, <1>3, <2>1
<1>9. ASSUME NEW k \in Keys, BeginDraft(k) \/ DiscardDraft(k) PROVE Surroundings'
  BY <1>1, <1>3, <1>9 DEF BeginDraft, DiscardDraft
<1>10. ASSUME NEW c \in Contacts,
              \/ StopMix(c) \/ ResumeMix(c) \/ ArchiveContact(c) \/ RestoreContact(c)
              \/ SetDoNotContact(c) \/ ClearDoNotContact(c)
       PROVE  Surroundings'
  <2>1. UNCHANGED <<drafts, saving, enrollment>>
    BY <1>10 DEF StopMix, ResumeMix, ArchiveContact, RestoreContact, SetDoNotContact,
       ClearDoNotContact
  <2>2. \E S \in SUBSET Contacts :
           \/ setup' = [setup EXCEPT !.stopped = S]
           \/ setup' = [setup EXCEPT !.archived = S]
           \/ setup' = [setup EXCEPT !.dnc = S]
    <3>1. setup.stopped \in SUBSET Contacts /\ setup.archived \in SUBSET Contacts
          /\ setup.dnc \in SUBSET Contacts
      BY <1>1 DEF SetupOK
    <3>2. CASE StopMix(c)
      BY <3>1, <3>2, setup.stopped \cup {c} \in SUBSET Contacts DEF StopMix
    <3>3. CASE ResumeMix(c)
      BY <3>1, <3>3, setup.stopped \ {c} \in SUBSET Contacts DEF ResumeMix
    <3>4. CASE ArchiveContact(c)
      BY <3>1, <3>4, setup.archived \cup {c} \in SUBSET Contacts DEF ArchiveContact
    <3>5. CASE RestoreContact(c)
      BY <3>1, <3>5, setup.archived \ {c} \in SUBSET Contacts DEF RestoreContact
    <3>6. CASE SetDoNotContact(c)
      BY <3>1, <3>6, setup.dnc \cup {c} \in SUBSET Contacts DEF SetDoNotContact
    <3>7. CASE ClearDoNotContact(c)
      BY <3>1, <3>7, setup.dnc \ {c} \in SUBSET Contacts DEF ClearDoNotContact
    <3> QED
      BY <1>10, <3>2, <3>3, <3>4, <3>5, <3>6, <3>7
  <2>3. SetupOK'
    BY <1>1, <2>2 DEF SetupOK
  <2> QED
    BY <1>4, <2>1, <2>3
<1>11. ASSUME NEW c \in Contacts, RemoveEnrollment(c) \/ StartEnrollment(c)
       PROVE  Surroundings'
  <2>1. UNCHANGED <<drafts, saving, setup>>
    BY <1>11 DEF RemoveEnrollment, StartEnrollment
  <2>2. enrollment[c].rev + 1 \in Nat
    BY <1>1 DEF EnrollmentOK
  <2>3. PICK a \in BOOLEAN :
           enrollment' = [enrollment EXCEPT ![c] = [active |-> a, rev |-> enrollment[c].rev + 1]]
    BY <1>1, <1>11 DEF RemoveEnrollment, StartEnrollment, EnrollmentOK
  <2>4. [active |-> a, rev |-> enrollment[c].rev + 1] \in [active : BOOLEAN, rev : Nat]
    BY <2>2
  <2>5. EnrollmentOK'
    BY <1>1, <2>3, <2>4 DEF EnrollmentOK
  <2> QED
    BY <1>5, <2>1, <2>5
<1>12. CASE PauseMix
  <2>1. UNCHANGED <<drafts, saving, enrollment>> /\ setup' = [setup EXCEPT !.mix = "PAUSED"]
    BY <1>12 DEF PauseMix
  <2> QED
    BY <1>1, <1>4, <2>1 DEF SetupOK
<1>13. CASE ActivateMix
  <2>1. UNCHANGED <<drafts, saving, enrollment>> /\ setup' = [setup EXCEPT !.mix = "ACTIVE"]
    BY <1>13 DEF ActivateMix
  <2> QED
    BY <1>1, <1>4, <2>1 DEF SetupOK
<1>14. CASE ArchiveMix
  <2>1. /\ UNCHANGED <<drafts, saving>>
        /\ setup' = [setup EXCEPT !.mix = "ARCHIVED"]
        /\ enrollment' = [c \in Contacts |-> [active |-> FALSE, rev |-> enrollment[c].rev + 1]]
    BY <1>14 DEF ArchiveMix
  <2>2. SetupOK'
    BY <1>1, <2>1 DEF SetupOK
  <2>3. EnrollmentOK'
    BY <1>1, <2>1 DEF EnrollmentOK
  <2> QED
    BY <1>1, <1>2, <2>1, <2>2, <2>3
<1>15. ASSUME NEW r \in Rules, ChangeTimes(r) PROVE Surroundings'
  BY <1>1, <1>4, <1>15 DEF ChangeTimes, SetupOK
<1>16. ASSUME NEW w \in Wordings, ChangeWording(w) PROVE Surroundings'
  BY <1>1, <1>4, <1>16 DEF ChangeWording, SetupOK
<1> QED
  BY <1>6, <1>7, <1>8, <1>9, <1>10, <1>11, <1>12, <1>13, <1>14, <1>15, <1>16 DEF OwnerAction

-----------------------------------------------------------------------------
LEMMA InitEstablishes == Init => IInv
<1> SUFFICES ASSUME Init PROVE IInv
  OBVIOUS
<1>1. GoodRows
  <2>1. ASSUME NEW k \in Keys PROVE GoodRow(k, NoRow(setup.wording))
    BY DEF Init, GoodRow, NoRow, NoTime, Row, Coherent, Statuses, Finished, Methods
  <2>2. row = [k \in Keys |-> NoRow(setup.wording)]
    BY DEF Init
  <2> QED
    BY <2>1, <2>2 DEF GoodRows, GoodRow
<1>2. Surroundings
  <2>1. enrollment = [c \in Contacts |-> [active |-> TRUE, rev |-> 0]]
    BY DEF Init
  <2>2. enrollment \in [Contacts -> [active : BOOLEAN, rev : Nat]]
    BY <2>1
  <2>3. setup \in [mix : {"ACTIVE", "PAUSED", "ARCHIVED"}, stopped : SUBSET Contacts,
                   archived : SUBSET Contacts, dnc : SUBSET Contacts,
                   rule : Rules, wording : Wordings]
    BY DEF Init
  <2> QED
    BY <2>2, <2>3 DEF Init, Surroundings
<1> QED
  BY <1>1, <1>2 DEF IInv

LEMMA StepPreserves == IInv /\ [Next]_vars => IInv'
<1> SUFFICES ASSUME IInv, [Next]_vars PROVE IInv'
  OBVIOUS
<1>1. GoodRows /\ Surroundings /\ clock \in Nat
  BY DEF IInv, Surroundings
<1>2. ASSUME UNCHANGED row PROVE GoodRows'
  BY <1>1, <1>2 DEF GoodRows, GoodRow
<1>3. CASE OwnerStep
  BY <1>1, <1>3, OwnerKeepsRows, OwnerKeepsSurroundings DEF OwnerStep, IInv
<1>4. CASE FinishSave
  <2>1. UNCHANGED <<row, setup, enrollment, clock, edits>>
        /\ drafts' \subseteq Keys /\ saving' \subseteq Keys
    BY <1>1, <1>4 DEF FinishSave, InsertDraft, Surroundings
  <2> QED
    BY <1>1, <1>2, <2>1 DEF Surroundings, IInv
<1>5. CASE Tick
  <2>1. UNCHANGED <<row, drafts, saving, setup, enrollment, edits>> /\ clock' \in Nat
    BY <1>1, <1>5 DEF Tick
  <2> QED
    BY <1>1, <1>2, <2>1 DEF Surroundings, IInv
<1>6. CASE SchedulerStep
  <2>1. UNCHANGED <<saving, setup, enrollment, clock, edits>> /\ drafts' \subseteq Keys
    BY <1>6 DEF SchedulerStep, DraftsOnlyMove
  <2>2. GoodRows'
    BY <1>1, <1>6, SchedulerKeepsRows
  <2> QED
    BY <1>1, <2>1, <2>2 DEF Surroundings, IInv
<1>7. ASSUME NEW k \in Keys, SentAutomatically(k) PROVE IInv'
  <2>1. UNCHANGED <<drafts, saving, setup, enrollment, clock, edits>>
    BY <1>7 DEF SentAutomatically
  <2>2. GoodRows'
    BY <1>1, <1>7, SentKeepsRows
  <2> QED
    BY <1>1, <2>1, <2>2 DEF Surroundings, IInv
<1>8. CASE UNCHANGED vars
  BY <1>1, <1>2, <1>8 DEF vars, Surroundings, IInv
<1> QED
  BY <1>3, <1>4, <1>5, <1>6, <1>7, <1>8 DEF Next

LEMMA InvariantHolds == FollowUpsSpec => []IInv
BY InitEstablishes, StepPreserves, PTL DEF FollowUpsSpec

\* A row's status always agrees with how it came about: a canceled row names the
\* action that canceled it and a pending row names none, whoever wrote it.
THEOREM FollowUpsTypeCorrect == FollowUpsSpec => []TypeOK
<1>1. IInv => TypeOK
  BY DEF IInv, GoodRows, GoodRow, Surroundings, TypeOK
<1> QED
  BY <1>1, InvariantHolds, PTL

\* The owner's snooze is honoured by every writer of a follow-up: no pass, reopening,
\* resuming or cancellation and revival makes a pending row due before it.
THEOREM SnoozeIsHonoured == FollowUpsSpec => []SnoozeHolds
<1>1. IInv => SnoozeHolds
  BY DEF IInv, GoodRows, GoodRow, SnoozeHolds, Pending
<1> QED
  BY <1>1, InvariantHolds, PTL

-----------------------------------------------------------------------------
(* Nothing is stranded: a cancellation that no pass takes back is always   *)
(* held by what made it.                                                   *)

\* A stop's cancellations last as long as the stop, and an archived Mix stays so.
Held(k, r, s) ==
    r.status = "CANCELED" =>
        /\ r.method = "mix_stopped_for_contact" => Person(k) \in s.stopped
        /\ r.method = "mix_archived" => s.mix = "ARCHIVED"

HoldsAreMarked == \A k \in Keys : Held(k, row[k], setup)

\* A stop or an archive that stands goes on holding what it held.
LEMMA HeldLonger ==
    ASSUME NEW k \in Keys, NEW r, NEW s, NEW t, Held(k, r, s),
           s.stopped \subseteq t.stopped, s.mix = "ARCHIVED" => t.mix = "ARCHIVED"
    PROVE  Held(k, r, t)
BY DEF Held

\* Canceling holds what it cancels when the setup names the hold.
LEMMA CancelHolds ==
    ASSUME GoodRows, HoldsAreMarked, NEW S \in SUBSET Pending, NEW how \in CancellationMethods,
           Cancel(S, how),
           setup.stopped \subseteq setup'.stopped,
           setup.mix = "ARCHIVED" => setup'.mix = "ARCHIVED",
           how = "mix_stopped_for_contact" => \A k \in S : Person(k) \in setup'.stopped,
           how = "mix_archived" => setup'.mix = "ARCHIVED"
    PROVE  HoldsAreMarked'
<1>1. ASSUME NEW k \in Keys PROVE Held(k, row'[k], setup')
  <2>1. CASE k \in S
    <3>1. row'[k] = [row[k] EXCEPT !.status = "CANCELED", !.method = how]
      BY <2>1 DEF Cancel
    <3>2. row[k] \in Row
      BY DEF GoodRows
    <3>3. row'[k].method = how
      BY <3>1, <3>2 DEF Row
    <3> QED
      BY <2>1, <3>3 DEF Held
  <2>2. CASE k \notin S
    <3>1. row'[k] = row[k]
      BY <2>2 DEF Cancel
    <3> QED
      BY <3>1, HeldLonger DEF HoldsAreMarked
  <2> QED
    BY <2>1, <2>2
<1> QED
  BY <1>1 DEF HoldsAreMarked

\* Changing one row holds as long as the row is not one that a stop or archive canceled.
LEMMA OneRowHolds ==
    ASSUME GoodRows, HoldsAreMarked, NEW k \in Keys, NEW r, Held(k, r, setup),
           row' = [row EXCEPT ![k] = r], setup' = setup
    PROVE  HoldsAreMarked'
<1>1. ASSUME NEW j \in Keys PROVE Held(j, row'[j], setup)
  BY DEF GoodRows, HoldsAreMarked
<1> QED
  BY <1>1 DEF HoldsAreMarked

LEMMA ResumeHolds ==
    ASSUME GoodRows, HoldsAreMarked, Surroundings, NEW c \in Contacts, ResumeMix(c)
    PROVE  HoldsAreMarked'
<1>1. setup'.stopped = setup.stopped \ {c} /\ setup'.mix = setup.mix
  BY DEF ResumeMix, Surroundings
<1>2. ASSUME NEW k \in Keys PROVE Held(k, row'[k], setup')
  <2>1. Held(k, row[k], setup) /\ row[k] \in Row
    BY DEF HoldsAreMarked, GoodRows
  <2> DEFINE Resumed == /\ Person(k) = c
                        /\ row[k].status = "CANCELED"
                        /\ row[k].method = "mix_stopped_for_contact"
  <2>2. CASE Resumed
    <3>1. row'[k] = [row[k] EXCEPT !.method = "reconciled",
                                   !.manualOnly = @ \/ row[k].at <= clock]
      BY <2>2 DEF ResumeMix
    <3>2. row'[k].method = "reconciled"
      BY <2>1, <3>1 DEF Row
    <3> QED
      BY <3>2 DEF Held
  <2>3. CASE ~Resumed
    <3>1. row'[k] = row[k]
      BY <2>3 DEF ResumeMix
    <3> QED
      BY <1>1, <2>1, <2>3, <3>1 DEF Held
  <2> QED
    BY <2>2, <2>3
<1> QED
  BY <1>2 DEF HoldsAreMarked

\* A pass marks what it cancels as its own.
LEMMA SchedulerHolds ==
    ASSUME GoodRows, HoldsAreMarked, SchedulerStep
    PROVE  HoldsAreMarked'
<1>1. ASSUME NEW k \in Keys PROVE Held(k, row'[k], setup)
  <2>1. row[k] \in Row /\ Held(k, row[k], setup)
    BY DEF GoodRows, HoldsAreMarked
  <2>2. CASE row'[k] = row[k]
    BY <2>1, <2>2
  <2>3. CASE row'[k] \in ScheduledRows(k)
    <3>1. ASSUME NEW s \in 0..MaxClock, NEW w \in Wordings, row'[k] = NewRow(k, s, w)
          PROVE  row'[k].status = "PENDING"
      <4>1. NewRow(k, s, w).status = "PENDING"
        BY DEF NewRow
      <4> QED
        BY <3>1, <4>1
    <3>2. ASSUME NEW w \in Wordings, row'[k] = Prepared(k, row[k], w)
          PROVE  row'[k].status = "PENDING"
      <4>1. [row[k] EXCEPT !.status = "PENDING", !.method = "", !.wording = w,
                           !.at = Later(Base(k), row[k].snoozed)].status = "PENDING"
        BY <2>1 DEF Row
      <4> QED
        BY <3>2, <4>1 DEF Prepared
    <3>3. ASSUME row'[k] = [row[k] EXCEPT !.status = "CANCELED", !.method = "reconciled"]
          PROVE  row'[k].method = "reconciled"
      BY <2>1, <3>3 DEF Row
    <3>4. \/ \E s \in 0..MaxClock, w \in Wordings : row'[k] = NewRow(k, s, w)
          \/ \E w \in Wordings : row'[k] = Prepared(k, row[k], w)
          \/ row'[k] = [row[k] EXCEPT !.status = "CANCELED", !.method = "reconciled"]
      BY <2>3 DEF ScheduledRows
    <3>5. row'[k].status = "PENDING" \/ row'[k].method = "reconciled"
      BY <3>1, <3>2, <3>3, <3>4
    <3> QED
      BY <3>5 DEF Held
  <2> QED
    BY <2>2, <2>3 DEF SchedulerStep
<1> QED
  BY <1>1 DEF HoldsAreMarked, SchedulerStep

LEMMA OwnerHolds ==
    ASSUME GoodRows, HoldsAreMarked, Surroundings, OwnerAction
    PROVE  HoldsAreMarked'
<1>1. ASSUME UNCHANGED row, setup.stopped \subseteq setup'.stopped,
             setup.mix = "ARCHIVED" => setup'.mix = "ARCHIVED"
      PROVE  HoldsAreMarked'
  BY <1>1, HeldLonger DEF HoldsAreMarked
<1>2. {"mix_stopped_for_contact", "contact_archived", "do_not_contact", "mix_paused",
       "mix_archived", "reconciled"} \subseteq CancellationMethods
  BY DEF CancellationMethods, ReconcilableMethods
<1>3. ASSUME NEW k \in Keys, Complete(k) \/ Reopen(k) PROVE HoldsAreMarked'
  <2>1. row[k] \in Row
    BY DEF GoodRows
  <2>2. PICK s \in Finished \cup {"PENDING"}, m \in {"owner", ""} :
           row' = [row EXCEPT ![k] = [row[k] EXCEPT !.status = s, !.method = m]]
    BY <1>3 DEF Complete, Reopen, GoodRows
  <2>3. [row[k] EXCEPT !.status = s, !.method = m].status = s
    BY <2>1 DEF Row
  <2>4. Held(k, [row[k] EXCEPT !.status = s, !.method = m], setup)
    BY <2>2, <2>3 DEF Held, Finished
  <2>5. setup' = setup
    BY <1>3 DEF Complete, Reopen
  <2> QED
    BY <2>2, <2>4, <2>5, OneRowHolds
<1>4. ASSUME NEW k \in Keys, NEW t \in 1..MaxClock, Snooze(k, t) PROVE HoldsAreMarked'
  <2>1. row[k] \in Row /\ row[k].status = "PENDING"
    BY <1>4 DEF GoodRows, Snooze
  <2>2. row' = [row EXCEPT ![k] = [row[k] EXCEPT !.at = t, !.snoozed = t]] /\ setup' = setup
    BY <1>4 DEF Snooze, GoodRows
  <2>3. Held(k, [row[k] EXCEPT !.at = t, !.snoozed = t], setup)
    BY <2>1 DEF Held, Row
  <2> QED
    BY <2>2, <2>3, OneRowHolds
<1>5. ASSUME NEW k \in Keys, BeginDraft(k) \/ DiscardDraft(k) PROVE HoldsAreMarked'
  BY <1>1, <1>5 DEF BeginDraft, DiscardDraft
<1>6. ASSUME NEW c \in Contacts, StopMix(c) PROVE HoldsAreMarked'
  <2>1. /\ setup'.stopped = setup.stopped \cup {c} /\ setup'.mix = setup.mix
        /\ Cancel(PendingOf(c), "mix_stopped_for_contact")
    BY <1>6 DEF StopMix, Surroundings
  <2>2. PendingOf(c) \in SUBSET Pending /\ \A k \in PendingOf(c) : Person(k) = c
    BY DEF PendingOf
  <2> QED
    BY <1>2, <2>1, <2>2, CancelHolds
<1>7. ASSUME NEW c \in Contacts, ResumeMix(c) PROVE HoldsAreMarked'
  BY <1>7, ResumeHolds
<1>8. ASSUME NEW c \in Contacts, ArchiveContact(c) \/ SetDoNotContact(c) \/ RemoveEnrollment(c)
      PROVE  HoldsAreMarked'
  <2>1. setup'.stopped = setup.stopped /\ setup'.mix = setup.mix
    BY <1>8 DEF ArchiveContact, SetDoNotContact, RemoveEnrollment, Surroundings
  <2>2. PICK how \in {"contact_archived", "do_not_contact", "reconciled"} :
           Cancel(PendingOf(c), how)
    BY <1>8 DEF ArchiveContact, SetDoNotContact, RemoveEnrollment
  <2> QED
    BY <1>2, <2>1, <2>2, PendingOfPersonIsPending, CancelHolds
<1>9. ASSUME NEW c \in Contacts, RestoreContact(c) \/ ClearDoNotContact(c) \/ StartEnrollment(c)
      PROVE  HoldsAreMarked'
  <2>1. setup'.stopped = setup.stopped /\ setup'.mix = setup.mix /\ row' = row
    BY <1>9 DEF RestoreContact, ClearDoNotContact, StartEnrollment, Surroundings
  <2> QED
    BY <1>1, <2>1
<1>10. CASE PauseMix
  <2>1. /\ setup'.stopped = setup.stopped /\ setup.mix = "ACTIVE"
        /\ Cancel({k \in Pending : row[k].at >= clock}, "mix_paused")
    BY <1>10 DEF PauseMix, Surroundings
  <2>2. {k \in Pending : row[k].at >= clock} \in SUBSET Pending
    OBVIOUS
  <2> QED
    BY <1>2, <2>1, <2>2, CancelHolds
<1>11. CASE ActivateMix
  <2>1. setup'.stopped = setup.stopped /\ setup.mix = "PAUSED" /\ row' = row
    BY <1>11 DEF ActivateMix, Surroundings
  <2> QED
    BY <1>1, <2>1
<1>12. CASE ArchiveMix
  <2>1. /\ setup'.stopped = setup.stopped /\ setup'.mix = "ARCHIVED"
        /\ Cancel(Pending, "mix_archived")
    BY <1>12 DEF ArchiveMix, Surroundings
  <2> QED
    BY <1>2, <2>1, CancelHolds
<1>13. ASSUME (\E r \in Rules : ChangeTimes(r)) \/ (\E w \in Wordings : ChangeWording(w))
       PROVE  HoldsAreMarked'
  <2>1. setup'.stopped = setup.stopped /\ setup'.mix = setup.mix /\ row' = row
    BY <1>13 DEF ChangeTimes, ChangeWording, Surroundings
  <2> QED
    BY <1>1, <2>1
<1> QED
  BY <1>3, <1>4, <1>5, <1>6, <1>7, <1>8, <1>9, <1>10, <1>11, <1>12, <1>13 DEF OwnerAction

LEMMA HoldsStayMarked == IInv /\ HoldsAreMarked /\ [Next]_vars => HoldsAreMarked'
<1> SUFFICES ASSUME IInv, HoldsAreMarked, [Next]_vars PROVE HoldsAreMarked'
  OBVIOUS
<1>1. GoodRows /\ Surroundings
  BY DEF IInv
<1>2. CASE OwnerStep
  BY <1>1, <1>2, OwnerHolds DEF OwnerStep
<1>3. CASE FinishSave \/ Tick \/ UNCHANGED vars
  BY <1>3 DEF FinishSave, InsertDraft, Tick, vars, HoldsAreMarked
<1>4. CASE SchedulerStep
  BY <1>1, <1>4, SchedulerHolds
<1>5. ASSUME NEW k \in Keys, SentAutomatically(k) PROVE HoldsAreMarked'
  <2>1. row' = [row EXCEPT ![k] = [row[k] EXCEPT !.status = "DONE", !.method = "automatic"]]
        /\ setup' = setup
    BY <1>1, <1>5 DEF SentAutomatically, GoodRows
  <2>2. Held(k, [row[k] EXCEPT !.status = "DONE", !.method = "automatic"], setup)
    BY <1>1 DEF Held, GoodRows, Row
  <2> QED
    BY <1>1, <2>1, <2>2, OneRowHolds
<1> QED
  BY <1>2, <1>3, <1>4, <1>5 DEF Next

\* Whoever is wanted is not held.
LEMMA WantedIsNotHeld ==
    ASSUME NEW k \in Wanted
    PROVE  Person(k) \notin setup.stopped /\ setup.mix # "ARCHIVED"
<1>1. PICK c \in Contacts, b \in Beats :
         /\ k = <<c, b, At[<<b, setup.rule>>]>>
         /\ setup.mix = "ACTIVE" /\ c \notin setup.stopped
  BY DEF Wanted
<1> QED
  BY <1>1 DEF Person

LEMMA WantedIsKey ==
    ASSUME setup.rule \in Rules
    PROVE  Wanted \subseteq Keys
<1> SUFFICES ASSUME NEW k \in Wanted PROVE k \in Keys
  OBVIOUS
<1>1. PICK c \in Contacts, b \in Beats : k = <<c, b, At[<<b, setup.rule>>]>>
  BY DEF Wanted
<1> QED
  BY <1>1 DEF Keys

\* No stop, resumption, pause, archive or pass, in any order and however many, leaves a
\* follow-up the settings ask for canceled beyond what a pass may take back.
THEOREM NoFollowUpIsStranded == FollowUpsSpec => []NothingIsStranded
<1>1. Init => HoldsAreMarked
  <2> SUFFICES ASSUME Init, NEW k \in Keys PROVE Held(k, row[k], setup)
    BY DEF HoldsAreMarked
  <2>1. row[k] = NoRow(setup.wording)
    BY DEF Init
  <2>2. NoRow(setup.wording).status = "none"
    BY DEF NoRow
  <2> QED
    BY <2>1, <2>2 DEF Held
<1>2. FollowUpsSpec => []HoldsAreMarked
  BY <1>1, HoldsStayMarked, InvariantHolds, PTL DEF FollowUpsSpec
<1>3. IInv /\ HoldsAreMarked => NothingIsStranded
  <2> SUFFICES ASSUME IInv, HoldsAreMarked, NEW k \in Wanted, row[k].status = "CANCELED"
               PROVE  CanReconcile(row[k])
    BY DEF NothingIsStranded
  <2>1. k \in Keys
    BY WantedIsKey DEF IInv, Surroundings
  <2>2. row[k].method \in CancellationMethods
    BY <2>1 DEF IInv, GoodRows, GoodRow, Coherent, Finished
  <2>3. row[k].method # "mix_stopped_for_contact" /\ row[k].method # "mix_archived"
    BY <2>1, WantedIsNotHeld DEF HoldsAreMarked, Held
  <2> QED
    BY <2>2, <2>3 DEF CanReconcile, CancellationMethods
<1> QED
  BY <1>2, <1>3, InvariantHolds, PTL

=============================================================================
