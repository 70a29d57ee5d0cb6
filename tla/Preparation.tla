----------------------------- MODULE Preparation -----------------------------
(***************************************************************************)
(* Scheduler passes (reconcileJumps) beside the owner.                     *)
(*                                                                         *)
(* A pass reads the enrollments, stops and carried rows, then the finished *)
(* rows, then the settings, then the rows it wants; it creates what is     *)
(* missing and updates what changed in two transactions, and last reads    *)
(* and cancels what is left pending and unwanted.  Every read and write is *)
(* a step of its own, because nothing locks the workspace in between: two  *)
(* passes (the queued job and the periodic one, of any worker) and the     *)
(* owner interleave with it.  What a pass knows of later writes is what    *)
(* its guards ask the database: `fresh' are the rows written since it      *)
(* began (createdAt, updatedAt), `moved' those written since it read them. *)
(***************************************************************************)
EXTENDS FollowUps

CONSTANTS
    Passes,     \* the passes that can be under way at once
    MaxCrashes  \* bound: how many passes die with their worker

ASSUME PreparationAssumption == MaxCrashes \in Nat

VARIABLES
    pass,       \* what each pass has read and is about to do
    crashes     \* how many passes have died

prepVars == <<row, drafts, saving, setup, enrollment, clock, edits, pass, crashes>>

PassSteps == {"idle", "settled", "settings", "rows", "create", "update", "stale", "cancel"}

Create == [key : Keys, snoozed : Nat, from : SUBSET Keys]

PassType ==
    [pc : PassSteps,
     people : SUBSET (Contacts \X Nat),   \* enrolled people, with the revision read
     wording : Wordings,
     owned : SUBSET (Keys \X Nat),        \* rows with a snooze or a draft, to carry
     settled : SUBSET (Contacts \X Beats),
     desired : SUBSET Keys,
     creates : SUBSET Create,
     updates : SUBSET Keys,
     stale : SUBSET Keys,
     fresh : SUBSET Keys,
     moved : SUBSET Keys]

Idle(w) ==
    [pc |-> "idle", people |-> {}, wording |-> w, owned |-> {}, settled |-> {},
     desired |-> {}, creates |-> {}, updates |-> {}, stale |-> {}, fresh |-> {}, moved |-> {}]

\* A plan stays within the rows the pass wants, and names a row once.
PassTypeOK ==
    /\ pass \in [Passes -> PassType]
    /\ crashes \in Nat
    /\ \A p \in Passes :
          LET q == pass[p]
          IN  /\ q.updates \cup {e.key : e \in q.creates} \subseteq q.desired
              /\ \A e \in q.creates : e.key \notin q.updates

-----------------------------------------------------------------------------
\* The rows this step writes, and what every other pass will see of them.
Written == {k \in Keys : row'[k] # row[k]}

Noticed(q) ==
    IF q.pc = "idle" THEN q
    ELSE [q EXCEPT !.fresh = @ \cup Written, !.moved = @ \cup (Written \cap q.updates)]

\* The step of pass p that leaves its own state at q.
Pass(p, q) == pass' = [x \in Passes |-> Noticed(IF x = p THEN q ELSE pass[x])]

ReadOnly == UNCHANGED <<row, drafts>>

\* now, the enrollments with their Mix and people, the stops, and the pending
\* rows whose snooze or draft may have to be carried: the reads the pass issues
\* together.
Begin(p) ==
    /\ pass[p].pc = "idle"
    /\ ReadOnly
    /\ Pass(p, [Idle(setup.wording) EXCEPT
          !.pc = "settled",
          !.people = {<<c, enrollment[c].rev>> :
                        c \in {x \in Contacts : /\ setup.mix = "ACTIVE"
                                                /\ enrollment[x].active
                                                /\ x \notin setup.archived
                                                /\ x \notin setup.stopped}},
          !.owned = {<<k, row[k].snoozed>> :
                        k \in {x \in Pending : row[x].snoozed # NoTime \/ x \in drafts}}])

ReadSettled(p) ==
    /\ pass[p].pc = "settled"
    /\ ReadOnly
    /\ Pass(p, [pass[p] EXCEPT
          !.pc = "settings",
          !.settled = {Occurrence(k) : k \in {x \in Keys : row[x].status \in Finished}}])

\* Time settings and Do not contact decide the rows this pass wants; the Beats are read after them.
ReadSettings(p) ==
    /\ pass[p].pc = "settings"
    /\ ReadOnly
    /\ Pass(p, [pass[p] EXCEPT
          !.pc = "rows",
          !.wording = setup.wording,
          !.desired = {<<e[1], b, At[<<b, setup.rule>>]>> :
                          e \in {x \in pass[p].people : x[1] \notin setup.dnc}, b \in Beats}])

\* At most one row per occurrence is carried; with several, the last one read wins.
CarryChoice(owned, choice) ==
    /\ \A e, f \in choice : Occurrence(e[1]) = Occurrence(f[1]) => e = f
    /\ \A e \in owned : \E f \in choice : Occurrence(e[1]) = Occurrence(f[1])

PlannedCreate(k, q, choice) ==
    LET carried == {e \in choice : Occurrence(e[1]) = Occurrence(k) /\ e[1] \notin q.desired}
    IN  [key |-> k,
         snoozed |-> IF carried = {} THEN NoTime ELSE (CHOOSE e \in carried : TRUE)[2],
         from |-> {e[1] : e \in carried}]

MissingRows(q) ==
    {k \in q.desired : row[k].status = "none" /\ Occurrence(k) \notin q.settled}

\* Broken: looks at every row there is, wanted or not.
ChangedRowsOfAll(q) ==
    {k \in Keys : CanReconcile(row[k]) /\ row[k] # Prepared(k, row[k], q.wording)}

ChangedRows(q) ==
    {k \in q.desired : /\ CanReconcile(row[k])
                       /\ row[k] # Prepared(k, row[k], q.wording)}

\* Broken: with nothing to create, the updates are left out.
AfterReadOnlyCreates(q) == IF q.creates # {} THEN "create" ELSE "stale"

AfterRead(q) ==
    IF q.creates # {} THEN "create" ELSE IF q.updates # {} THEN "update" ELSE "stale"

ReadRows(p) ==
    /\ pass[p].pc = "rows"
    /\ ReadOnly
    /\ \E choice \in SUBSET pass[p].owned :
          /\ CarryChoice(pass[p].owned, choice)
          /\ LET q == [pass[p] EXCEPT
                         !.owned = {}, !.settled = {},
                         !.creates = {PlannedCreate(k, pass[p], choice) : k \in MissingRows(pass[p])},
                         !.updates = ChangedRows(pass[p])]
             IN  Pass(p, [q EXCEPT !.pc = AfterRead(q)])

\* Broken: what the pass read of the enrollments is good enough.
AllowedAsRead(q, k) == \E e \in q.people : e[1] = Person(k)

\* Enrollments are locked and must still be active at the revision the pass read.
Allowed(q, k) ==
    /\ enrollment[Person(k)].active
    /\ <<Person(k), enrollment[Person(k)].rev>> \in q.people

\* The carried draft moves while its source is pending, unless the new row has one.
Carries(creates) ==
    {e \in creates : /\ e.from # {}
                     /\ e.from \subseteq drafts
                     /\ \A k \in e.from : row'[k].status = "PENDING"
                     /\ e.key \notin drafts}

CreateRows(p) ==
    /\ pass[p].pc = "create"
    /\ LET q == pass[p]
           landing == {e \in q.creates : Allowed(q, e.key)}
       IN  /\ row' = [k \in Keys |->
                        IF row[k].status = "none" /\ \E e \in landing : e.key = k
                        THEN NewRow(k, (CHOOSE e \in landing : e.key = k).snoozed, q.wording)
                        ELSE row[k]]
           /\ LET carries == Carries(landing)
              IN  drafts' = (drafts \ UNION {e.from : e \in carries})
                            \cup {e.key : e \in carries}
           /\ Pass(p, [q EXCEPT !.creates = {},
                                !.pc = IF q.updates # {} THEN "update" ELSE "stale"])

\* Broken: the write is not guarded.
UnmovedOrNot(q, k) == TRUE

\* Guarded on the row exactly as this pass read it.
Unmoved(q, k) == k \notin q.moved

UpdateRows(p) ==
    /\ pass[p].pc = "update"
    /\ LET q == pass[p]
       IN  /\ row' = [k \in Keys |->
                        IF k \in q.updates /\ Allowed(q, k) /\ Unmoved(q, k)
                        THEN Prepared(k, row[k], q.wording)
                        ELSE row[k]]
           /\ Pass(p, [q EXCEPT !.updates = {}, !.moved = {}, !.people = {}, !.pc = "stale"])
    /\ UNCHANGED drafts

\* Broken: also the rows the pass wants.
StaleRowsWantedToo(q) == {k \in Pending : k \notin q.fresh}

\* Pending, not wanted, and not written since the pass began.
StaleRows(q) == {k \in Pending : k \notin q.desired /\ k \notin q.fresh}

ReadStale(p) ==
    /\ pass[p].pc = "stale"
    /\ ReadOnly
    /\ Pass(p, IF StaleRows(pass[p]) = {} THEN Idle(setup.wording)
               ELSE [Idle(setup.wording) EXCEPT !.pc = "cancel", !.stale = StaleRows(pass[p])])

\* Broken: cancels what it read, pending or not.
CancelStaleUnguarded(p) ==
    /\ pass[p].pc = "cancel"
    /\ Cancel(pass[p].stale, "reconciled")
    /\ Pass(p, Idle(setup.wording))
    /\ UNCHANGED drafts

CancelStale(p) ==
    /\ pass[p].pc = "cancel"
    /\ Cancel(pass[p].stale \cap Pending, "reconciled")
    /\ Pass(p, Idle(setup.wording))
    /\ UNCHANGED drafts

PassStep(p) ==
    /\ \/ Begin(p)
       \/ ReadSettled(p)
       \/ ReadSettings(p)
       \/ ReadRows(p)
       \/ CreateRows(p)
       \/ UpdateRows(p)
       \/ ReadStale(p)
       \/ CancelStale(p)
    /\ UNCHANGED <<saving, setup, enrollment, clock, edits, crashes>>

\* The worker dies; the queued or the next periodic pass starts over.
Crash(p) ==
    /\ crashes < MaxCrashes
    /\ pass[p].pc # "idle"
    /\ crashes' = crashes + 1
    /\ pass' = [pass EXCEPT ![p] = Idle(setup.wording)]
    /\ UNCHANGED vars

-----------------------------------------------------------------------------
PrepInit ==
    /\ Init
    /\ pass = [p \in Passes |-> Idle(setup.wording)]
    /\ crashes = 0

OthersStep ==
    /\ OwnerStep \/ FinishSave \/ Tick
    /\ pass' = [x \in Passes |-> Noticed(pass[x])]
    /\ UNCHANGED crashes

PrepNext == OthersStep \/ \E p \in Passes : PassStep(p) \/ Crash(p)

PrepSpec == PrepInit /\ [][PrepNext]_prepVars

\* A pass that has begun goes on, and the periodic schedule begins another.
PrepFairness == \A p \in Passes : WF_prepVars(PassStep(p))

FairPrepSpec == PrepSpec /\ PrepFairness /\ WF_prepVars(OthersStep /\ FinishSave)

-----------------------------------------------------------------------------
(* Properties.                                                             *)

FinishedOccurrence(k) ==
    \E j \in Keys : Occurrence(j) = Occurrence(k) /\ row[j].status \in Finished

\* Nothing pending that is not wanted or says something old, and nothing wanted
\* that is missing unless its occurrence is finished.
Converged ==
    /\ \A k \in Pending : k \in Wanted /\ row[k].wording = setup.wording
    /\ \A k \in Wanted : \/ row[k].status \in {"PENDING"} \cup Finished
                         \/ row[k].status = "none" /\ FinishedOccurrence(k)

\* Once the owner pauses for long enough, passes that started on any mixture of old
\* and new reads leave exactly the follow-ups the last settings ask for: a stale
\* read that created, revived or kept a row is always mended by a later pass.
EventuallyConverged == <>[]Converged

\* A run that has ended is not prepared again by a pass that read it before it ended
\* (lockPreparationEnrollments): only the owner's Reopen makes a row of someone who
\* is not enrolled pending.
EndedRunsStayEnded ==
    [][\A k \in Keys :
          /\ ~enrollment[Person(k)].active
          /\ row[k].status \notin {"PENDING"} \cup Finished
          => row'[k].status # "PENDING"]_prepVars

\* A stop holds against every pass, also one that read the person before it: what it
\* canceled waits for the owner to resume.
StopHolds ==
    [][\A k \in Keys :
          /\ row[k].method = "mix_stopped_for_contact"
          /\ Person(k) \in setup'.stopped
          => row'[k] = row[k]]_prepVars

\* "An occurrence with a DONE or SKIPPED row is settled, and no timing, rule or
\* settings change may re-create it": a pass that has read an occurrence as
\* finished, and still finds it so, plans no return of a canceled row of it.
SettledOccurrencesStaySettled ==
    [][\A p \in Passes, k \in Keys :
          /\ pass[p].pc = "rows"
          /\ Occurrence(k) \in pass[p].settled
          /\ FinishedOccurrence(k)
          /\ row[k].status # "PENDING"
          => k \notin pass'[p].updates]_prepVars

\* "The snooze and the drafts are carried onto the regenerated row so a settings
\* save does not drop them": a pass that has read the snooze or the draft of a row it
\* no longer wants does not take back another row of the occurrence in its place, as
\* only a created row receives them.
OwnerStateIsCarried ==
    [][\A p \in Passes, k, j \in Keys :
          /\ pass[p].pc = "rows"
          /\ \E e \in pass[p].owned : e[1] = k
          /\ row[k].status = "PENDING"
          /\ k \notin pass[p].desired
          /\ Occurrence(j) = Occurrence(k)
          /\ row[j].status = "CANCELED"
          => j \notin pass'[p].updates]_prepVars

\* "On resume, and when a restriction is lifted, ... the app MUST NOT send a backlog
\* automatically": a row that a pause, an archive or Do not contact canceled and that
\* is overdue when a pass takes it back, nothing holding it any more, comes back for
\* the owner alone.
BacklogWaitsForTheOwner ==
    [][\A k \in Keys :
          /\ row[k].method \in {"mix_paused", "contact_archived", "do_not_contact"}
          /\ row'[k].status = "PENDING"
          /\ row'[k].at < clock
          /\ k \in Wanted
          => row'[k].manualOnly]_prepVars

=============================================================================
