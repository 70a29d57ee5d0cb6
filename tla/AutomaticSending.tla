--------------------------- MODULE AutomaticSending ---------------------------
(***************************************************************************)
(* Automatic sending (runAutomaticDeliveries) beside the owner and the     *)
(* scheduler.                                                              *)
(*                                                                         *)
(* A follow-up that is due, reviewed and not held is claimed by inserting  *)
(* its AutomatedDelivery row, checked again in three reads, handed to the  *)
(* mail or text provider and settled.  There is one row per follow-up and  *)
(* no claim is ever taken twice once something may have been sent, so what *)
(* a worker leaves behind is marked FAILED and never retried.  Every pass  *)
(* of every worker runs these steps; nothing holds the rows in between.    *)
(* The scheduler is here what it promises (FollowUps), one row at a time.  *)
(***************************************************************************)
EXTENDS FollowUps

CONSTANTS
    Workers,    \* the worker processes that may run a pass
    Window,     \* reviewWindowMinutes, in ticks
    Lease,      \* uncertainLeaseMs, in ticks
    Limit,      \* candidateLimitPerWorkspace
    MaxLosses   \* bound: how many passes die with their worker

ASSUME SendingAssumption ==
    /\ Window \in Nat
    /\ Lease \in Nat
    /\ Limit \in Nat \ {0}
    /\ MaxLosses \in Nat

VARIABLES
    delivery,   \* the AutomatedDelivery row of each follow-up
    worker,     \* what each worker's pass has read and is about to do
    sent,       \* how many times the provider took each follow-up's message
    automation, \* AutomationPreference: enabled, with its channel
    losses      \* how many passes have died

sendVars == <<row, drafts, saving, setup, enrollment, clock, edits,
              delivery, worker, sent, automation, losses>>

sendingVars == <<delivery, worker, sent, automation, losses>>

Nobody == "nobody"
NoKey == <<>>

DeliveryStatuses == {"none", "PROCESSING", "CANCELED", "FAILED", "DELIVERED"}

\* Locked only while it is being processed.
Delivery ==
    {d \in [status : DeliveryStatuses, by : Workers \cup {Nobody}, at : Nat, provider : BOOLEAN] :
        d.status = "PROCESSING" \/ d.by = Nobody}

NoDelivery == [status |-> "none", by |-> Nobody, at |-> NoTime, provider |-> FALSE]

\* Steps of a pass; in Claimed ones it works on a follow-up it has claimed.
ClaimedSteps == {"claimed", "preferred", "current", "ready", "refused", "sent", "recorded", "failed"}
SendSteps == {"idle", "read", "next"} \cup ClaimedSteps

Worker == [pc : SendSteps, now : Nat, todo : SUBSET Keys, key : Keys \cup {NoKey}, ok : BOOLEAN]

Resting == [pc |-> "idle", now |-> NoTime, todo |-> {}, key |-> NoKey, ok |-> TRUE]

SendTypeOK ==
    /\ delivery \in [Keys -> Delivery]
    /\ worker \in [Workers -> Worker]
    /\ sent \in [Keys -> Nat]
    /\ automation \in BOOLEAN
    /\ losses \in Nat

-----------------------------------------------------------------------------
Stays(w, q) == worker' = [worker EXCEPT ![w] = q]

\* The worker's claim is still its own.
Holds(w, k) == delivery[k].status = "PROCESSING" /\ delivery[k].by = w

\* Broken: whoever's the claim is by now.
EndClaimUnheld(w, k, status) ==
    delivery' = [delivery EXCEPT ![k].status = status, ![k].by = Nobody, ![k].at = NoTime]

\* Broken: stays locked.
EndClaimLocked(w, k, status) ==
    delivery' = IF Holds(w, k) THEN [delivery EXCEPT ![k].status = status] ELSE delivery

EndClaim(w, k, status) ==
    delivery' = IF Holds(w, k)
                THEN [delivery EXCEPT ![k].status = status, ![k].by = Nobody, ![k].at = NoTime]
                ELSE delivery

\* On to the pass's next candidate, or to rest when there is none.
NextOf(q, todo) ==
    IF todo = {} THEN Resting
    ELSE [q EXCEPT !.pc = "next", !.todo = todo, !.key = NoKey, !.ok = TRUE]

\* Broken: leaves expired claims alone.
BeginPassKeepingClaims(w) ==
    /\ worker[w].pc = "idle"
    /\ \/ automation /\ Stays(w, [Resting EXCEPT !.pc = "read", !.now = clock])
       \/ Stays(w, Resting)
    /\ UNCHANGED <<row, sent, delivery>>

\* A pass first gives up on the claims whose lease has run out, then goes on for a
\* workspace that has sending on and is outside its quiet hours.
BeginPass(w) ==
    /\ worker[w].pc = "idle"
    /\ delivery' = [k \in Keys |->
                      IF delivery[k].status = "PROCESSING" /\ delivery[k].at + Lease < clock
                      THEN [delivery[k] EXCEPT !.status = "FAILED", !.by = Nobody, !.at = NoTime]
                      ELSE delivery[k]]
    /\ \/ automation /\ Stays(w, [Resting EXCEPT !.pc = "read", !.now = clock])
       \/ Stays(w, Resting)
    /\ UNCHANGED <<row, sent>>

\* Due for the review window, and not held for the owner.
Candidates(now) ==
    {k \in Pending : /\ setup.mix = "ACTIVE"
                     /\ ~row[k].manualOnly
                     /\ row[k].at + Window <= now
                     /\ k \notin drafts}

\* The oldest Limit of them; of those, the ones whose window has run since they
\* were created and whose person may be contacted.
ReadCandidates(w) ==
    /\ worker[w].pc = "read"
    /\ LET now == worker[w].now
       IN  \E S \in SUBSET Candidates(now) :
              /\ Cardinality(S) <= Limit
              /\ S # Candidates(now) => Cardinality(S) = Limit
              /\ \A k \in S, j \in Candidates(now) \ S : row[k].at <= row[j].at
              /\ Stays(w, NextOf(worker[w], {k \in S : /\ row[k].born + Window <= now
                                                       /\ Person(k) \notin setup.dnc}))
    /\ UNCHANGED <<row, delivery, sent>>

\* Broken: no look at the person's other claims.
NobodyIsBusy(c) == FALSE

PersonIsBusy(c) == \E k \in Keys : Person(k) = c /\ delivery[k].status = "PROCESSING"

\* Broken: a failed delivery is tried again.
ClaimableAfterFailure(k) ==
    /\ row[k].status = "PENDING"
    /\ ~PersonIsBusy(Person(k))
    /\ delivery[k].status \in {"none", "CANCELED", "FAILED"}
    /\ ~delivery[k].provider

Claimable(k) ==
    /\ row[k].status = "PENDING"
    /\ ~PersonIsBusy(Person(k))
    /\ \/ delivery[k].status = "none"
       \/ delivery[k].status = "CANCELED" /\ ~delivery[k].provider

\* The claim transaction holds the Contact row, so the checks and the write are one.
Claim(w, k) ==
    /\ worker[w].pc = "next"
    /\ k \in worker[w].todo
    /\ IF Claimable(k)
       THEN /\ delivery' = [delivery EXCEPT ![k].status = "PROCESSING", ![k].by = w,
                                            ![k].at = worker[w].now]
            /\ Stays(w, [worker[w] EXCEPT !.pc = "claimed", !.key = k, !.todo = @ \ {k}])
       ELSE /\ Stays(w, NextOf(worker[w], worker[w].todo \ {k}))
            /\ UNCHANGED delivery
    /\ UNCHANGED <<row, sent>>

\* Without a recipient or a prepared message there is nothing to send.
CheckPreference(w) ==
    /\ worker[w].pc = "claimed"
    /\ \/ Stays(w, [worker[w] EXCEPT !.pc = "preferred", !.ok = automation])
       \/ Stays(w, [worker[w] EXCEPT !.pc = "failed"])
    /\ UNCHANGED <<row, delivery, sent>>

\* Broken: trusts what the candidate read found but for the person.
SendableAsRead(k, now) == Person(k) \notin setup.archived \cup setup.dnc

Sendable(k, now) ==
    /\ k \in Candidates(now)
    /\ row[k].born + Window <= now
    /\ Person(k) \notin setup.archived
    /\ Person(k) \notin setup.dnc

CheckJump(w) ==
    /\ worker[w].pc = "preferred"
    /\ Stays(w, [worker[w] EXCEPT !.pc = "current",
                                  !.ok = @ /\ Sendable(worker[w].key, worker[w].now)])
    /\ UNCHANGED <<row, delivery, sent>>

CheckStop(w) ==
    /\ worker[w].pc = "current"
    /\ LET ok == worker[w].ok /\ Person(worker[w].key) \notin setup.stopped
       IN  Stays(w, [worker[w] EXCEPT !.ok = ok, !.pc = IF ok THEN "ready" ELSE "refused"])
    /\ UNCHANGED <<row, delivery, sent>>

Release(w) ==
    /\ worker[w].pc = "refused"
    /\ EndClaim(w, worker[w].key, "CANCELED")
    /\ Stays(w, NextOf(worker[w], worker[w].todo))
    /\ UNCHANGED <<row, sent>>

\* The provider takes the message and answers, takes it without an answer (a
\* timeout), or does not take it.
Send(w) ==
    /\ worker[w].pc = "ready"
    /\ \/ /\ sent' = [sent EXCEPT ![worker[w].key] = @ + 1]
          /\ \/ Stays(w, [worker[w] EXCEPT !.pc = "sent"])
             \/ Stays(w, [worker[w] EXCEPT !.pc = "failed"])
       \/ /\ UNCHANGED sent
          /\ Stays(w, [worker[w] EXCEPT !.pc = "failed"])
    /\ UNCHANGED <<row, delivery>>

RecordProvider(w) ==
    /\ worker[w].pc = "sent"
    /\ delivery' = IF Holds(w, worker[w].key)
                   THEN [delivery EXCEPT ![worker[w].key].provider = TRUE]
                   ELSE delivery
    /\ Stays(w, [worker[w] EXCEPT !.pc = "recorded"])
    /\ UNCHANGED <<row, sent>>

\* Broken: writes over what the owner recorded meanwhile.
SettleUnguarded(w) ==
    /\ worker[w].pc = "recorded"
    /\ LET k == worker[w].key
       IN  IF Holds(w, k)
           THEN /\ row' = [row EXCEPT ![k].status = "DONE", ![k].method = "automatic"]
                /\ EndClaim(w, k, "DELIVERED")
                /\ Stays(w, NextOf(worker[w], worker[w].todo))
           ELSE /\ Stays(w, [worker[w] EXCEPT !.pc = "failed"])
                /\ UNCHANGED <<row, delivery>>
    /\ UNCHANGED sent

\* Broken: the follow-up is done before the claim is seen to be lost.
SettleInTwo(w) ==
    /\ worker[w].pc = "recorded"
    /\ LET k == worker[w].key
       IN  /\ row' = IF row[k].status = "PENDING"
                     THEN [row EXCEPT ![k].status = "DONE", ![k].method = "automatic"]
                     ELSE row
           /\ EndClaim(w, k, "DELIVERED")
           /\ Stays(w, IF Holds(w, k) THEN NextOf(worker[w], worker[w].todo)
                       ELSE [worker[w] EXCEPT !.pc = "failed"])
    /\ UNCHANGED sent

\* One transaction: the follow-up is done if it is still pending, and the claim is
\* delivered; with the claim lost, nothing is written.
Settle(w) ==
    /\ worker[w].pc = "recorded"
    /\ LET k == worker[w].key
       IN  IF Holds(w, k)
           THEN /\ row' = IF row[k].status = "PENDING"
                          THEN [row EXCEPT ![k].status = "DONE", ![k].method = "automatic"]
                          ELSE row
                /\ EndClaim(w, k, "DELIVERED")
                /\ Stays(w, NextOf(worker[w], worker[w].todo))
           ELSE /\ Stays(w, [worker[w] EXCEPT !.pc = "failed"])
                /\ UNCHANGED <<row, delivery>>
    /\ UNCHANGED sent

\* Any read or write of a claimed follow-up may fail.
StoreFails(w) ==
    /\ worker[w].pc \in ClaimedSteps \ {"ready", "failed"}
    /\ Stays(w, [worker[w] EXCEPT !.pc = "failed"])
    /\ UNCHANGED <<row, delivery, sent>>

\* Broken: an uncertain send is given back as if nothing had gone out.
FailGivingBack(w) ==
    /\ worker[w].pc = "failed"
    /\ EndClaim(w, worker[w].key, "CANCELED")
    /\ Stays(w, NextOf(worker[w], worker[w].todo))
    /\ UNCHANGED <<row, sent>>

\* The failure is recorded if that write succeeds; the pass goes on either way.
Fail(w) ==
    /\ worker[w].pc = "failed"
    /\ EndClaim(w, worker[w].key, "FAILED") \/ UNCHANGED delivery
    /\ Stays(w, NextOf(worker[w], worker[w].todo))
    /\ UNCHANGED <<row, sent>>

WorkerStep(w) ==
    /\ \/ BeginPass(w)
       \/ ReadCandidates(w)
       \/ \E k \in Keys : Claim(w, k)
       \/ CheckPreference(w)
       \/ CheckJump(w)
       \/ CheckStop(w)
       \/ Release(w)
       \/ Send(w)
       \/ RecordProvider(w)
       \/ Settle(w)
       \/ StoreFails(w)
       \/ Fail(w)
    /\ UNCHANGED <<drafts, saving, setup, enrollment, clock, edits, automation, losses>>

\* The process dies where it is; its claim stays behind until the lease runs out.
LoseWorker(w) ==
    /\ losses < MaxLosses
    /\ worker[w].pc # "idle"
    /\ losses' = losses + 1
    /\ Stays(w, Resting)
    /\ UNCHANGED <<vars, delivery, sent, automation>>

\* The owner turns automatic sending off or on.
SwitchAutomation ==
    /\ automation' = ~automation
    /\ UNCHANGED <<vars, delivery, worker, sent, losses>>

-----------------------------------------------------------------------------
\* The scheduler's writes, one row at a time.  A created row carries no snooze here:
\* the owner's Snooze leads to the same rows.
ScheduleRow(k) ==
    /\ \E r \in ScheduledRows(k) : /\ r.snoozed = row[k].snoozed
                                  /\ row' = [row EXCEPT ![k] = r]
    /\ UNCHANGED <<drafts, saving, setup, enrollment, clock, edits>>

SendInit ==
    /\ Init
    /\ delivery = [k \in Keys |-> NoDelivery]
    /\ worker = [w \in Workers |-> Resting]
    /\ sent = [k \in Keys |-> 0]
    /\ automation = TRUE
    /\ losses = 0

SurroundingStep ==
    /\ OwnerStep \/ FinishSave \/ Tick \/ \E k \in Keys : ScheduleRow(k)
    /\ UNCHANGED sendingVars

SendNext ==
    \/ SurroundingStep
    \/ SwitchAutomation
    \/ \E w \in Workers : WorkerStep(w) \/ LoseWorker(w)

SendSpec == SendInit /\ [][SendNext]_sendVars

\* Time passes, and a worker that runs goes on and begins its next pass.
FairSendSpec ==
    /\ SendSpec
    /\ WF_sendVars(Tick /\ UNCHANGED sendingVars)
    /\ \A w \in Workers : WF_sendVars(WorkerStep(w))

-----------------------------------------------------------------------------
(* Properties.                                                             *)

\* "Durable claims prevent a second send": whatever crashes, is lost or expires,
\* a follow-up's message is handed over at most once, also after it is reopened.
AtMostOneSend == \A k \in Keys : sent[k] <= 1

\* A follow-up done by automatic sending was really sent, once, and has its receipt.
AutomaticDoneWasSent ==
    \A k \in Keys : row[k].method = "automatic" =>
        sent[k] = 1 /\ delivery[k].status = "DELIVERED" /\ delivery[k].provider

\* A claim is given back only while nothing was sent under it, so taking it again
\* is safe.
ReleasedWasNotSent == \A k \in Keys : delivery[k].status = "CANCELED" => sent[k] = 0

\* One message at a time for a person: the claim's lock on the Contact row.
OneClaimPerPerson ==
    \A j, k \in Keys :
        /\ Person(j) = Person(k)
        /\ delivery[j].status = "PROCESSING"
        /\ delivery[k].status = "PROCESSING"
        => j = k

\* A delivery that is over stays as it ended: neither a late worker nor the expiry
\* of another pass rewrites a receipt or a failure.
FinalDeliveriesStay ==
    [][\A k \in Keys : delivery[k].status \in {"FAILED", "DELIVERED"}
                       => delivery'[k] = delivery[k]]_sendVars

\* Every claim ends, also one whose worker died in the middle: a later pass gives up
\* on it once the lease has run out.
ClaimsSettle ==
    \A k \in Keys :
        (delivery[k].status = "PROCESSING" /\ delivery[k].at + Lease < MaxClock)
        ~> delivery[k].status # "PROCESSING"

=============================================================================
