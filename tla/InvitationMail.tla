--------------------------- MODULE InvitationMail ---------------------------
(***************************************************************************)
(* The outbox of the platform's invitations (waitlist-delivery.ts) over    *)
(* Admission, the ledger of the sends it makes (transactional-email.ts,    *)
(* email-budget.ts, email-events.ts), and what the staff may do with a     *)
(* delivery that needs review (access-admin-actions.ts,                    *)
(* invitation-receipt-recovery.ts).                                        *)
(*                                                                         *)
(* The mail provider drops a request whose key it has seen in the last 24  *)
(* hours; the ledger allows no attempt 23 hours after the first one.  A    *)
(* worker may die between any two steps, another takes its delivery over   *)
(* when the lease is old, and the first may only be slow.  The provider's  *)
(* answer may be lost although the mail went out.                          *)
(*                                                                         *)
(* A time is kept as what it is compared with: how long ago a delivery was *)
(* first attempted ("young" below 23 hours, "old" below 24, "forgotten"    *)
(* from then on), whether its next attempt is still to come (`wait`),      *)
(* whether its lease is older than it may be (`stale`).                    *)
(***************************************************************************)
EXTENDS Admission

CONSTANTS
  Workers,         \* worker processes, each one its restarts included
  None,            \* no worker
  MaxAttempts,     \* claims after which a failure goes to review (8)
  MaxTries,        \* requests to the provider within one claim (MAX_ATTEMPTS)
  MaxGenerations,  \* bound: sends of one invitation, the repeats approved by the staff included
  MaxTroubles      \* bound: crashes, slow workers, lost answers, refusals, full budgets

ASSUME MailAssumption ==
  /\ None \notin Workers
  /\ MaxAttempts \in Nat \ {0} /\ MaxTries \in Nat \ {0} /\ MaxGenerations \in Nat \ {0}
  /\ MaxTroubles \in Nat

VARIABLES
  delivery,        \* the outbox: of each invitation of the platform, its mail
  ledger,          \* of each generation of each mail, its first attempt, its receipt, and what went out
  sender,          \* where each worker process is, and what it remembers of its claim
  mailTroubles     \* how much of MaxTroubles is used

mailVars == <<delivery, ledger, sender, mailTroubles>>
systemVars == <<admissionVars, mailVars>>

Items == People \X (1..MaxInvites)
Generations == 1..MaxGenerations

Delivery == [status : {"NONE", "QUEUED", "SENDING", "SENT", "REVIEW", "CANCELED"},
             generation : Generations, attempts : Nat, holder : Workers \union {None},
             stale : BOOLEAN, wait : BOOLEAN,
             known : BOOLEAN]       \* whether firstAttemptAt is the ledger's first attempt: if not, there is none or another time

\* `mails` is the provider's: how many mails it has sent under this key.
Send == [age : {"never", "young", "old", "forgotten"}, accepted : BOOLEAN, mails : Nat]

Process == [pc : {"idle", "claim", "check", "send", "call", "accept", "record",
                  "BUDGET", "SUPPRESSED", "REVIEW", "PROVIDER", "STORE"},
            item : Items \union {None}, generation : Generations, attempts : Nat,
            known : BOOLEAN, tries : 0..MaxTries]

NoDelivery == [status |-> "NONE", generation |-> 1, attempts |-> 0, holder |-> None,
               stale |-> FALSE, wait |-> FALSE, known |-> FALSE]
Unsent == [age |-> "never", accepted |-> FALSE, mails |-> 0]
Idle == [pc |-> "idle", item |-> None, generation |-> 1, attempts |-> 0, known |-> FALSE, tries |-> 0]

MailTypeOK ==
  /\ AdmissionTypeOK
  /\ delivery \in [Items -> Delivery]
  /\ ledger \in [Items \X Generations -> Send]
  /\ sender \in [Workers -> Process]
  /\ mailTroubles \in 0..MaxTroubles
  /\ \A k \in Items : delivery[k].status = "SENDING" <=> delivery[k].holder # None
  /\ \A w \in Workers : sender[w].pc \in {"send", "call", "accept"} => sender[w].tries < MaxTries

MailInit ==
  /\ AdmissionInit
  /\ delivery = [k \in Items |-> NoDelivery]
  /\ ledger = [s \in Items \X Generations |-> Unsent]
  /\ sender = [w \in Workers |-> Idle]
  /\ mailTroubles = 0

Trouble == mailTroubles < MaxTroubles /\ mailTroubles' = mailTroubles + 1

-----------------------------------------------------------------------------
(***************************************************************************)
(* The outbox follows the invitations: whoever makes one of the platform   *)
(* queues its mail, and whoever takes one back cancels it, in the same     *)
(* transaction.  An invitation that was used leaves its mail to the worker.*)
(***************************************************************************)

Live(k) == delivery[k].status \in {"QUEUED", "SENDING", "REVIEW"}

Canceled(d) == [d EXCEPT !.status = "CANCELED", !.holder = None, !.stale = FALSE, !.wait = FALSE]

OutboxFollows ==
  delivery' = [k \in Items |->
    LET e == k[1]
        i == k[2]
        had == i \in DOMAIN invites[e]
    IN  IF ~had /\ i \in DOMAIN invites'[e] /\ invites'[e][i].by = Platform
        THEN [NoDelivery EXCEPT !.status = "QUEUED"]
        ELSE IF had /\ invites[e][i].state = "open" /\ invites'[e][i].state = "revoked" /\ Live(k)
        THEN Canceled(delivery[k])
        ELSE delivery[k]]

WithOutbox == OutboxFollows /\ UNCHANGED <<ledger, sender, mailTroubles>>
AdmissionStep == AdmissionNext /\ WithOutbox

-----------------------------------------------------------------------------
(***************************************************************************)
(* Claiming a delivery.                                                    *)
(***************************************************************************)

IsOpen(k) == k[2] \in OpenOf(k[1])

Due(k) ==
  \/ delivery[k].status = "QUEUED" /\ ~delivery[k].wait
  \/ delivery[k].status = "SENDING" /\ delivery[k].stale

At(w, pc) == sender' = [sender EXCEPT ![w].pc = pc]
Free(w) == sender' = [sender EXCEPT ![w] = Idle]

ReadDue(w) ==
  /\ sender[w].pc = "idle"
  /\ \E k \in Items :
       /\ Due(k)
       /\ sender' = [sender EXCEPT ![w] =
            [pc |-> "claim", item |-> k, generation |-> delivery[k].generation,
             attempts |-> delivery[k].attempts, known |-> delivery[k].known, tries |-> 0]]
  /\ UNCHANGED <<delivery, ledger, mailTroubles>>

ClaimDelivery(w) ==
  LET k == sender[w].item
      still == delivery[k].generation = sender[w].generation /\ Due(k)
  IN  /\ sender[w].pc = "claim"
      /\ \/ /\ still
            /\ delivery' = [delivery EXCEPT ![k] = [delivery[k] EXCEPT !.status = "SENDING", !.holder = w,
                              !.stale = FALSE, !.wait = FALSE, !.attempts = @ + 1]]
            /\ At(w, "check")
         \/ /\ ~still
            /\ Free(w)
            /\ UNCHANGED delivery
      /\ UNCHANGED <<ledger, mailTroubles>>

\* The guard of what a worker writes to its delivery.
Owns(w) ==
  /\ sender[w].pc \notin {"idle", "claim"}
  /\ delivery[sender[w].item].status = "SENDING"
  /\ delivery[sender[w].item].holder = w
  /\ delivery[sender[w].item].generation = sender[w].generation

\* Its delivery given back with these values, if it is still its own.
GivesBack(w, d) ==
  /\ delivery' = IF Owns(w)
                 THEN [delivery EXCEPT ![sender[w].item] = [d EXCEPT !.holder = None, !.stale = FALSE]]
                 ELSE delivery
  /\ Free(w)

Mine(w) == delivery[sender[w].item]
SendOf(w) == <<sender[w].item, sender[w].generation>>
Sent(w) == ledger[SendOf(w)]
PastWindow(age) == age \in {"old", "forgotten"}

\* Before sending: the window as the candidate showed it, then whether the invitation still stands.
\* Each read and the write it leads to are one step: a write that comes too late changes nothing.
CheckDelivery(w) ==
  LET k == sender[w].item
  IN  /\ sender[w].pc = "check"
      /\ \/ /\ sender[w].known /\ PastWindow(Sent(w).age)
            /\ GivesBack(w, [Mine(w) EXCEPT !.status = "REVIEW"])
         \/ /\ ~(sender[w].known /\ PastWindow(Sent(w).age))
            /\ ~IsOpen(k) \/ Blocked(k[1])
            /\ GivesBack(w, [Mine(w) EXCEPT !.status = "CANCELED"])
         \/ /\ ~(sender[w].known /\ PastWindow(Sent(w).age))
            /\ IsOpen(k) /\ ~Blocked(k[1])
            /\ At(w, "send")
            /\ UNCHANGED delivery
      /\ UNCHANGED <<ledger, mailTroubles>>

-----------------------------------------------------------------------------
(***************************************************************************)
(* Sending.  Every request to the provider has its attempt reserved in the *)
(* ledger first, where the acceptance, the window, the block and the       *)
(* budget are looked at once more.                                         *)
(***************************************************************************)

\* Mutant of MayAttempt: only the worker's own record of the first attempt is compared with the window.
MayAttemptAsKnown(w) == ~(sender[w].known /\ PastWindow(Sent(w).age)) /\ ~Blocked(sender[w].item[1])

MayAttempt(w) == ~PastWindow(Sent(w).age) /\ ~Blocked(sender[w].item[1])

\* A key that was used may be refused for good, its message changed or its details retired; and the
\* message may not be readable, or the ledger not within reach.
Reserve(w) ==
  /\ sender[w].pc = "send"
  /\ \/ /\ Sent(w).accepted
        /\ At(w, "record")
        /\ UNCHANGED <<ledger, mailTroubles>>
     \/ /\ ~Sent(w).accepted /\ ~MayAttempt(w)
        /\ At(w, IF PastWindow(Sent(w).age) THEN "REVIEW" ELSE "SUPPRESSED")
        /\ UNCHANGED <<ledger, mailTroubles>>
     \/ /\ ~Sent(w).accepted /\ MayAttempt(w)
        /\ Trouble
        /\ At(w, "BUDGET")
        /\ UNCHANGED ledger
     \/ /\ Sent(w).age # "never"
        /\ Trouble
        /\ At(w, "REVIEW")
        /\ UNCHANGED ledger
     \/ /\ Trouble
        /\ At(w, "STORE")
        /\ UNCHANGED ledger
     \/ /\ ~Sent(w).accepted /\ MayAttempt(w)
        /\ ledger' = [ledger EXCEPT ![SendOf(w)].age =
                        IF @ = "never" THEN "young" ELSE @]
        /\ At(w, "call")
        /\ UNCHANGED mailTroubles
  /\ UNCHANGED delivery

\* Mutant of Again: one request more than there may be.
AgainOnceMore(w) ==
  sender' = [sender EXCEPT ![w].tries = @ + 1,
                           ![w].pc = IF sender[w].tries < MaxTries THEN "send" ELSE "PROVIDER"]

\* After an answer that settles nothing: the same request once more, or an error.
Again(w) ==
  sender' = [sender EXCEPT ![w].tries = @ + 1,
                           ![w].pc = IF sender[w].tries + 1 < MaxTries THEN "send" ELSE "PROVIDER"]

\* What the provider does with a request it takes: a mail, unless it remembers the key.
MailsOut(w) ==
  ledger' = [ledger EXCEPT ![SendOf(w)].mails =
               IF @ > 0 /\ Sent(w).age # "forgotten" THEN @ ELSE @ + 1]

\* The request to the provider: accepted; accepted without the answer arriving; refused for now;
\* refused for good.
Call(w) ==
  /\ sender[w].pc = "call"
  /\ \/ MailsOut(w) /\ At(w, "accept") /\ UNCHANGED mailTroubles
     \/ MailsOut(w) /\ Again(w) /\ Trouble
     \/ Again(w) /\ Trouble /\ UNCHANGED ledger
     \/ /\ sender' = [sender EXCEPT ![w].pc = "PROVIDER", ![w].tries = @ + 1]
        /\ Trouble /\ UNCHANGED ledger
  /\ UNCHANGED delivery

\* The acceptance is written to the ledger; if that fails, it counts as an answer that did not arrive.
Accept(w) ==
  /\ sender[w].pc = "accept"
  /\ \/ /\ ledger' = [ledger EXCEPT ![SendOf(w)].accepted = TRUE]
        /\ At(w, "record")
        /\ UNCHANGED mailTroubles
     \/ Again(w) /\ Trouble /\ UNCHANGED ledger
  /\ UNCHANGED delivery

\* Mutant of RecordSent: whoever holds the delivery now.
RecordSentUnheld(w) ==
  /\ sender[w].pc = "record"
  /\ delivery' = [delivery EXCEPT ![sender[w].item] =
                    [delivery[sender[w].item] EXCEPT !.status = "SENT", !.holder = None,
                                                     !.stale = FALSE, !.known = TRUE]]
  /\ Free(w)
  /\ UNCHANGED <<ledger, mailTroubles>>

\* A delivery canceled while the provider took it stays canceled, and keeps the receipt.
RecordSent(w) ==
  /\ sender[w].pc = "record"
  /\ \/ /\ Owns(w)
        /\ GivesBack(w, [Mine(w) EXCEPT !.status = "SENT", !.known = TRUE])
        /\ UNCHANGED mailTroubles
     \/ /\ At(w, "STORE") /\ Trouble
        /\ UNCHANGED delivery
     \/ /\ ~Owns(w)
        /\ delivery' = [delivery EXCEPT ![sender[w].item].known =
                          @ \/ (Mine(w).status = "CANCELED" /\ Mine(w).generation = sender[w].generation)]
        /\ Free(w)
        /\ UNCHANGED mailTroubles
  /\ UNCHANGED ledger

\* A claim that came to no request is not counted: the attempt it added is taken off again.
Counted(w) ==
  IF sender[w].tries = 0 /\ Mine(w).attempts > 0 THEN Mine(w).attempts - 1 ELSE Mine(w).attempts

Attempted(w) == sender[w].known \/ Sent(w).age # "never"

\* The first attempt recorded is the candidate's, else the ledger's as the error has it, else the present:
\* after an error of the table itself, with an earlier attempt in the ledger, the window may be taken from then.
RecordError(w) ==
  /\ \/ /\ sender[w].pc = "BUDGET"
        /\ GivesBack(w, [Mine(w) EXCEPT !.status = "QUEUED", !.wait = TRUE,
                           !.attempts = Counted(w), !.known = Attempted(w)])
     \/ /\ sender[w].pc = "SUPPRESSED"
        /\ GivesBack(w, [Mine(w) EXCEPT !.status = "CANCELED",
                           !.attempts = Counted(w), !.known = Attempted(w)])
     \/ /\ sender[w].pc = "REVIEW"
        /\ GivesBack(w, [Mine(w) EXCEPT !.status = "REVIEW",
                           !.attempts = Counted(w), !.known = Attempted(w)])
     \/ /\ sender[w].pc \in {"PROVIDER", "STORE"}
        /\ \E known \in {Attempted(w)} \union (IF sender[w].pc = "STORE" THEN {sender[w].known} ELSE {}),
              last \in {sender[w].attempts + 1 >= MaxAttempts} :
             GivesBack(w, [Mine(w) EXCEPT !.status = IF last THEN "REVIEW" ELSE "QUEUED",
                             !.wait = ~last, !.known = known])
  /\ UNCHANGED <<ledger, mailTroubles>>

-----------------------------------------------------------------------------
(***************************************************************************)
(* The staff's review of a delivery.                                       *)
(***************************************************************************)

LatestOf(k) == <<k, delivery[k].generation>>
Latest(k) == ledger[LatestOf(k)]

\* The same mail again, within the window.  A time recorded later than the ledger's first attempt
\* may still be within it: the next reservation refuses then.
RetryReview(k) ==
  /\ delivery[k].status = "REVIEW"
  /\ IsOpen(k) /\ ~Blocked(k[1])
  /\ delivery[k].known => Latest(k).age = "young"
  /\ delivery' = [delivery EXCEPT ![k].status = "QUEUED", ![k].wait = FALSE]
  /\ UNCHANGED <<ledger, sender, mailTroubles>>

\* The ledger, or the provider, shows that the mail was accepted: it is recorded and not sent again.
RecoverReceipt(k) ==
  /\ delivery[k].status = "REVIEW"
  /\ Latest(k).accepted \/ Latest(k).mails > 0
  /\ ledger' = [ledger EXCEPT ![LatestOf(k)].accepted = TRUE]
  /\ delivery' = [delivery EXCEPT ![k].status = "SENT", ![k].known = TRUE]
  /\ UNCHANGED <<sender, mailTroubles>>

\* A mail never tried may be repeated a day after it was queued.
MayRepeat(k) == Latest(k).age \in {"never", "forgotten"}

\* Another mail for the same invitation, under a key of its own, a day after the last one began.
RepeatDelivery(k) ==
  /\ delivery[k].status \in {"REVIEW", "SENT"}
  /\ MayRepeat(k)
  /\ IsOpen(k) /\ k[1] \notin account /\ ~Blocked(k[1])
  /\ delivery[k].generation < MaxGenerations
  /\ delivery' = [delivery EXCEPT ![k] =
       [NoDelivery EXCEPT !.status = "QUEUED", !.generation = delivery[k].generation + 1]]
  /\ UNCHANGED <<ledger, sender, mailTroubles>>

-----------------------------------------------------------------------------
(***************************************************************************)
(* Time, and the worker processes.                                         *)
(***************************************************************************)

\* A request to the provider is given up after 15 seconds, well within the hour between the windows.
GrowsOld(k, g) ==
  /\ ledger[<<k, g>>].age \in {"young", "old"}
  /\ \A w \in Workers : ~(sender[w].pc = "call" /\ sender[w].item = k /\ sender[w].generation = g)
  /\ ledger' = [ledger EXCEPT ![<<k, g>>].age = IF @ = "young" THEN "old" ELSE "forgotten"]
  /\ UNCHANGED <<delivery, sender, mailTroubles>>

WaitEnds(k) ==
  /\ delivery[k].wait
  /\ delivery' = [delivery EXCEPT ![k].wait = FALSE]
  /\ UNCHANGED <<ledger, sender, mailTroubles>>

Abandoned(k) == \A w \in Workers : ~(Owns(w) /\ sender[w].item = k)

\* The lease of a worker that died runs out; that of a live one only if it is slower than it should be.
LeaseRunsOut(k) ==
  /\ delivery[k].status = "SENDING" /\ ~delivery[k].stale
  /\ \/ Abandoned(k) /\ UNCHANGED mailTroubles
     \/ ~Abandoned(k) /\ Trouble
  /\ delivery' = [delivery EXCEPT ![k].stale = TRUE]
  /\ UNCHANGED <<ledger, sender>>

Crash(w) ==
  /\ sender[w].pc # "idle"
  /\ Trouble
  /\ Free(w)
  /\ UNCHANGED <<delivery, ledger>>

SenderStep(w) ==
  \/ ReadDue(w) \/ ClaimDelivery(w) \/ CheckDelivery(w) \/ Reserve(w)
  \/ Call(w) \/ Accept(w) \/ RecordSent(w) \/ RecordError(w)

Review(k) == RetryReview(k) \/ RecoverReceipt(k) \/ RepeatDelivery(k)

MailNext ==
  \/ AdmissionStep
  \/ /\ \/ \E w \in Workers : SenderStep(w) \/ Crash(w)
        \/ \E k \in Items : Review(k) \/ WaitEnds(k) \/ LeaseRunsOut(k)
        \/ \E k \in Items, g \in Generations : GrowsOld(k, g)
     /\ UNCHANGED admissionVars

MailSpec == MailInit /\ [][MailNext]_systemVars

(***************************************************************************)
(* A live worker takes its next step, a delivery's wait and a dead one's   *)
(* lease end, weeks pass and the wave that is due is run.  Nobody has to   *)
(* grow old, no worker has to be slow, and the staff have to do nothing.   *)
(***************************************************************************)
Passing(k) == (WaitEnds(k) \/ LeaseRunsOut(k)) /\ UNCHANGED <<mailTroubles, admissionVars>>

FairMailSpec ==
  /\ MailSpec
  /\ \A w \in Workers : WF_systemVars(SenderStep(w) /\ UNCHANGED admissionVars)
  /\ \A k \in Items : WF_systemVars(Passing(k))
  /\ WF_systemVars((SlotComes \/ RunWave) /\ WithOutbox)

-----------------------------------------------------------------------------
(***************************************************************************)
(* Properties.                                                             *)
(***************************************************************************)

\* One mail under each key: whatever crashes, takeovers, lost answers and retries there are, the
\* recipient gets a second mail only when the staff approved a repeat.
OneMailPerGeneration == \A s \in Items \X Generations : ledger[s].mails <= 1

\* What is shown as sent is the mail of this generation, and the provider has accepted it.
SentWasAccepted == \A k \in Items : delivery[k].status = "SENT" => Latest(k).accepted /\ Latest(k).mails = 1

\* A delivery canceled by a revocation, a stop or a bounce is never queued or shown as sent, whatever
\* the worker that was sending it, or the staff who were looking at it, do next.
CanceledStaysCanceled ==
  [][\A k \in Items : delivery[k].status = "CANCELED" => delivery'[k].status = "CANCELED"]_systemVars

\* Everyone confirmed gets their invitation and its mail: again and again nobody is waiting, or waves
\* are paused or have no room for what they would take, and every mail queued has been sent, canceled
\* or left for the staff.  No crash, slow worker, full budget or block keeps either waiting for ever.
WaitersAreServed ==
  []<>(/\ \A e \in People : ~Waiting(e) \/ ~RoomForAWave
       /\ \A k \in Items : delivery[k].status \notin {"QUEUED", "SENDING"})

=============================================================================
