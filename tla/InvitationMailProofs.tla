------------------------ MODULE InvitationMailProofs ------------------------
(***************************************************************************)
(* What holds of the platform's invitation mail for any workers, people,   *)
(* attempts and troubles: the outbox follows Admission without changing    *)
(* it, a key sends one mail, and what is canceled stays so.                *)
(***************************************************************************)
EXTENDS InvitationMail, AdmissionProofs

-----------------------------------------------------------------------------
(***************************************************************************)
(* The inductive invariant.  A request to the provider is under way only   *)
(* within the day in which the provider remembers its key, and what a      *)
(* worker is about to record did happen.                                   *)
(***************************************************************************)
Sends == Items \X Generations

LedgerOK ==
  /\ ledger \in [Sends -> Send]
  /\ \A s \in Sends : ledger[s].mails <= 1 /\ (ledger[s].accepted => ledger[s].mails = 1)

ProcessOK(p) ==
  /\ p \in Process
  /\ p.pc # "idle" => p.item \in Items
  /\ p.pc \in {"claim", "check", "send", "call", "accept"} => p.tries < MaxTries

InStep(p, l) ==
  /\ ProcessOK(p)
  /\ p.pc = "call" => l[<<p.item, p.generation>>].age = "young"
  /\ p.pc = "accept" => l[<<p.item, p.generation>>].mails = 1
  /\ p.pc = "record" => l[<<p.item, p.generation>>].accepted

SendersOK == sender \in [Workers -> Process] /\ \A w \in Workers : InStep(sender[w], ledger)

DeliveryOK(d) == d \in Delivery /\ (d.status = "SENDING" <=> d.holder # None)

DeliveriesOK ==
  /\ delivery \in [Items -> Delivery]
  /\ \A k \in Items : DeliveryOK(delivery[k])

ShownIsTrue ==
  \A k \in Items : delivery[k].status = "SENT" => ledger[<<k, delivery[k].generation>>].accepted

OnlyOfInvitations == \A k \in Items : delivery[k].status # "NONE" => k[2] \in DOMAIN invites[k[1]]

MailInv ==
  /\ LedgerOK /\ SendersOK /\ DeliveriesOK /\ ShownIsTrue /\ OnlyOfInvitations
  /\ mailTroubles \in 0..MaxTroubles

\* The ledger forgets nothing, and nothing grows old while a request is under way.
LedgerMoves ==
  /\ LedgerOK'
  /\ \A s \in Sends : /\ ledger[s].accepted => ledger'[s].accepted
                      /\ ledger[s].mails = 1 => ledger'[s].mails = 1

KeepsYoung(s) == ledger[s].age = "young" => ledger'[s].age = "young"

StaysCanceled ==
  \A k \in Items : delivery[k].status = "CANCELED" => delivery'[k].status = "CANCELED"

DeliveriesKeep == DeliveriesOK' /\ ShownIsTrue' /\ OnlyOfInvitations' /\ StaysCanceled

MailKept == MailInv' /\ StaysCanceled

LEMMA ReadingTheLedger ==
  ASSUME MailInv, NEW w \in Workers, sender[w].pc # "idle"
  PROVE  /\ sender[w] \in Process /\ sender[w].item \in Items /\ sender[w].generation \in Generations
         /\ SendOf(w) \in Sends /\ Sent(w) \in Send /\ Mine(w) \in Delivery /\ DeliveryOK(Mine(w))
<1>1. sender[w] \in Process /\ sender[w].item \in Items
  BY DEF MailInv, SendersOK, InStep, ProcessOK
<1>2. sender[w].generation \in Generations
  BY <1>1 DEF Process
<1>3. SendOf(w) \in Sends
  BY <1>1, <1>2 DEF SendOf, Sends
<1> QED BY <1>1, <1>2, <1>3 DEF MailInv, LedgerOK, Sent, Mine, DeliveriesOK

LEMMA LedgerStays == MailInv /\ UNCHANGED ledger => LedgerMoves /\ \A s \in Sends : KeepsYoung(s)
BY DEF MailInv, LedgerOK, LedgerMoves, KeepsYoung

LEMMA StaysInStep ==
  ASSUME LedgerMoves, NEW p, InStep(p, ledger),
         p.pc = "call" => KeepsYoung(<<p.item, p.generation>>)
  PROVE  InStep(p, ledger')
<1>1. p.pc \in {"call", "accept", "record"} => <<p.item, p.generation>> \in Sends
  BY DEF InStep, ProcessOK, Process, Sends
<1> QED BY <1>1 DEF InStep, LedgerMoves, KeepsYoung

\* One worker goes on.
LEMMA OneGoesOn ==
  ASSUME MailInv, LedgerMoves, \A s \in Sends : KeepsYoung(s),
         NEW w \in Workers, NEW p, InStep(p, ledger'), sender' = [sender EXCEPT ![w] = p]
  PROVE  SendersOK'
<1>1. \A v \in Workers : InStep(sender[v], ledger')
  BY StaysInStep DEF MailInv, SendersOK, InStep, ProcessOK, Process, Sends
<1>2. p \in Process
  BY DEF InStep, ProcessOK
<1> QED BY <1>1, <1>2 DEF SendersOK, MailInv

LEMMA NobodyMoves ==
  ASSUME MailInv, LedgerMoves, \A s \in Sends : KeepsYoung(s), UNCHANGED sender
  PROVE  SendersOK'
BY StaysInStep DEF MailInv, SendersOK, InStep, ProcessOK, Process, Sends

LEMMA RestIsInStep == ASSUME NEW l PROVE InStep(Idle, l)
BY MailAssumption DEF Idle, InStep, ProcessOK, Process, Generations

\* One delivery changes, for an invitation there is.
LEMMA OneDeliveryChanges ==
  ASSUME MailInv, LedgerMoves, UNCHANGED invites,
         NEW k \in Items, NEW d, DeliveryOK(d), delivery' = [delivery EXCEPT ![k] = d],
         d.status = "SENT" => ledger'[<<k, d.generation>>].accepted,
         d.status # "NONE" => delivery[k].status # "NONE",
         delivery[k].status = "CANCELED" => d.status = "CANCELED"
  PROVE  DeliveriesKeep
<1>1. d \in Delivery
  BY DEF DeliveryOK
<1>2. \A j \in Items : delivery'[j] = IF j = k THEN d ELSE delivery[j]
  BY DEF MailInv, DeliveriesOK
<1>3. DeliveriesOK'
  BY <1>1, <1>2 DEF MailInv, DeliveriesOK
<1>4. \A j \in Items : <<j, delivery[j].generation>> \in Sends
  BY DEF MailInv, DeliveriesOK, Delivery, Sends
<1>5. ShownIsTrue'
  BY <1>2, <1>4 DEF MailInv, ShownIsTrue, LedgerMoves
<1>6. OnlyOfInvitations'
  BY <1>2 DEF MailInv, OnlyOfInvitations
<1>7. StaysCanceled
  BY <1>2 DEF StaysCanceled
<1> QED BY <1>3, <1>5, <1>6, <1>7 DEF DeliveriesKeep

LEMMA DeliveriesStay ==
  ASSUME MailInv, LedgerMoves, UNCHANGED <<invites, delivery>>
  PROVE  DeliveriesKeep
<1>1. \A j \in Items : <<j, delivery[j].generation>> \in Sends
  BY DEF MailInv, DeliveriesOK, Delivery, Sends
<1> QED BY <1>1 DEF MailInv, DeliveriesOK, ShownIsTrue, OnlyOfInvitations, LedgerMoves,
                    DeliveriesKeep, StaysCanceled

LEMMA TroubleCounts == MailInv /\ (Trouble \/ UNCHANGED mailTroubles) => mailTroubles' \in 0..MaxTroubles
BY MailAssumption DEF MailInv, Trouble

-----------------------------------------------------------------------------
(***************************************************************************)
(* The worker's steps.                                                     *)
(***************************************************************************)
Quiet == UNCHANGED <<ledger, mailTroubles>> /\ UNCHANGED invites

LEMMA MovingOn ==
  ASSUME MailInv, NEW w \in Workers, sender[w].pc # "idle", NEW pc,
         pc \in {"check", "record", "send", "call", "accept", "BUDGET", "SUPPRESSED", "REVIEW", "PROVIDER", "STORE"},
         pc \in {"check", "send", "call", "accept"} => sender[w].tries < MaxTries,
         At(w, pc)
  PROVE  \E p \in Process :
           /\ ProcessOK(p) /\ sender' = [sender EXCEPT ![w] = p]
           /\ p.pc = pc /\ p.item = sender[w].item /\ p.generation = sender[w].generation
<1> DEFINE p == [sender[w] EXCEPT !.pc = pc]
<1>1. sender[w] \in Process /\ sender[w].item \in Items
  BY ReadingTheLedger
<1>2. /\ p \in Process /\ p.pc = pc /\ p.item = sender[w].item /\ p.generation = sender[w].generation
      /\ p.tries = sender[w].tries
  BY <1>1 DEF Process
<1>3. sender' = [sender EXCEPT ![w] = p]
  BY DEF At
<1> HIDE DEF p
<1> QED BY <1>1, <1>2, <1>3 DEF ProcessOK

LEMMA ReadDueKeeps ==
  ASSUME MailInv, NEW w \in Workers, ReadDue(w), UNCHANGED invites PROVE MailKept
<1>1. PICK k \in Items : sender' = [sender EXCEPT ![w] =
            [pc |-> "claim", item |-> k, generation |-> delivery[k].generation,
             attempts |-> delivery[k].attempts, known |-> delivery[k].known, tries |-> 0]]
  BY DEF ReadDue
<1> DEFINE p == [pc |-> "claim", item |-> k, generation |-> delivery[k].generation,
                 attempts |-> delivery[k].attempts, known |-> delivery[k].known, tries |-> 0]
<1>2. delivery[k] \in Delivery
  BY DEF MailInv, DeliveriesOK
<1>3. p \in Process /\ InStep(p, ledger')
  BY <1>2, MailAssumption DEF Process, Delivery, InStep, ProcessOK
<1>4. UNCHANGED <<delivery, ledger, mailTroubles>> /\ LedgerMoves /\ \A s \in Sends : KeepsYoung(s)
  BY LedgerStays DEF ReadDue
<1> HIDE DEF p
<1>5. SendersOK'
  BY <1>1, <1>3, <1>4, OneGoesOn DEF p
<1> QED BY <1>4, <1>5, DeliveriesStay DEF MailInv, LedgerMoves, MailKept, DeliveriesKeep

LEMMA ClaimKeeps ==
  ASSUME MailInv, NEW w \in Workers, ClaimDelivery(w), UNCHANGED invites PROVE MailKept
<1> DEFINE k == sender[w].item
           d == [delivery[k] EXCEPT !.status = "SENDING", !.holder = w,
                              !.stale = FALSE, !.wait = FALSE, !.attempts = @ + 1]
<1>1. /\ sender[w].pc = "claim" /\ k \in Items /\ delivery[k] \in Delivery
      /\ UNCHANGED <<ledger, mailTroubles>> /\ LedgerMoves /\ \A s \in Sends : KeepsYoung(s)
  BY LedgerStays, ReadingTheLedger DEF ClaimDelivery, Mine
<1>2. CASE Due(k) /\ delivery' = [delivery EXCEPT ![k] = d] /\ At(w, "check")
  <2>1. DeliveryOK(d) /\ d.status # "SENT"
    <3>1. w \in Workers \union {None} /\ w # None
      BY MailAssumption
    <3>2. d \in Delivery /\ d.status = "SENDING" /\ d.holder = w
      <4> DEFINE x == delivery[k]
                 n == x.attempts + 1
      <4>1. x \in Delivery /\ n \in Nat
        BY <1>1 DEF Delivery
      <4>2. d = [x EXCEPT !.status = "SENDING", !.holder = w, !.stale = FALSE, !.wait = FALSE, !.attempts = n]
        OBVIOUS
      <4> HIDE DEF n, x
      <4> QED BY <3>1, <4>1, <4>2, ZenonT(40) DEF Delivery
    <3> HIDE DEF d
    <3> QED BY <3>1, <3>2 DEF DeliveryOK
  <2>2. delivery[k].status \notin {"NONE", "CANCELED"}
    BY <1>2 DEF Due
  <2>3. sender[w].tries < MaxTries
    BY <1>1 DEF MailInv, SendersOK, InStep, ProcessOK
  <2>4. SendersOK'
    BY <1>1, <1>2, <2>3, MovingOn, OneGoesOn DEF InStep
  <2> HIDE DEF d
  <2> QED BY <1>1, <1>2, <2>1, <2>2, <2>4, OneDeliveryChanges DEF MailInv, LedgerMoves, MailKept, DeliveriesKeep
<1>3. CASE Free(w) /\ UNCHANGED delivery
  <2>1. SendersOK'
    BY <1>1, <1>3, RestIsInStep, OneGoesOn DEF Free
  <2> QED BY <1>1, <1>3, <2>1, DeliveriesStay DEF MailInv, LedgerMoves, MailKept, DeliveriesKeep
<1> QED BY <1>2, <1>3 DEF ClaimDelivery

LEMMA GivingBack ==
  ASSUME MailInv, Quiet, NEW w \in Workers, sender[w].pc # "idle", NEW d \in Delivery,
         d.status \in {"QUEUED", "SENT", "REVIEW", "CANCELED"},
         Owns(w) /\ d.status = "SENT" => ledger[<<sender[w].item, d.generation>>].accepted,
         GivesBack(w, d)
  PROVE  MailKept
<1> DEFINE k == sender[w].item
           c == [d EXCEPT !.holder = None, !.stale = FALSE]
<1>1. LedgerMoves /\ (\A s \in Sends : KeepsYoung(s)) /\ k \in Items
  BY LedgerStays, ReadingTheLedger DEF Quiet
<1>2. SendersOK'
  BY <1>1, RestIsInStep, OneGoesOn DEF GivesBack, Free
<1>3. CASE Owns(w)
  <2>1. DeliveryOK(c) /\ c.status = d.status /\ c.generation = d.generation
    BY MailAssumption DEF DeliveryOK, Delivery
  <2>2. delivery' = [delivery EXCEPT ![k] = c] /\ delivery[k].status \notin {"NONE", "CANCELED"}
    BY <1>3 DEF GivesBack, Owns
  <2> HIDE DEF c
  <2> QED BY <1>1, <1>2, <1>3, <2>1, <2>2, OneDeliveryChanges DEF MailInv, LedgerMoves, MailKept, DeliveriesKeep, Quiet
<1>4. CASE ~Owns(w)
  BY <1>1, <1>2, <1>4, DeliveriesStay DEF GivesBack, MailInv, LedgerMoves, Quiet, MailKept, DeliveriesKeep
<1> QED BY <1>3, <1>4

LEMMA CheckKeeps ==
  ASSUME MailInv, NEW w \in Workers, CheckDelivery(w), UNCHANGED invites PROVE MailKept
<1>1. sender[w].pc = "check" /\ Quiet /\ Mine(w) \in Delivery
  BY ReadingTheLedger DEF CheckDelivery, Quiet
<1>2. ASSUME NEW c \in {"REVIEW", "CANCELED"}, GivesBack(w, [Mine(w) EXCEPT !.status = c])
      PROVE  MailKept
  <2>1. [Mine(w) EXCEPT !.status = c] \in Delivery /\ [Mine(w) EXCEPT !.status = c].status = c
    BY <1>1 DEF Delivery
  <2> QED BY <1>1, <1>2, <2>1, GivingBack
<1>3. CASE At(w, "send") /\ UNCHANGED delivery
  <2>1. LedgerMoves /\ \A s \in Sends : KeepsYoung(s)
    BY <1>1, LedgerStays DEF Quiet
  <2>2. sender[w].tries < MaxTries
    BY <1>1 DEF MailInv, SendersOK, InStep, ProcessOK
  <2>3. SendersOK'
    BY <1>1, <1>3, <2>1, <2>2, MovingOn, OneGoesOn DEF InStep
  <2> QED BY <1>1, <1>3, <2>1, <2>3, DeliveriesStay DEF MailInv, LedgerMoves, MailKept, DeliveriesKeep, Quiet
<1> QED BY <1>2, <1>3 DEF CheckDelivery

\* One entry of the ledger changes, and forgets nothing.
LEMMA LedgerWrites ==
  ASSUME MailInv, NEW s \in Sends, NEW v \in Send, ledger' = [ledger EXCEPT ![s] = v],
         v.mails <= 1, v.accepted => v.mails = 1,
         ledger[s].accepted => v.accepted, ledger[s].mails = 1 => v.mails = 1
  PROVE  /\ LedgerMoves /\ ledger'[s] = v
         /\ \A t \in Sends \ {s} : KeepsYoung(t)
         /\ (ledger[s].age = "young" => v.age = "young") => KeepsYoung(s)
<1>1. ledger' \in [Sends -> Send] /\ \A t \in Sends : ledger'[t] = IF t = s THEN v ELSE ledger[t]
  BY DEF MailInv, LedgerOK
<1> QED BY <1>1 DEF MailInv, LedgerOK, LedgerMoves, KeepsYoung

\* A worker goes on, whatever it wrote to the ledger.
LEMMA WritingOn ==
  ASSUME MailInv, NEW w \in Workers, sender[w].pc # "idle",
         LedgerMoves, \A s \in Sends : KeepsYoung(s),
         UNCHANGED <<delivery, invites>>, Trouble \/ UNCHANGED mailTroubles,
         NEW p, ProcessOK(p), sender' = [sender EXCEPT ![w] = p],
         p.item = sender[w].item, p.generation = sender[w].generation,
         p.pc = "call" => ledger'[SendOf(w)].age = "young",
         p.pc = "accept" => ledger'[SendOf(w)].mails = 1,
         p.pc = "record" => ledger'[SendOf(w)].accepted
  PROVE  MailKept
<1>1. InStep(p, ledger')
  BY DEF InStep, SendOf
<1>2. SendersOK'
  BY <1>1, OneGoesOn
<1> QED BY <1>2, DeliveriesStay, TroubleCounts DEF MailInv, LedgerMoves, MailKept, DeliveriesKeep

LEMMA TryingAgain ==
  ASSUME MailInv, NEW w \in Workers, sender[w].pc \in {"call", "accept"}, Again(w)
  PROVE  \E p \in Process :
           /\ ProcessOK(p) /\ sender' = [sender EXCEPT ![w] = p]
           /\ p.pc \in {"send", "PROVIDER"} /\ p.item = sender[w].item
           /\ p.generation = sender[w].generation
<1> DEFINE n == sender[w].tries + 1
           c == IF n < MaxTries THEN "send" ELSE "PROVIDER"
           p == [sender[w] EXCEPT !.tries = n, !.pc = c]
<1>1. sender[w] \in Process /\ sender[w].item \in Items /\ sender[w].tries < MaxTries
  BY ReadingTheLedger DEF MailInv, SendersOK, InStep, ProcessOK
<1>2. n \in 0..MaxTries /\ c \in {"send", "PROVIDER"} /\ (c = "send" => n < MaxTries)
  BY <1>1, MailAssumption DEF Process
<1>3. sender' = [sender EXCEPT ![w] = p]
  BY DEF Again
<1> HIDE DEF n, c
<1>4. /\ p \in Process /\ p.pc = c /\ p.item = sender[w].item /\ p.generation = sender[w].generation
      /\ p.tries = n
  BY <1>1, <1>2 DEF Process
<1> HIDE DEF p
<1> QED BY <1>1, <1>2, <1>3, <1>4 DEF ProcessOK

LEMMA ReserveKeeps ==
  ASSUME MailInv, NEW w \in Workers, Reserve(w), UNCHANGED invites PROVE MailKept
<1>1. /\ sender[w].pc = "send" /\ sender[w].tries < MaxTries /\ UNCHANGED <<delivery, invites>>
      /\ SendOf(w) \in Sends /\ Sent(w) \in Send
  BY ReadingTheLedger DEF Reserve, MailInv, SendersOK, InStep, ProcessOK
<1>2. CASE UNCHANGED ledger /\ Sent(w).accepted /\ At(w, "record") /\ UNCHANGED mailTroubles
  BY <1>1, <1>2, MovingOn, WritingOn, LedgerStays DEF Sent
<1>3. ASSUME NEW c \in {"REVIEW", "SUPPRESSED", "BUDGET", "STORE"}, At(w, c), UNCHANGED ledger,
             Trouble \/ UNCHANGED mailTroubles
      PROVE  MailKept
  BY <1>1, <1>3, MovingOn, WritingOn, LedgerStays
<1>4. CASE /\ MayAttempt(w) /\ At(w, "call") /\ UNCHANGED mailTroubles
           /\ ledger' = [ledger EXCEPT ![SendOf(w)].age = IF @ = "never" THEN "young" ELSE @]
  <2> DEFINE v == [Sent(w) EXCEPT !.age = "young"]
  <2>1. Sent(w).age \in {"never", "young"}
    BY <1>1, <1>4 DEF MayAttempt, PastWindow, Send
  <2>2. ledger' = [ledger EXCEPT ![SendOf(w)] = v]
    BY <1>4, <2>1 DEF Sent
  <2>3. v \in Send /\ v.age = "young" /\ v.mails = Sent(w).mails /\ v.accepted = Sent(w).accepted
    BY <1>1 DEF Send
  <2> HIDE DEF v
  <2>4. LedgerMoves /\ (\A s \in Sends : KeepsYoung(s)) /\ ledger'[SendOf(w)].age = "young"
    BY <1>1, <2>2, <2>3, LedgerWrites DEF Sent, MailInv, LedgerOK
  <2> QED BY <1>1, <1>4, <2>4, MovingOn, WritingOn
<1> QED BY <1>2, <1>3, <1>4 DEF Reserve

LEMMA CallKeeps ==
  ASSUME MailInv, NEW w \in Workers, Call(w), UNCHANGED invites PROVE MailKept
<1>1. /\ sender[w].pc = "call" /\ Sent(w).age = "young" /\ UNCHANGED <<delivery, invites>>
      /\ sender[w].tries < MaxTries
      /\ SendOf(w) \in Sends /\ Sent(w) \in Send
  BY ReadingTheLedger DEF Call, MailInv, SendersOK, InStep, ProcessOK, Sent, SendOf
<1>2. ASSUME MailsOut(w)
      PROVE  LedgerMoves /\ (\A s \in Sends : KeepsYoung(s)) /\ ledger'[SendOf(w)].mails = 1
  <2> DEFINE v == [Sent(w) EXCEPT !.mails = 1]
  <2>1. Sent(w).mails \in {0, 1}
    BY <1>1 DEF MailInv, LedgerOK, Sent, Send
  <2>2. ledger' = [ledger EXCEPT ![SendOf(w)] = v]
    <3> DEFINE n == IF Sent(w).mails > 0 /\ Sent(w).age # "forgotten" THEN Sent(w).mails
                    ELSE Sent(w).mails + 1
    <3>1. n = 1
      BY <1>1, <2>1
    <3>2. ledger' = [ledger EXCEPT ![SendOf(w)] = [Sent(w) EXCEPT !.mails = n]]
      BY <1>2 DEF MailsOut, Sent
    <3> HIDE DEF n
    <3> QED BY <3>1, <3>2
  <2>3. v \in Send /\ v.age = Sent(w).age /\ v.mails = 1 /\ v.accepted = Sent(w).accepted
    BY <1>1 DEF Send
  <2> HIDE DEF v
  <2>4. ledger[SendOf(w)] = Sent(w)
    BY DEF Sent
  <2>5. (Sent(w).accepted => v.accepted) /\ v.mails <= 1 /\ (Sent(w).age = "young" => v.age = "young")
    BY <2>3
  <2> QED BY <1>1, <2>2, <2>3, <2>4, <2>5, LedgerWrites
<1>3. CASE MailsOut(w) /\ At(w, "accept") /\ UNCHANGED mailTroubles
  BY <1>1, <1>2, <1>3, MovingOn, WritingOn
<1>4. CASE MailsOut(w) /\ Again(w) /\ Trouble
  BY <1>1, <1>2, <1>4, TryingAgain, WritingOn
<1>5. CASE Again(w) /\ Trouble /\ UNCHANGED ledger
  BY <1>1, <1>5, TryingAgain, WritingOn, LedgerStays
<1>6. CASE /\ sender' = [sender EXCEPT ![w].pc = "PROVIDER", ![w].tries = @ + 1]
           /\ Trouble /\ UNCHANGED ledger
  <2> DEFINE n == sender[w].tries + 1
             p == [sender[w] EXCEPT !.pc = "PROVIDER", !.tries = n]
  <2>1. sender[w] \in Process /\ sender[w].item \in Items
    BY <1>1, ReadingTheLedger
  <2>2. n \in 0..MaxTries
    BY <1>1, <2>1, MailAssumption DEF Process
  <2>3. sender' = [sender EXCEPT ![w] = p]
    BY <1>6
  <2> HIDE DEF n
  <2>4. /\ p \in Process /\ p.pc = "PROVIDER" /\ p.item = sender[w].item
        /\ p.generation = sender[w].generation
    BY <2>1, <2>2 DEF Process
  <2> HIDE DEF p
  <2>5. ProcessOK(p)
    BY <2>1, <2>4 DEF ProcessOK
  <2> QED BY <1>1, <1>6, <2>3, <2>4, <2>5, WritingOn, LedgerStays
<1> QED BY <1>3, <1>4, <1>5, <1>6 DEF Call

LEMMA AcceptKeeps ==
  ASSUME MailInv, NEW w \in Workers, Accept(w), UNCHANGED invites PROVE MailKept
<1>1. /\ sender[w].pc = "accept" /\ Sent(w).mails = 1 /\ UNCHANGED <<delivery, invites>>
      /\ SendOf(w) \in Sends /\ Sent(w) \in Send
  BY ReadingTheLedger DEF Accept, MailInv, SendersOK, InStep, ProcessOK, Sent, SendOf
<1>2. CASE /\ ledger' = [ledger EXCEPT ![SendOf(w)].accepted = TRUE]
           /\ At(w, "record") /\ UNCHANGED mailTroubles
  <2> DEFINE v == [Sent(w) EXCEPT !.accepted = TRUE]
  <2>1. ledger' = [ledger EXCEPT ![SendOf(w)] = v]
    BY <1>2 DEF Sent
  <2>2. v \in Send /\ v.age = Sent(w).age /\ v.mails = 1 /\ v.accepted
    BY <1>1 DEF Send
  <2> HIDE DEF v
  <2>3. ledger[SendOf(w)] = Sent(w)
    BY DEF Sent
  <2>4. (Sent(w).accepted => v.accepted) /\ v.mails <= 1 /\ (Sent(w).age = "young" => v.age = "young")
    BY <2>2
  <2>5. LedgerMoves /\ (\A s \in Sends : KeepsYoung(s)) /\ ledger'[SendOf(w)].accepted
    BY <1>1, <2>1, <2>2, <2>3, <2>4, LedgerWrites
  <2> QED BY <1>1, <1>2, <2>5, MovingOn, WritingOn
<1>3. CASE Again(w) /\ Trouble /\ UNCHANGED ledger
  BY <1>1, <1>3, TryingAgain, WritingOn, LedgerStays
<1> QED BY <1>2, <1>3 DEF Accept

LEMMA RecordSentKeeps ==
  ASSUME MailInv, NEW w \in Workers, RecordSent(w), UNCHANGED invites PROVE MailKept
<1>1. /\ sender[w].pc = "record" /\ sender[w].item \in Items /\ Mine(w) \in Delivery
      /\ DeliveryOK(Mine(w)) /\ UNCHANGED <<ledger, invites>>
      /\ ledger[<<sender[w].item, sender[w].generation>>].accepted
  BY ReadingTheLedger DEF RecordSent, MailInv, SendersOK, InStep
<1>2. CASE Owns(w) /\ GivesBack(w, [Mine(w) EXCEPT !.status = "SENT", !.known = TRUE]) /\ UNCHANGED mailTroubles
  <2> DEFINE d == [Mine(w) EXCEPT !.status = "SENT", !.known = TRUE]
  <2>1. d \in Delivery /\ d.status = "SENT" /\ d.generation = Mine(w).generation
    BY <1>1 DEF Delivery
  <2>2. Mine(w).generation = sender[w].generation
    BY <1>2 DEF Owns, Mine
  <2> HIDE DEF d
  <2>3. GivesBack(w, d)
    BY <1>2 DEF d
  <2> QED BY <1>1, <1>2, <2>1, <2>2, <2>3, GivingBack DEF Quiet
<1>3. CASE At(w, "STORE") /\ Trouble /\ UNCHANGED delivery
  BY <1>1, <1>3, MovingOn, WritingOn, LedgerStays
<1>4. CASE /\ delivery' = [delivery EXCEPT ![sender[w].item].known =
                @ \/ (Mine(w).status = "CANCELED" /\ Mine(w).generation = sender[w].generation)]
           /\ Free(w) /\ UNCHANGED mailTroubles
  <2> DEFINE b == Mine(w).known \/ (Mine(w).status = "CANCELED" /\ Mine(w).generation = sender[w].generation)
             d == [Mine(w) EXCEPT !.known = b]
  <2>1. b \in BOOLEAN
    OBVIOUS
  <2>2. delivery' = [delivery EXCEPT ![sender[w].item] = d]
    BY <1>4 DEF Mine
  <2> HIDE DEF b
  <2>3. /\ DeliveryOK(d) /\ d.status = Mine(w).status /\ d.generation = Mine(w).generation
    BY <1>1, <2>1 DEF DeliveryOK, Delivery
  <2> HIDE DEF d
  <2>4. LedgerMoves /\ \A s \in Sends : KeepsYoung(s)
    BY <1>1, LedgerStays
  <2>5. SendersOK'
    BY <1>1, <1>4, <2>4, RestIsInStep, OneGoesOn DEF Free
  <2>6. d.status = "SENT" => ledger'[<<sender[w].item, d.generation>>].accepted
    BY <1>1, <2>3 DEF MailInv, ShownIsTrue, Mine
  <2> QED BY <1>1, <1>4, <2>2, <2>3, <2>4, <2>5, <2>6, OneDeliveryChanges
          DEF MailInv, LedgerMoves, MailKept, DeliveriesKeep, Mine
<1> QED BY <1>2, <1>3, <1>4 DEF RecordSent

LEMMA RecordErrorKeeps ==
  ASSUME MailInv, NEW w \in Workers, RecordError(w), UNCHANGED invites PROVE MailKept
<1>1. sender[w].pc # "idle" /\ sender[w] \in Process /\ Mine(w) \in Delivery /\ Quiet
  BY ReadingTheLedger DEF RecordError, Quiet
<1>2. Counted(w) \in Nat /\ Attempted(w) \in BOOLEAN /\ sender[w].known \in BOOLEAN
  <2>1. Mine(w).attempts \in Nat
    BY <1>1 DEF Delivery
  <2>2. Counted(w) \in Nat
    BY <2>1 DEF Counted
  <2> QED BY <1>1, <2>2 DEF Attempted, Process
<1>3. CASE GivesBack(w, [Mine(w) EXCEPT !.status = "QUEUED", !.wait = TRUE,
                           !.attempts = Counted(w), !.known = Attempted(w)])
  <2> DEFINE d == [Mine(w) EXCEPT !.status = "QUEUED", !.wait = TRUE,
                           !.attempts = Counted(w), !.known = Attempted(w)]
  <2> DEFINE n == Counted(w)
             f == Attempted(w)
  <2>1. d \in Delivery /\ d.status = "QUEUED"
    <3>1. n \in Nat /\ f \in BOOLEAN
      BY <1>2
    <3> HIDE DEF n, f
    <3>2. LET c == [Mine(w) EXCEPT !.status = "QUEUED", !.wait = TRUE, !.attempts = n, !.known = f]
          IN  c \in Delivery /\ c.status = "QUEUED"
      BY <1>1, <3>1 DEF Delivery
    <3> QED BY <3>2 DEF n, f
  <2> HIDE DEF d
  <2>2. GivesBack(w, d)
    BY <1>3 DEF d
  <2> QED BY <1>1, <2>1, <2>2, GivingBack
<1>4. ASSUME NEW c \in {"REVIEW", "CANCELED"},
             GivesBack(w, [Mine(w) EXCEPT !.status = c, !.attempts = Counted(w), !.known = Attempted(w)])
      PROVE  MailKept
  <2> DEFINE d == [Mine(w) EXCEPT !.status = c, !.attempts = Counted(w), !.known = Attempted(w)]
  <2>1. d \in Delivery /\ d.status = c
    BY <1>1, <1>2 DEF Delivery
  <2> HIDE DEF d
  <2>2. GivesBack(w, d)
    BY <1>4 DEF d
  <2> QED BY <1>1, <2>1, <2>2, GivingBack
<1>5. ASSUME NEW known \in BOOLEAN, NEW last \in BOOLEAN,
             GivesBack(w, [Mine(w) EXCEPT !.status = IF last THEN "REVIEW" ELSE "QUEUED",
                             !.wait = ~last, !.known = known])
      PROVE  MailKept
  <2> DEFINE c == IF last THEN "REVIEW" ELSE "QUEUED"
             b == ~last
             d == [Mine(w) EXCEPT !.status = c, !.wait = b, !.known = known]
  <2>1. c \in {"QUEUED", "REVIEW"} /\ b \in BOOLEAN
    OBVIOUS
  <2>2. GivesBack(w, d)
    BY <1>5
  <2> HIDE DEF c, b
  <2>3. d \in Delivery /\ d.status = c
    BY <1>1, <2>1 DEF Delivery
  <2> HIDE DEF d
  <2> QED BY <1>1, <2>1, <2>2, <2>3, GivingBack
<1>6. (sender[w].attempts + 1 >= MaxAttempts) \in BOOLEAN
  OBVIOUS
<1> QED BY <1>2, <1>3, <1>4, <1>5, <1>6 DEF RecordError

LEMMA SenderKeeps ==
  ASSUME MailInv, NEW w \in Workers, SenderStep(w), UNCHANGED invites PROVE MailKept
BY ReadDueKeeps, ClaimKeeps, CheckKeeps, ReserveKeeps, CallKeeps, AcceptKeeps, RecordSentKeeps,
   RecordErrorKeeps DEF SenderStep

LEMMA CrashKeeps ==
  ASSUME MailInv, NEW w \in Workers, Crash(w), UNCHANGED invites PROVE MailKept
<1>1. UNCHANGED <<delivery, ledger, invites>> /\ Trouble /\ sender' = [sender EXCEPT ![w] = Idle]
  BY DEF Crash, Free
<1>2. LedgerMoves /\ \A s \in Sends : KeepsYoung(s)
  BY <1>1, LedgerStays
<1>3. SendersOK'
  BY <1>1, <1>2, RestIsInStep, OneGoesOn
<1> QED BY <1>1, <1>2, <1>3, DeliveriesStay, TroubleCounts DEF MailInv, LedgerMoves, MailKept, DeliveriesKeep

-----------------------------------------------------------------------------
(***************************************************************************)
(* The staff, and time.                                                    *)
(***************************************************************************)

\* One delivery changes, and no worker moves.
LEMMA FromOutside ==
  ASSUME MailInv, UNCHANGED <<sender, invites>>, Trouble \/ UNCHANGED mailTroubles,
         LedgerMoves, \A s \in Sends : KeepsYoung(s),
         NEW k \in Items, NEW d, DeliveryOK(d), delivery' = [delivery EXCEPT ![k] = d],
         d.status = "SENT" => ledger'[<<k, d.generation>>].accepted,
         d.status # "NONE" => delivery[k].status # "NONE",
         delivery[k].status = "CANCELED" => d.status = "CANCELED"
  PROVE  MailKept
BY NobodyMoves, OneDeliveryChanges, TroubleCounts DEF MailInv, LedgerMoves, MailKept, DeliveriesKeep

LEMMA ReviewKeeps ==
  ASSUME MailInv, NEW k \in Items, Review(k), UNCHANGED invites PROVE MailKept
<1>1. /\ delivery[k] \in Delivery /\ DeliveryOK(delivery[k]) /\ UNCHANGED <<sender, mailTroubles>>
      /\ delivery[k].status \in {"REVIEW", "SENT"}
      /\ LatestOf(k) \in Sends /\ ledger[LatestOf(k)] \in Send
  <2>1. delivery[k] \in Delivery /\ DeliveryOK(delivery[k])
    BY DEF MailInv, DeliveriesOK
  <2>2. LatestOf(k) \in Sends
    BY <2>1 DEF LatestOf, Sends, Delivery
  <2> QED BY <2>1, <2>2 DEF Review, RetryReview, RecoverReceipt, RepeatDelivery, MailInv, LedgerOK
<1>2. CASE RetryReview(k)
  <2> DEFINE d == [delivery[k] EXCEPT !.status = "QUEUED", !.wait = FALSE]
  <2>1. delivery' = [delivery EXCEPT ![k] = d] /\ delivery[k].status = "REVIEW"
    BY <1>2 DEF RetryReview
  <2>2. DeliveryOK(d) /\ d.status = "QUEUED"
    BY <1>1, <2>1 DEF DeliveryOK, Delivery
  <2> HIDE DEF d
  <2> QED BY <1>1, <1>2, <2>1, <2>2, FromOutside, LedgerStays DEF RetryReview
<1>3. CASE RecoverReceipt(k)
  <2> DEFINE d == [delivery[k] EXCEPT !.status = "SENT", !.known = TRUE]
             v == [ledger[LatestOf(k)] EXCEPT !.accepted = TRUE]
  <2>1. /\ delivery' = [delivery EXCEPT ![k] = d] /\ delivery[k].status = "REVIEW"
        /\ ledger' = [ledger EXCEPT ![LatestOf(k)] = v]
    BY <1>3 DEF RecoverReceipt
  <2>2. DeliveryOK(d) /\ d.status = "SENT" /\ d.generation = delivery[k].generation
    BY <1>1, <2>1 DEF DeliveryOK, Delivery
  <2>3. /\ v \in Send /\ v.accepted /\ v.mails = ledger[LatestOf(k)].mails
        /\ v.age = ledger[LatestOf(k)].age
    BY <1>1 DEF Send
  <2>4. ledger[LatestOf(k)].mails = 1
    BY <1>1, <1>3 DEF RecoverReceipt, Latest, MailInv, LedgerOK, Send
  <2> HIDE DEF d, v
  <2>5. LedgerMoves /\ (\A s \in Sends : KeepsYoung(s)) /\ ledger'[LatestOf(k)].accepted
    <3>1. v.mails <= 1 /\ (ledger[LatestOf(k)].accepted => v.accepted)
      BY <2>3, <2>4
    <3>2. ledger[LatestOf(k)].age = "young" => v.age = "young"
      BY <2>3
    <3> QED BY <1>1, <2>1, <2>3, <2>4, <3>1, <3>2, LedgerWrites, ZenonT(40)
  <2>6. ledger'[<<k, d.generation>>].accepted
    BY <2>2, <2>5 DEF LatestOf
  <2> QED BY <1>1, <2>1, <2>2, <2>5, <2>6, FromOutside
<1>4. CASE RepeatDelivery(k)
  <2> DEFINE n == delivery[k].generation + 1
             d == [NoDelivery EXCEPT !.status = "QUEUED", !.generation = n]
  <2>1. delivery' = [delivery EXCEPT ![k] = d]
    BY <1>4 DEF RepeatDelivery
  <2>2. n \in Generations
    BY <1>1, <1>4, MailAssumption DEF RepeatDelivery, Generations, Delivery
  <2> HIDE DEF n
  <2>3. DeliveryOK(d) /\ d.status = "QUEUED"
    BY <2>2 DEF DeliveryOK, Delivery, NoDelivery
  <2> HIDE DEF d
  <2> QED BY <1>1, <1>4, <2>1, <2>3, FromOutside, LedgerStays DEF RepeatDelivery
<1> QED BY <1>2, <1>3, <1>4 DEF Review

LEMMA TimeKeeps ==
  ASSUME MailInv, NEW k \in Items, WaitEnds(k) \/ LeaseRunsOut(k), UNCHANGED invites PROVE MailKept
<1>1. /\ delivery[k] \in Delivery /\ DeliveryOK(delivery[k]) /\ UNCHANGED <<sender, ledger>>
      /\ Trouble \/ UNCHANGED mailTroubles
  BY DEF MailInv, DeliveriesOK, WaitEnds, LeaseRunsOut
<1>2. ASSUME NEW d, DeliveryOK(d), d.status = delivery[k].status, d.generation = delivery[k].generation,
             delivery' = [delivery EXCEPT ![k] = d]
      PROVE  MailKept
  <2>1. LedgerMoves /\ \A s \in Sends : KeepsYoung(s)
    BY <1>1, LedgerStays
  <2>2. d.status = "SENT" => ledger'[<<k, d.generation>>].accepted
    BY <1>1, <1>2 DEF MailInv, ShownIsTrue
  <2> QED BY <1>1, <1>2, <2>1, <2>2, FromOutside, ZenonT(40)
<1>3. CASE WaitEnds(k)
  <2> DEFINE d == [delivery[k] EXCEPT !.wait = FALSE]
  <2>1. delivery' = [delivery EXCEPT ![k] = d]
    BY <1>3 DEF WaitEnds
  <2>2. DeliveryOK(d) /\ d.status = delivery[k].status /\ d.generation = delivery[k].generation
    BY <1>1 DEF DeliveryOK, Delivery
  <2> HIDE DEF d
  <2> QED BY <1>2, <2>1, <2>2
<1>4. CASE LeaseRunsOut(k)
  <2> DEFINE d == [delivery[k] EXCEPT !.stale = TRUE]
  <2>1. delivery' = [delivery EXCEPT ![k] = d]
    BY <1>4 DEF LeaseRunsOut
  <2>2. DeliveryOK(d) /\ d.status = delivery[k].status /\ d.generation = delivery[k].generation
    BY <1>1 DEF DeliveryOK, Delivery
  <2> HIDE DEF d
  <2> QED BY <1>2, <2>1, <2>2
<1> QED BY <1>3, <1>4

\* A send grows old only when no request of it is under way.
LEMMA GrowingOldKeeps ==
  ASSUME MailInv, NEW k \in Items, NEW g \in Generations, GrowsOld(k, g), UNCHANGED invites
  PROVE  MailKept
<1> DEFINE s == <<k, g>>
           a == IF ledger[s].age = "young" THEN "old" ELSE "forgotten"
           v == [ledger[s] EXCEPT !.age = a]
<1>1. s \in Sends /\ ledger[s] \in Send /\ UNCHANGED <<delivery, sender, mailTroubles>>
  BY DEF MailInv, LedgerOK, Sends, GrowsOld
<1>2. ledger' = [ledger EXCEPT ![s] = v]
  BY DEF GrowsOld
<1>3. v \in Send /\ v.mails = ledger[s].mails /\ v.accepted = ledger[s].accepted
  BY <1>1 DEF Send
<1> HIDE DEF v
<1>4. LedgerMoves /\ \A t \in Sends \ {s} : KeepsYoung(t)
  <2>1. /\ v.mails <= 1 /\ (v.accepted => v.mails = 1)
        /\ (ledger[s].accepted => v.accepted) /\ (ledger[s].mails = 1 => v.mails = 1)
    BY <1>1, <1>3 DEF MailInv, LedgerOK
  <2> QED BY <1>1, <1>2, <1>3, <2>1, LedgerWrites
<1>5. ASSUME NEW w \in Workers PROVE InStep(sender[w], ledger')
  <2>1. InStep(sender[w], ledger)
    BY DEF MailInv, SendersOK
  <2>2. sender[w].pc = "call" => <<sender[w].item, sender[w].generation>> \in Sends \ {s}
    BY <2>1 DEF InStep, ProcessOK, Process, Sends, GrowsOld
  <2> QED BY <1>4, <2>1, <2>2, StaysInStep
<1>6. SendersOK'
  BY <1>1, <1>5 DEF MailInv, SendersOK
<1> QED BY <1>1, <1>4, <1>6, DeliveriesStay DEF MailInv, LedgerMoves, MailKept, DeliveriesKeep

-----------------------------------------------------------------------------
(***************************************************************************)
(* The outbox beside Admission, and the theorems.                          *)
(***************************************************************************)

\* No invitation is ever forgotten.
LEMMA InvitationsStay ==
  ASSUME AdmissionInv, AdmissionNext, NEW e \in People
  PROVE  DOMAIN invites[e] \subseteq DOMAIN invites'[e]
<1>1. InvitesWell /\ AdmissionTypeOK /\ e \in Recipients
  BY StepsKeep DEF Kept, AdmissionInv, Recipients
<1>2. /\ DOMAIN invites[e] = 1..Len(invites[e]) /\ Len(invites[e]) \in Nat
      /\ DOMAIN invites'[e] = 1..Len(invites'[e])
  BY <1>1, OpenIndices, OpenIndicesAfter DEF AdmissionTypeOK, InvitesWell
<1>3. Len(invites'[e]) \in {Len(invites[e]), Len(invites[e]) + 1}
  BY <1>1 DEF InvitesWell, Closed, Added
<1> QED BY <1>2, <1>3

LEMMA AdmissionKeepsMail == ASSUME AdmissionInv, MailInv, AdmissionStep PROVE MailKept
<1>1. UNCHANGED <<ledger, sender, mailTroubles>> /\ OutboxFollows
  BY DEF AdmissionStep, WithOutbox
<1>2. LedgerMoves /\ (\A s \in Sends : KeepsYoung(s)) /\ SendersOK'
  BY <1>1, LedgerStays, NobodyMoves
<1> DEFINE new == [NoDelivery EXCEPT !.status = "QUEUED"]
<1>3. DeliveryOK(new) /\ new.status = "QUEUED"
  <2>1. 1 \in Generations
    BY MailAssumption DEF Generations
  <2> QED BY <2>1 DEF DeliveryOK, Delivery, NoDelivery
<1>4. \A d \in Delivery : DeliveryOK(Canceled(d)) /\ Canceled(d).status = "CANCELED"
  BY MailAssumption DEF DeliveryOK, Delivery, Canceled
<1>5. ASSUME NEW k \in Items
      PROVE  \/ delivery'[k] = delivery[k]
             \/ delivery'[k] = new /\ k[2] \notin DOMAIN invites[k[1]] /\ k[2] \in DOMAIN invites'[k[1]]
             \/ delivery'[k] = Canceled(delivery[k]) /\ k[2] \in DOMAIN invites[k[1]]
  BY <1>1 DEF OutboxFollows
<1> HIDE DEF new
<1>6. DeliveriesOK'
  <2>1. \A k \in Items : DeliveryOK(delivery'[k])
    BY <1>3, <1>4, <1>5 DEF MailInv, DeliveriesOK
  <2>2. delivery' \in [Items -> Delivery]
    BY <1>1, <2>1 DEF DeliveryOK, OutboxFollows
  <2> QED BY <2>1, <2>2 DEF DeliveriesOK
<1>7. ShownIsTrue'
  BY <1>1, <1>3, <1>4, <1>5 DEF MailInv, DeliveriesOK, ShownIsTrue
<1>8. \A k \in Items : DOMAIN invites[k[1]] \subseteq DOMAIN invites'[k[1]]
  BY InvitationsStay DEF AdmissionStep, Items
<1>9. OnlyOfInvitations'
  BY <1>5, <1>8 DEF MailInv, OnlyOfInvitations
<1>10. StaysCanceled
  BY <1>4, <1>5 DEF MailInv, DeliveriesOK, OnlyOfInvitations, StaysCanceled
<1> QED BY <1>1, <1>2, <1>6, <1>7, <1>9, <1>10 DEF MailInv, LedgerMoves, MailKept

LEMMA StepsKeepMail == AdmissionInv /\ MailInv /\ [MailNext]_systemVars => MailKept
<1> SUFFICES ASSUME AdmissionInv, MailInv, [MailNext]_systemVars PROVE MailKept
  OBVIOUS
<1>1. CASE UNCHANGED systemVars
  <2>1. UNCHANGED <<delivery, ledger, sender, mailTroubles, invites>>
    BY <1>1 DEF systemVars, mailVars, admissionVars
  <2> QED BY <2>1, LedgerStays, NobodyMoves, DeliveriesStay DEF MailInv, LedgerMoves, MailKept, DeliveriesKeep
<1>2. UNCHANGED admissionVars => UNCHANGED invites
  BY DEF admissionVars
<1> QED BY <1>1, <1>2, AdmissionKeepsMail, SenderKeeps, CrashKeeps, ReviewKeeps, TimeKeeps,
           GrowingOldKeeps DEF MailNext

LEMMA InitialMail == MailInit => MailInv
<1> SUFFICES ASSUME MailInit PROVE MailInv
  OBVIOUS
<1>1. DeliveryOK(NoDelivery) /\ NoDelivery.status = "NONE"
  BY MailAssumption DEF DeliveryOK, Delivery, NoDelivery, Generations
<1>2. DeliveriesOK /\ ShownIsTrue /\ OnlyOfInvitations
  BY <1>1 DEF MailInit, DeliveriesOK, DeliveryOK, ShownIsTrue, OnlyOfInvitations
<1>3. LedgerOK
  <2>1. Unsent \in Send /\ Unsent.mails = 0 /\ ~Unsent.accepted
    BY DEF Unsent, Send
  <2> QED BY <2>1 DEF MailInit, LedgerOK, Sends
<1>4. SendersOK
  BY RestIsInStep DEF MailInit, SendersOK, InStep, ProcessOK
<1>5. mailTroubles \in 0..MaxTroubles
  BY MailAssumption DEF MailInit
<1> QED BY <1>2, <1>3, <1>4, <1>5 DEF MailInv

\* The mail is carried out beside the admissions: it never changes who may open an account.
THEOREM MailLeavesAdmissionAlone == MailSpec => AdmissionSpec
<1>1. MailInit => AdmissionInit
  BY DEF MailInit
<1>2. [MailNext]_systemVars => [AdmissionNext]_admissionVars
  BY DEF MailNext, AdmissionStep, systemVars
<1> QED BY <1>1, <1>2, PTL DEF MailSpec, AdmissionSpec

LEMMA MailInvariant == MailSpec => []MailInv
<1>1. AdmissionInv /\ MailInv /\ [MailNext]_systemVars => MailInv'
  BY StepsKeepMail DEF MailKept
<1> QED BY <1>1, InitialMail, AdmissionInvariant, MailLeavesAdmissionAlone, PTL DEF MailSpec

\* Type correctness, that of the admissions included.
THEOREM MailTypesHold == MailSpec => []MailTypeOK
<1>1. MailInv /\ AdmissionTypeOK => MailTypeOK
  BY DEF MailInv, MailTypeOK, LedgerOK, SendersOK, InStep, ProcessOK, DeliveriesOK, DeliveryOK, Sends
<1> QED BY <1>1, MailInvariant, AdmissionTypesHold, MailLeavesAdmissionAlone, PTL

\* Whatever crashes, takeovers, lost answers and retries there are, one key sends one mail.
THEOREM OneMailForEachKey == MailSpec => []OneMailPerGeneration
<1>1. MailInv => OneMailPerGeneration
  BY DEF MailInv, LedgerOK, OneMailPerGeneration, Sends
<1> QED BY <1>1, MailInvariant, PTL

\* What is shown as sent was accepted by the provider, and is the mail of this generation.
THEOREM WhatIsSentWasAccepted == MailSpec => []SentWasAccepted
<1>1. ASSUME MailInv, NEW k \in Items, delivery[k].status = "SENT"
      PROVE  Latest(k).accepted /\ Latest(k).mails = 1
  <2>1. LatestOf(k) \in Sends
    BY <1>1 DEF LatestOf, Sends, MailInv, DeliveriesOK, Delivery
  <2> QED BY <1>1, <2>1 DEF MailInv, LedgerOK, ShownIsTrue, Latest, LatestOf
<1>2. MailInv => SentWasAccepted
  BY <1>1 DEF SentWasAccepted
<1> QED BY <1>2, MailInvariant, PTL

\* What a revocation, a stop or a bounce canceled is neither queued again nor shown as sent.
THEOREM WhatIsCanceledStaysSo == MailSpec => CanceledStaysCanceled
<1>1. AdmissionInv /\ MailInv /\ [MailNext]_systemVars => [StaysCanceled]_systemVars
  BY StepsKeepMail DEF MailKept
<1>2. StaysCanceled <=> \A k \in Items : delivery[k].status = "CANCELED" => delivery'[k].status = "CANCELED"
  BY DEF StaysCanceled
<1> QED BY <1>1, <1>2, MailInvariant, AdmissionInvariant, MailLeavesAdmissionAlone, PTL
        DEF MailSpec, CanceledStaysCanceled

=============================================================================
