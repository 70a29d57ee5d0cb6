---------------------------- MODULE FollowUpSystem ----------------------------
(***************************************************************************)
(* Scheduler passes, automatic sending and the owner over the same rows.   *)
(***************************************************************************)
EXTENDS Preparation, AutomaticSending

systemVars == <<row, drafts, saving, setup, enrollment, clock, edits, pass, crashes,
                delivery, worker, sent, automation, losses>>

SystemInit ==
    /\ PrepInit
    /\ delivery = [k \in Keys |-> NoDelivery]
    /\ worker = [w \in Workers |-> Resting]
    /\ sent = [k \in Keys |-> 0]
    /\ automation = TRUE
    /\ losses = 0

PreparationStep ==
    /\ OthersStep \/ \E p \in Passes : PassStep(p) \/ Crash(p)
    /\ UNCHANGED sendingVars

SendingStep ==
    /\ SwitchAutomation \/ \E w \in Workers : WorkerStep(w) \/ LoseWorker(w)
    /\ pass' = [x \in Passes |-> Noticed(pass[x])]
    /\ UNCHANGED crashes

SystemNext == PreparationStep \/ SendingStep

SystemSpec == SystemInit /\ [][SystemNext]_systemVars

-----------------------------------------------------------------------------
\* "Durable claims prevent duplicate sending": a person is not sent the message of
\* one occurrence twice, whatever key its row has.
OneMessagePerOccurrence ==
    \A j, k \in Keys :
        Occurrence(j) = Occurrence(k) /\ sent[j] > 0 /\ sent[k] > 0 => j = k

=============================================================================
