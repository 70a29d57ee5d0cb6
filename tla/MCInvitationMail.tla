-------------------------- MODULE MCInvitationMail --------------------------
(***************************************************************************)
(* The constants of the run of InvitationMail: one person on the waitlist, *)
(* two worker processes.                                                   *)
(***************************************************************************)
EXTENDS InvitationMail

CONSTANTS ann, w1, w2

ThePeople == {ann}
TheWorkers == {w1, w2}
ThePolicies == {[accounts |-> 1, outstanding |-> 1, collectionPaused |-> FALSE,
                 grantsPaused |-> FALSE, referralsPaused |-> FALSE, redemptionPaused |-> FALSE]}

=============================================================================
