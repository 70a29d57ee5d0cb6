---------------------------- MODULE MCAdmission ----------------------------
(***************************************************************************)
(* The constants of the runs of Admission: a member and two people who     *)
(* have no account yet.                                                    *)
(***************************************************************************)
EXTENDS Admission, TLC

CONSTANTS mia, ann, bob, phone

ThePeople == {mia, ann, bob}
ThePhones == {phone}
TheFounders == {mia}

Open == [accounts |-> 3, outstanding |-> 2, collectionPaused |-> FALSE,
         grantsPaused |-> FALSE, referralsPaused |-> FALSE, redemptionPaused |-> FALSE]
Tight == [Open EXCEPT !.accounts = 2, !.outstanding = 1]
ThePolicies == {Open, Tight}

Symmetry == Permutations({ann, bob})

=============================================================================
