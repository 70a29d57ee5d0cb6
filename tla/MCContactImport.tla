-------------------------- MODULE MCContactImport --------------------------
(***************************************************************************)
(* The constants of the run of ContactImport: two processes, two rows in   *)
(* chunks of two.                                                          *)
(***************************************************************************)
EXTENDS ContactImport

CONSTANTS w1, w2, import, row1, row2

TheWorkers == {w1, w2}
TheJobs == {import}
TheRows == {row1, row2}

=============================================================================
