--------------------------- MODULE ImportPromise ---------------------------
(***************************************************************************)
(* What an import of contacts promises its owner, whatever workers die or  *)
(* lose their leases underneath: a row is saved once, only while the       *)
(* import runs; what is reported of a row is what became of it; and an     *)
(* import that ended has reported every row that was saved.                *)
(***************************************************************************)
CONSTANT Rows     \* rows of the file

VARIABLES
  status,         \* ContactImportBatch.status, "absent" before the import
  applied,        \* rows whose contact was saved
  reported        \* ContactImportBatch.results

promiseVars == <<status, applied, reported>>

\* What may be reported of a row: that it is saved (or skipped, as asked), or was rejected.
Report == {"none", "SAVED", "FAILED"}

PromiseInit ==
  /\ status = "absent"
  /\ applied = {}
  /\ reported = [r \in Rows |-> "none"]

\* The rows the review found invalid come reported as rejected.
Queue ==
  /\ status = "absent"
  /\ status' = "QUEUED"
  /\ reported' \in [Rows -> {"none", "FAILED"}]
  /\ UNCHANGED applied

Start ==
  /\ status \in {"QUEUED", "FAILED"}
  /\ status' = "RUNNING"
  /\ UNCHANGED <<applied, reported>>

Apply(r) ==
  /\ status = "RUNNING"
  /\ r \notin applied /\ reported[r] = "none"
  /\ applied' = applied \union {r}
  /\ UNCHANGED <<status, reported>>

\* What became of some rows not reported yet.
TellOf(rows) ==
  reported' = [r \in Rows |-> IF r \in rows /\ reported[r] = "none"
                              THEN IF r \in applied THEN "SAVED" ELSE "FAILED"
                              ELSE reported[r]]

Progress ==
  /\ status = "RUNNING"
  /\ \E rows \in SUBSET Rows : TellOf(rows)
  /\ UNCHANGED <<status, applied>>

Finish ==
  /\ status = "RUNNING"
  /\ \A r \in Rows : reported[r] # "none"
  /\ status' = IF \E r \in Rows : reported[r] = "FAILED" THEN "PARTIAL" ELSE "COMPLETED"
  /\ UNCHANGED <<applied, reported>>

\* The owner's cancellation reports every row saved until then.
Cancel ==
  /\ status \in {"QUEUED", "RUNNING"}
  /\ status' = "CANCELED"
  /\ TellOf(applied)
  /\ UNCHANGED applied

\* The attempts are used up: the staff may have it started again.
Fail ==
  /\ status \in {"QUEUED", "RUNNING"}
  /\ status' = "FAILED"
  /\ UNCHANGED <<applied, reported>>

PromiseNext ==
  \/ Queue \/ Start \/ Progress \/ Finish \/ Cancel \/ Fail
  \/ \E r \in Rows : Apply(r)

PromiseSpec == PromiseInit /\ [][PromiseNext]_promiseVars

=============================================================================
