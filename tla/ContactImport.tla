--------------------------- MODULE ContactImport ---------------------------
(***************************************************************************)
(* An import of contacts run by the workers (contact-import-jobs.ts,       *)
(* contact-import-lease.ts, and commitContactImportBatch of                *)
(* contact-import-service.ts), over JobQueue: the job's execution is taken *)
(* apart here into the transactions it is made of, and the batch is kept   *)
(* beside the job.                                                         *)
(*                                                                         *)
(* Each transaction takes the workspace's import key and then the job's    *)
(* row, so it is one step.  Between two of them anything may happen: the   *)
(* worker may die or lose its job to another, the owner may cancel.  What  *)
(* a row writes to the contacts is one effect; that it is rejected, or     *)
(* that the database fails, may happen at any row.                         *)
(***************************************************************************)
EXTENDS JobQueue

CONSTANTS
  Rows,          \* rows of the file
  ImportJob,     \* the import's job
  ChunkSize      \* PROCESSING_BATCH_SIZE

ASSUME ContactImportAssumption ==
  /\ Jobs = {ImportJob} /\ Imports = {ImportJob} /\ Retryable = {ImportJob}
  /\ IsFiniteSet(Rows)
  /\ ChunkSize \in Nat \ {0}

VARIABLES
  batch,         \* the ContactImportBatch
  receipts,      \* rows with an IdempotencyKey
  applied,       \* history: how often each row was saved to the contacts
  progress       \* of each worker: the import's step it is at, and what it remembers

importVars == <<batch, receipts, applied, progress>>
allVars == <<queueVars, importVars>>

Result == {"none", "SAVED", "FAILED"}
Ended == {"COMPLETED", "PARTIAL", "CANCELED"}
BatchStatus == {"absent", "QUEUED", "RUNNING", "FAILED"} \union Ended

\* todo: rows of chunks still to come; chunk: rows of this chunk still to commit; got: its results.
NoProgress == [at |-> "begin", todo |-> {}, chunk |-> {}, got |-> [r \in Rows |-> "none"]]

ImportTypeOK ==
  /\ QueueTypeOK
  /\ batch \in [status : BatchStatus, results : [Rows -> Result]]
  /\ receipts \subseteq Rows
  /\ applied \in [Rows -> Nat]
  /\ progress \in [Workers -> [at : {"begin", "chunk", "row", "save", "finish"},
                               todo : SUBSET Rows, chunk : SUBSET Rows, got : [Rows -> Result]]]

ImportInit ==
  /\ QueueInit
  /\ batch = [status |-> "absent", results |-> [r \in Rows |-> "none"]]
  /\ receipts = {}
  /\ applied = [r \in Rows |-> 0]
  /\ progress = [w \in Workers |-> NoProgress]

Reported == {r \in Rows : batch.results[r] # "none"}

-----------------------------------------------------------------------------
(***************************************************************************)
(* The owner: queues the file, with the rows the review found invalid      *)
(* already rejected, and cancels.  Cancelling adds to the results every    *)
(* row whose receipt shows it saved.                                       *)
(***************************************************************************)

QueueImport ==
  /\ batch.status = "absent"
  /\ \E invalid \in SUBSET Rows :
       batch' = [status |-> "QUEUED",
                 results |-> [r \in Rows |-> IF r \in invalid THEN "FAILED" ELSE "none"]]
  /\ Enqueue(ImportJob)
  /\ UNCHANGED <<receipts, applied, progress>>

\* Results are added to those saved, never over them.
Merged(results) ==
  [r \in Rows |-> IF batch.results[r] = "none" THEN results[r] ELSE batch.results[r]]

\* Mutant of CancelImport: the rows saved since the last chunk are not reported.
CancelImportForgetting ==
  /\ batch.status \in {"QUEUED", "RUNNING"}
  /\ batch' = [batch EXCEPT !.status = "CANCELED"]
  /\ \/ CancelJob(ImportJob)
     \/ ~Open(ImportJob) /\ UNCHANGED queueVars
  /\ UNCHANGED <<receipts, applied, progress>>

CancelImport ==
  /\ batch.status \in {"QUEUED", "RUNNING"}
  /\ batch' = [status |-> "CANCELED",
               results |-> Merged([r \in Rows |-> IF r \in receipts THEN "SAVED" ELSE "none"])]
  /\ \/ CancelJob(ImportJob)
     \/ ~Open(ImportJob) /\ UNCHANGED queueVars
  /\ UNCHANGED <<receipts, applied, progress>>

-----------------------------------------------------------------------------
(***************************************************************************)
(* The worker.                                                             *)
(***************************************************************************)

\* lockImportJob: this claim holds the job and its lease still runs.
Owned(w) == Holds(w) /\ job[ImportJob].age <= Lease

Running(w) == Owned(w) /\ batch.status = "RUNNING"

At(w, step) == worker[w].pc = "run" /\ progress[w].at = step

\* The execution ends, and what it remembered goes with it.
ImportEnds(w, outcome) ==
  /\ Ends(w, outcome)
  /\ progress' = [progress EXCEPT ![w] = NoProgress]
  /\ UNCHANGED <<job, runs, troubles>>

Goes(w, next) ==
  /\ progress' = [progress EXCEPT ![w] = next]
  /\ UNCHANGED queueVars

\* An error of the database, or an account that is suspended, at any step.
StepFails(w) ==
  /\ worker[w].pc = "run"
  /\ progress[w].at # "chunk"
  /\ ImportEnds(w, "error")
  /\ UNCHANGED <<batch, receipts, applied>>

\* A step that finds its job or its batch no longer its own.
StepInterrupted(w) ==
  /\ worker[w].pc = "run"
  /\ \/ progress[w].at = "begin" /\ ~Owned(w)
     \/ progress[w].at \in {"row", "save", "finish"} /\ ~Running(w)
  /\ ImportEnds(w, "interrupted")
  /\ UNCHANGED <<batch, receipts, applied>>

\* The rows without a result are taken up again, those of earlier runs included.
BeginImport(w) ==
  /\ At(w, "begin") /\ Owned(w)
  /\ \/ /\ batch.status \in Ended
        /\ ImportEnds(w, "done")
        /\ UNCHANGED batch
     \/ /\ batch.status \notin Ended
        /\ batch' = [batch EXCEPT !.status = "RUNNING"]
        /\ Goes(w, [NoProgress EXCEPT !.at = "chunk", !.todo = Rows \ Reported])
  /\ UNCHANGED <<receipts, applied>>

NextChunk(w) ==
  /\ At(w, "chunk")
  /\ \/ /\ progress[w].todo = {}
        /\ Goes(w, [progress[w] EXCEPT !.at = "finish"])
     \/ /\ progress[w].todo # {} /\ ShouldStop(w)
        /\ ImportEnds(w, "interrupted")
     \/ /\ progress[w].todo # {} /\ ~ShouldStop(w)
        /\ \E chunk \in SUBSET progress[w].todo :
             /\ \/ Cardinality(chunk) = ChunkSize
                \/ Cardinality(chunk) < ChunkSize /\ chunk = progress[w].todo
             /\ Goes(w, [NoProgress EXCEPT !.at = "row", !.todo = progress[w].todo \ chunk, !.chunk = chunk])
  /\ UNCHANGED <<batch, receipts, applied>>

\* The person is created, or merged into one there is, with the receipt in the same transaction.
SaveRow(r) ==
  /\ applied' = [applied EXCEPT ![r] = @ + 1]
  /\ receipts' = receipts \union {r}

\* A row's result is that of its receipt if there is one; else the row is saved with a receipt,
\* or rejected without one.
CommitRow(w) ==
  /\ At(w, "row") /\ Running(w)
  /\ \E r \in progress[w].chunk, result \in {"SAVED", "FAILED"} :
       LET rest == progress[w].chunk \ {r}
       IN  /\ r \in receipts => result = "SAVED"
           /\ IF result = "SAVED" /\ r \notin receipts
              THEN SaveRow(r)
              ELSE UNCHANGED <<applied, receipts>>
           /\ Goes(w, [progress[w] EXCEPT !.chunk = rest, !.got[r] = result,
                         !.at = IF rest = {} THEN "save" ELSE "row"])
  /\ UNCHANGED batch

SaveChunk(w) ==
  /\ At(w, "save") /\ Running(w)
  /\ batch' = [batch EXCEPT !.results = Merged(progress[w].got)]
  /\ Goes(w, [progress[w] EXCEPT !.at = "chunk", !.got = NoProgress.got])
  /\ UNCHANGED <<receipts, applied>>

FinishImport(w) ==
  /\ At(w, "finish") /\ Running(w)
  /\ \/ /\ Reported = Rows
        /\ batch' = [batch EXCEPT !.status =
                       IF \E r \in Rows : batch.results[r] = "FAILED" THEN "PARTIAL" ELSE "COMPLETED"]
        /\ ImportEnds(w, "done")
     \/ /\ Reported # Rows
        /\ ImportEnds(w, "error")
        /\ UNCHANGED batch
  /\ UNCHANGED <<receipts, applied>>

-----------------------------------------------------------------------------
(***************************************************************************)
(* The queue's other steps, with what they do to the import.               *)
(***************************************************************************)

\* Mutants of RecordImportFailure: the import is not marked; the job is written without its lease.
RecordImportFailureOfJob(w) == RecordFailure(w) /\ UNCHANGED importVars
RecordImportFailureUnheld(w) ==
  /\ Erred(w)
  /\ job' = [job EXCEPT ![ImportJob].phase = "failed", ![ImportJob].by = None, ![ImportJob].age = 0]
  /\ batch' = [batch EXCEPT !.status = IF @ \in Ended THEN @ ELSE "FAILED"]
  /\ Released(w)
  /\ UNCHANGED <<runs, troubles, receipts, applied, progress>>

\* A failure that is final marks the import failed, in the same transaction, unless it ended.
RecordImportFailure(w) ==
  /\ RecordFailure(w)
  /\ IF Holds(w) /\ ShouldFail(w) /\ batch.status \in {"QUEUED", "RUNNING", "FAILED"}
     THEN batch' = [batch EXCEPT !.status = "FAILED"]
     ELSE UNCHANGED batch
  /\ UNCHANGED <<receipts, applied, progress>>

\* The staff may retry the job of an import that has not ended.
RetryImport ==
  /\ batch.status \in {"QUEUED", "RUNNING", "FAILED"}
  /\ RetryFailed(ImportJob)
  /\ UNCHANGED importVars

CrashImport(w) ==
  /\ Crash(w)
  /\ progress' = [progress EXCEPT ![w] = NoProgress]
  /\ UNCHANGED <<batch, receipts, applied>>

QueueStep(w) == (ReadCandidate(w) \/ Claim(w) \/ Complete(w) \/ ReleasePaused(w)) /\ UNCHANGED importVars

\* Mutant of ExpireReceipt: receipts go by their age alone.
ExpireAnyReceipt(r) ==
  /\ r \in receipts
  /\ receipts' = receipts \ {r}
  /\ UNCHANGED <<queueVars, batch, applied, progress>>

\* Maintenance deletes receipts a week old, but not those of an import that may run again.
ExpireReceipt(r) ==
  /\ r \in receipts
  /\ ~(batch.status \in {"QUEUED", "RUNNING", "FAILED"} /\ job[ImportJob].phase # "done")
  /\ receipts' = receipts \ {r}
  /\ UNCHANGED <<queueVars, batch, applied, progress>>

ImportWorkerStep(w) ==
  \/ QueueStep(w) \/ RecordImportFailure(w)
  \/ StepFails(w) \/ StepInterrupted(w)
  \/ BeginImport(w) \/ NextChunk(w) \/ CommitRow(w) \/ SaveChunk(w) \/ FinishImport(w)

ImportNext ==
  \/ \E w \in Workers : ImportWorkerStep(w) \/ CrashImport(w)
  \/ \E w \in Workers : (Renew(w) \/ Restart(w) \/ RenewFails(w) \/ RequestStop(w)) /\ UNCHANGED importVars
  \/ QueueImport \/ CancelImport \/ RetryImport
  \/ \E r \in Rows : ExpireReceipt(r)
  \/ Tick /\ UNCHANGED importVars

ImportSpec == ImportInit /\ [][ImportNext]_allVars

(***************************************************************************)
(* A live worker takes its next step, its timer runs, its host restarts it *)
(* and time passes.  Nobody has to cancel, retry or queue an import.       *)
(***************************************************************************)
FairImportSpec ==
  /\ ImportSpec
  /\ \A w \in Workers : /\ WF_allVars(ImportWorkerStep(w))
                        /\ WF_allVars(Renew(w) /\ UNCHANGED importVars)
                        /\ WF_allVars(Restart(w) /\ UNCHANGED importVars)
  /\ WF_allVars(Tick /\ UNCHANGED importVars)

-----------------------------------------------------------------------------
(***************************************************************************)
(* Properties.                                                             *)
(***************************************************************************)

\* No row is saved to the contacts twice: not by two workers that both believe they hold the job,
\* not by a retry after a crash between a row and the report of its chunk, not by a staff retry.
RowsApplyOnce == \A r \in Rows : applied[r] <= 1

\* The job and the batch agree on whether the import goes on: one that is queued or running has an
\* open job to run it, and one whose job is completed has ended.
JobAndBatchAgree ==
  /\ batch.status \in {"QUEUED", "RUNNING"} => Open(ImportJob)
  /\ job[ImportJob].phase = "done" => batch.status \in Ended

Promise == INSTANCE ImportPromise WITH
  status <- batch.status,
  applied <- {r \in Rows : applied[r] > 0},
  reported <- batch.results

\* The import keeps its promise to the owner: rows are saved only while it runs, each is reported
\* as what became of it, no row saved goes unreported when it ends, and what ended stays.
KeepsPromise == Promise!PromiseSpec

\* Taking the execution apart changes nothing for the queue.
RefinesQueue == QueueSpec

\* A queued or running import ends or fails for the staff to see; it is not forgotten half done.
EveryImportEnds == batch.status \in {"QUEUED", "RUNNING"} ~> batch.status \notin {"QUEUED", "RUNNING"}

=============================================================================
