------------------------ MODULE ContactImportProofs ------------------------
(***************************************************************************)
(* What holds of an import for any workers, rows, chunks and attempts: it  *)
(* is a job of the queue like another, no row is saved twice, and it keeps *)
(* its promise to the owner.                                               *)
(***************************************************************************)
EXTENDS ContactImport, JobQueueProofs

(***************************************************************************)
(* The inductive invariant.  A row that was saved has a receipt unless the *)
(* import ended, so that the run that comes next finds it; and what a      *)
(* worker remembers of its chunk is true as long as the job is its own,    *)
(* since nobody else saves a row then.                                     *)
(***************************************************************************)
ImportTypes ==
  /\ batch \in [status : BatchStatus, results : [Rows -> Result]]
  /\ receipts \subseteq Rows
  /\ applied \in [Rows -> Nat]
  /\ progress \in [Workers -> [at : {"begin", "chunk", "row", "save", "finish"},
                               todo : SUBSET Rows, chunk : SUBSET Rows, got : [Rows -> Result]]]

ReceiptsTell ==
  \A r \in Rows : /\ applied[r] <= 1
                  /\ r \in receipts => applied[r] = 1
                  /\ applied[r] = 1 /\ r \notin receipts => batch.status \in Ended

JobFollowsBatch ==
  /\ batch.status = "absent" => job[ImportJob].phase = "absent" /\ \A r \in Rows : applied[r] = 0
  /\ batch.status \in {"QUEUED", "RUNNING"} => Open(ImportJob)
  /\ job[ImportJob].phase = "done" => batch.status \in Ended
  /\ \A w \in Workers : worker[w].pc = "done" => batch.status \in Ended

FreshProgress ==
  \A w \in Workers : worker[w].pc # "run" \/ progress[w].at = "begin" => progress[w] = NoProgress

TrueIn(p, results, times) ==
  /\ \A r \in Rows : /\ r \in p.todo \union p.chunk \/ p.got[r] # "none" => results[r] = "none"
                     /\ p.got[r] = "SAVED" => times[r] = 1
                     /\ p.got[r] = "FAILED" => times[r] = 0
                     /\ r \in p.todo => r \notin p.chunk /\ p.got[r] = "none"
  /\ p.at \in {"chunk", "save"} => p.chunk = {}

Remembers ==
  \A w \in Workers : worker[w].pc = "run" /\ Holds(w) /\ batch.status = "RUNNING"
                      => TrueIn(progress[w], batch.results, applied)

ImportInv ==
  QueueInv /\ ImportTypes /\ ReceiptsTell /\ JobFollowsBatch /\ FreshProgress /\ Remembers

LEMMA NoProgressIsTrue == ASSUME NEW results, NEW times PROVE TrueIn(NoProgress, results, times)
BY DEF TrueIn, NoProgress

LEMMA NoProgressType ==
  NoProgress \in [at : {"begin", "chunk", "row", "save", "finish"},
                  todo : SUBSET Rows, chunk : SUBSET Rows, got : [Rows -> Result]]
BY DEF NoProgress, Result

LEMMA InitialImport == ImportInit => ImportInv
<1> SUFFICES ASSUME ImportInit PROVE ImportInv
  OBVIOUS
<1>1. QueueInv
  BY InitialQueue DEF ImportInit
<1>2. ImportTypes
  BY NoProgressType DEF ImportInit, ImportTypes, BatchStatus, Result
<1>3. ReceiptsTell /\ FreshProgress
  BY DEF ImportInit, ReceiptsTell, FreshProgress
<1>4. JobFollowsBatch /\ Remembers
  BY ContactImportAssumption DEF ImportInit, QueueInit, Idle, JobFollowsBatch, Remembers
<1> QED
  BY <1>1, <1>2, <1>3, <1>4 DEF ImportInv

-----------------------------------------------------------------------------
\* A process that is not idle has the import's job in hand.
LEMMA InHand ==
    ASSUME QueueInv, NEW w \in Workers, worker[w].pc # "idle"
    PROVE  worker[w].job = ImportJob
BY ContactImportAssumption DEF QueueInv, GoodProcess

\* The end of a part of the execution is the end of the execution for the queue.
LEMMA EndIsExecute ==
    ASSUME QueueInv, NEW w \in Workers, worker[w].pc = "run",
           NEW outcome \in {"done", "error", "interrupted"}, ImportEnds(w, outcome)
    PROVE  Execute(w)
<1>1. worker[w].job \in Imports
  BY InHand, ContactImportAssumption
<1>2. outcome \in Outcomes(w)
  BY <1>1 DEF Outcomes
<1> QED
  BY <1>2 DEF ImportEnds, Execute

\* Every step of the import is a step of the queue, or leaves the queue alone.
LEMMA ImportStepIsQueueStep ==
    ASSUME QueueInv, [ImportNext]_allVars
    PROVE  [QueueNext]_queueVars
<1>1. ASSUME NEW w \in Workers, ImportWorkerStep(w) PROVE WorkerStep(w) \/ UNCHANGED queueVars
  <2>1. CASE QueueStep(w) \/ RecordImportFailure(w)
    BY <2>1 DEF QueueStep, RecordImportFailure, WorkerStep
  <2>2. CASE StepFails(w) \/ StepInterrupted(w)
    BY <2>2, EndIsExecute DEF StepFails, StepInterrupted, WorkerStep
  <2>3. CASE BeginImport(w)
    BY <2>3, EndIsExecute DEF BeginImport, At, Goes, WorkerStep
  <2>4. CASE NextChunk(w)
    BY <2>4, EndIsExecute DEF NextChunk, At, Goes, WorkerStep
  <2>5. CASE CommitRow(w) \/ SaveChunk(w)
    BY <2>5 DEF CommitRow, SaveRow, SaveChunk, Goes
  <2>6. CASE FinishImport(w)
    BY <2>6, EndIsExecute DEF FinishImport, At, WorkerStep
  <2> QED
    BY <1>1, <2>1, <2>2, <2>3, <2>4, <2>5, <2>6 DEF ImportWorkerStep
<1>2. ASSUME NEW w \in Workers, CrashImport(w) PROVE QueueNext
  BY <1>2 DEF CrashImport, QueueNext, Disturbance
<1>3. ASSUME NEW w \in Workers, Renew(w) \/ Restart(w) \/ RenewFails(w) \/ RequestStop(w) PROVE QueueNext
  BY <1>3 DEF QueueNext, Disturbance
<1>4. CASE QueueImport \/ CancelImport \/ RetryImport
  BY <1>4, ContactImportAssumption
  DEF QueueImport, CancelImport, RetryImport, QueueNext, Disturbance
<1>5. ASSUME NEW r \in Rows, ExpireReceipt(r) PROVE UNCHANGED queueVars
  BY <1>5 DEF ExpireReceipt
<1>6. CASE Tick
  BY <1>6 DEF QueueNext
<1>7. CASE UNCHANGED allVars
  BY <1>7 DEF allVars
<1>8. ASSUME NEW w \in Workers, WorkerStep(w) PROVE QueueNext
  BY <1>8 DEF QueueNext
<1> QED
  BY <1>1, <1>2, <1>3, <1>4, <1>5, <1>6, <1>7, <1>8 DEF ImportNext

\* An import is a job like another: what is proved of the queue holds of it.
THEOREM ImportRefinesQueue == ImportSpec => RefinesQueue
<1>1. ImportInit => QueueInit
  BY DEF ImportInit
<1>2. QueueInv /\ [ImportNext]_allVars => [QueueNext]_queueVars
  BY ImportStepIsQueueStep
<1>3. QueueInv /\ [QueueNext]_queueVars => QueueInv'
  BY QueueStepKeeps
<1> QED
  BY <1>1, <1>2, <1>3, InitialQueue, PTL DEF ImportSpec, RefinesQueue, QueueSpec

-----------------------------------------------------------------------------
(***************************************************************************)
(* What each step of the queue does to the import's job and its workers.   *)
(***************************************************************************)

\* Only a claim begins an execution, and none of these steps gives a worker a job it did not hold.
RunsAsBefore ==
  \A w \in Workers :
    worker'[w].pc = "run" =>
      \/ worker[w].pc = "claim"
      \/ worker[w].pc = "run" /\ (Holds(w)' => Holds(w))

\* None of them ends an execution, as done or otherwise.
DoneAsBefore ==
  \A w \in Workers : /\ worker'[w].pc = "done" => worker[w].pc = "done"
                     /\ worker[w].pc = "run" => worker'[w].pc = "run"

LEMMA WorkerStepEffect ==
    ASSUME QueueInv, NEW w \in Workers,
           ReadCandidate(w) \/ Claim(w) \/ Complete(w) \/ RecordFailure(w) \/ ReleasePaused(w)
    PROVE  RunsAsBefore /\ DoneAsBefore
<1>0. /\ job \in [Jobs -> Row] /\ worker \in [Workers -> Process]
      /\ \A v \in Workers : v # None /\ worker[v].pc \in
           {"idle", "claim", "run", "done", "error", "permanent", "interrupted"}
  BY JobQueueAssumption DEF QueueInv, Process
<1>1. CASE ReadCandidate(w)
  <2>1. PICK j \in Jobs :
          worker' = [worker EXCEPT ![w].pc = "claim", ![w].job = j, ![w].attempts = job[j].attempts]
    BY <1>1 DEF ReadCandidate
  <2> DEFINE p == [worker[w] EXCEPT !.pc = "claim", !.job = j, !.attempts = job[j].attempts]
  <2>2. worker' = [worker EXCEPT ![w] = p] /\ p.pc = "claim"
    BY <1>0, <2>1 DEF Process
  <2> HIDE DEF p
  <2>3. worker'[w].pc = "claim" /\ job' = job /\ \A v \in Workers \ {w} : worker'[v] = worker[v]
    BY <1>0, <1>1, <2>2 DEF ReadCandidate
  <2>4. worker[w].pc = "idle"
    BY <1>1 DEF ReadCandidate
  <2> QED
    BY <2>3, <2>4 DEF RunsAsBefore, DoneAsBefore, Holds, Open
<1>2. CASE Claim(w)
  <2>1. worker[w].pc = "claim" /\ worker'[w].pc # "done" /\ \A v \in Workers \ {w} : worker'[v] = worker[v]
    <3>1. CASE Released(w)
      BY <1>0, <1>2, <3>1 DEF Claim, Released, Idle
    <3>2. CASE ~Released(w)
      <4>1. PICK pc \in {"permanent", "run"}, n \in {worker[w].attempts, worker[w].attempts + 1} :
              worker' = [worker EXCEPT ![w].pc = pc, ![w].attempts = n, ![w].since = 0]
        BY <1>2, <3>2 DEF Claim
      <4> DEFINE p == [worker[w] EXCEPT !.pc = pc, !.attempts = n, !.since = 0]
      <4>2. worker' = [worker EXCEPT ![w] = p] /\ p.pc = pc
        BY <1>0, <4>1 DEF Process
      <4> HIDE DEF p
      <4> QED
        BY <1>0, <1>2, <4>2 DEF Claim
    <3> QED
      BY <3>1, <3>2
  <2>2. ASSUME NEW v \in Workers \ {w}, worker[v].pc = "run", Holds(v)' PROVE Holds(v)
    <3>1. worker[v].job = ImportJob /\ worker[w].job = ImportJob /\ ImportJob \in Jobs
      BY <2>1, <2>2, InHand, ContactImportAssumption
    <3>2. job'[ImportJob].by = v /\ job'[ImportJob].phase = "open"
      BY <2>1, <2>2, <3>1 DEF Holds, Open
    <3>3. CASE job' = job
      BY <2>1, <2>2, <3>3 DEF Holds, Open
    <3>4. CASE job' # job
      <4>1. PICK n : job' = [job EXCEPT ![ImportJob].by = w, ![ImportJob].age = worker[w].since,
                                        ![ImportJob].attempts = n]
        BY <1>2, <3>1, <3>4 DEF Claim
      <4>3. job' = [job EXCEPT ![ImportJob] =
               [job[ImportJob] EXCEPT !.by = w, !.age = worker[w].since, !.attempts = n]]
        BY <1>0, <4>1
      <4>2. job'[ImportJob].by = w
        BY <1>0, <3>1, <4>3 DEF Row
      <4> QED
        BY <3>2, <4>2
    <3> QED
      BY <3>3, <3>4
  <2> QED
    BY <2>1, <2>2 DEF RunsAsBefore, DoneAsBefore
<1>3. CASE Complete(w) \/ RecordFailure(w) \/ ReleasePaused(w)
  <2>1. worker[w].pc # "run" /\ worker[w].pc # "idle" /\ \A v \in Workers \ {w} : worker'[v] = worker[v]
    BY <1>0, <1>3 DEF Complete, RecordFailure, Erred, ReleasePaused, Paused, Released, Ends
  <2>2. worker'[w].pc \in {"idle", "error"}
    <3>1. Released(w) \/ Ends(w, "error")
      BY <1>3 DEF Complete, RecordFailure, ReleasePaused
    <3> QED
      BY <1>0, <3>1 DEF Released, Ends, Idle, Process
  <2>3. worker[w].job = ImportJob /\ ImportJob \in Jobs
    BY <2>1, InHand, ContactImportAssumption
  <2>4. job' = job \/ job'[ImportJob].by = None
    <3>1. CASE Complete(w)
      BY <1>0, <2>3, <3>1 DEF Complete, Completed, Row
    <3>2. CASE RecordFailure(w)
      BY <1>0, <2>3, <3>2 DEF RecordFailure, Row
    <3>3. CASE ReleasePaused(w)
      BY <1>0, <2>3, <3>3 DEF ReleasePaused, Row
    <3> QED
      BY <1>3, <3>1, <3>2, <3>3
  <2>5. ASSUME NEW v \in Workers \ {w}, worker[v].pc = "run", Holds(v)' PROVE Holds(v)
    <3>1. worker[v].job = ImportJob /\ worker'[v] = worker[v] /\ v # None
      BY <1>0, <2>1, <2>5, InHand
    <3> QED
      BY <2>4, <2>5, <3>1 DEF Holds, Open
  <2> QED
    BY <2>1, <2>2, <2>5 DEF RunsAsBefore, DoneAsBefore
<1> QED
  BY <1>1, <1>2, <1>3

LEMMA ProcessStepEffect ==
    ASSUME QueueInv, NEW w \in Workers, Renew(w) \/ Restart(w) \/ RenewFails(w) \/ RequestStop(w)
    PROVE  /\ RunsAsBefore /\ DoneAsBefore
           /\ job'[ImportJob].phase = job[ImportJob].phase
<1>0. /\ job \in [Jobs -> Row] /\ worker \in [Workers -> Process] /\ ImportJob \in Jobs
  BY ContactImportAssumption DEF QueueInv
<1>1. CASE Renew(w)
  <2>1. /\ \A v \in Workers : worker'[v].pc = worker[v].pc /\ worker'[v].job = worker[v].job
        /\ \A j \in Jobs : job'[j].phase = job[j].phase /\ job'[j].by = job[j].by
    <3>1. CASE job' = [job EXCEPT ![worker[w].job].age = 0] /\ worker' = worker
      BY <1>0, <3>1 DEF Row
    <3>2. CASE worker' = [worker EXCEPT ![w].lost = TRUE] /\ job' = job
      BY <1>0, <3>2 DEF Process
    <3> QED
      BY <1>1, <3>1, <3>2 DEF Renew
  <2>2. ASSUME NEW v \in Workers, worker[v].pc = "run", Holds(v)' PROVE Holds(v)
    BY <1>0, <2>1, <2>2, InHand DEF Holds, Open
  <2> QED
    BY <1>0, <2>1, <2>2 DEF RunsAsBefore, DoneAsBefore
<1>2. CASE Restart(w) \/ RenewFails(w) \/ RequestStop(w)
  <2>1. /\ job' = job
        /\ \A v \in Workers : \/ worker[v].pc = "idle" /\ worker'[v].pc = "idle"
                              \/ worker'[v].pc = worker[v].pc /\ worker'[v].job = worker[v].job
    BY <1>0, <1>2 DEF Restart, RenewFails, RequestStop, Idle, Process
  <2> QED
    BY <2>1 DEF RunsAsBefore, DoneAsBefore, Holds, Open
<1> QED
  BY <1>1, <1>2

LEMMA TickEffect ==
    ASSUME QueueInv, Tick
    PROVE  /\ RunsAsBefore /\ DoneAsBefore
           /\ job'[ImportJob].phase = job[ImportJob].phase
<1>0. /\ job \in [Jobs -> Row] /\ worker \in [Workers -> Process] /\ ImportJob \in Jobs
  BY ContactImportAssumption DEF QueueInv
<1>1. \A v \in Workers : worker'[v].pc = worker[v].pc /\ worker'[v].job = worker[v].job
  BY <1>0 DEF Tick, Process
<1>2. \A j \in Jobs : job'[j].phase = job[j].phase /\ job'[j].by = job[j].by
  BY <1>0 DEF Tick, Row
<1>3. ASSUME NEW v \in Workers, worker[v].pc = "run", Holds(v)' PROVE Holds(v)
  BY <1>0, <1>1, <1>2, <1>3, InHand DEF Holds, Open
<1> QED
  BY <1>0, <1>1, <1>2, <1>3 DEF RunsAsBefore, DoneAsBefore

\* A step of the queue that leaves the import alone leaves what workers know of it true.
LEMMA MemoryKept ==
    ASSUME ImportInv, RunsAsBefore, UNCHANGED <<applied, progress>>,
           batch' = batch \/ batch'.status # "RUNNING"
    PROVE  Remembers'
<1> SUFFICES ASSUME NEW w \in Workers, worker'[w].pc = "run", Holds(w)', batch'.status = "RUNNING"
             PROVE  TrueIn(progress[w], batch'.results, applied)
  BY DEF Remembers
<1>1. CASE worker[w].pc = "claim"
  BY <1>1, NoProgressIsTrue DEF ImportInv, FreshProgress
<1>2. CASE worker[w].pc = "run" /\ Holds(w)
  BY <1>2 DEF ImportInv, Remembers
<1> QED
  BY <1>1, <1>2 DEF RunsAsBefore

LEMMA FreshKept ==
    ASSUME ImportInv, DoneAsBefore, UNCHANGED progress
    PROVE  FreshProgress'
<1> SUFFICES ASSUME NEW w \in Workers, worker'[w].pc # "run" \/ progress[w].at = "begin"
             PROVE  progress[w] = NoProgress
  BY DEF FreshProgress
<1> QED
  BY DEF ImportInv, FreshProgress, DoneAsBefore

-----------------------------------------------------------------------------
(***************************************************************************)
(* The queue's steps keep what is known of the import.                     *)
(***************************************************************************)
ImportSide == ImportTypes /\ ReceiptsTell /\ JobFollowsBatch /\ FreshProgress /\ Remembers

\* One that leaves the import alone, and the job open or not as it was.
LEMMA QuietStepKeeps ==
    ASSUME ImportInv, RunsAsBefore, DoneAsBefore, UNCHANGED importVars,
           job'[ImportJob].phase = job[ImportJob].phase
    PROVE  ImportSide'
<1>1. ImportTypes' /\ ReceiptsTell'
  BY DEF ImportInv, ImportTypes, ReceiptsTell, importVars
<1>2. JobFollowsBatch'
  BY DEF ImportInv, JobFollowsBatch, Open, DoneAsBefore, importVars
<1>3. FreshProgress' /\ Remembers'
  BY FreshKept, MemoryKept DEF importVars
<1> QED
  BY <1>1, <1>2, <1>3 DEF ImportSide

LEMMA QueueStepKeepsImport == ASSUME ImportInv, NEW w \in Workers, QueueStep(w) PROVE ImportSide'
<1>0. QueueInv /\ RunsAsBefore /\ DoneAsBefore
  BY WorkerStepEffect DEF ImportInv, QueueStep
<1>1. job \in [Jobs -> Row] /\ ImportJob \in Jobs
  BY ContactImportAssumption DEF ImportInv, QueueInv
<1>2. CASE job'[ImportJob].phase = job[ImportJob].phase
  BY <1>0, <1>2, QuietStepKeeps DEF QueueStep
<1>3. CASE job'[ImportJob].phase # job[ImportJob].phase
  <2>1. ~ReadCandidate(w) /\ ~Claim(w) /\ ~ReleasePaused(w)
    <3>1. ~ReadCandidate(w)
      BY <1>3 DEF ReadCandidate
    <3>2. ~Claim(w)
      <4>1. ASSUME Claim(w), job' # job PROVE FALSE
        <5>1. worker[w].job = ImportJob
          BY <1>0, <4>1, InHand DEF Claim
        <5>2. PICK n : job' = [job EXCEPT ![ImportJob].by = w, ![ImportJob].age = worker[w].since,
                                          ![ImportJob].attempts = n]
          BY <4>1, <5>1 DEF Claim
        <5>3. job' = [job EXCEPT ![ImportJob] =
                [job[ImportJob] EXCEPT !.by = w, !.age = worker[w].since, !.attempts = n]]
          BY <1>1, <5>2
        <5> QED
          BY <1>1, <1>3, <5>3 DEF Row
      <4> QED
        BY <1>3, <4>1
    <3>3. ~ReleasePaused(w)
      <4>1. ASSUME ReleasePaused(w), job' # job PROVE FALSE
        <5>1. worker[w].job = ImportJob
          BY <1>0, <4>1, InHand DEF ReleasePaused, Paused
        <5>2. PICK n : job' = [job EXCEPT ![ImportJob].by = None, ![ImportJob].age = 0,
                                          ![ImportJob].wait = 0, ![ImportJob].attempts = n]
          BY <4>1, <5>1 DEF ReleasePaused
        <5>3. job' = [job EXCEPT ![ImportJob] =
                [job[ImportJob] EXCEPT !.by = None, !.age = 0, !.wait = 0, !.attempts = n]]
          BY <1>1, <5>2
        <5> QED
          BY <1>1, <1>3, <5>3 DEF Row
      <4> QED
        BY <1>3, <4>1
    <3> QED
      BY <3>1, <3>2, <3>3
  <2>2. Complete(w) /\ worker[w].pc = "done"
    BY <2>1 DEF QueueStep, Complete
  <2>3. job'[ImportJob].phase = "done"
    BY <1>1, <1>3, <2>2, InHand, <1>0 DEF Complete, Completed, Row
  <2>4. batch.status \in Ended
    BY <2>2 DEF ImportInv, JobFollowsBatch
  <2>5. JobFollowsBatch'
    BY <1>0, <2>3, <2>4 DEF ImportInv, JobFollowsBatch, DoneAsBefore, QueueStep, importVars, Ended
  <2>6. ImportTypes' /\ ReceiptsTell'
    BY DEF ImportInv, ImportTypes, ReceiptsTell, QueueStep, importVars
  <2>7. FreshProgress' /\ Remembers'
    BY <1>0, FreshKept, MemoryKept DEF QueueStep, importVars
  <2> QED
    BY <2>5, <2>6, <2>7 DEF ImportSide
<1> QED
  BY <1>2, <1>3

LEMMA RecordImportFailureKeeps == ASSUME ImportInv, NEW w \in Workers, RecordImportFailure(w) PROVE ImportSide'
<1>0. QueueInv /\ RunsAsBefore /\ DoneAsBefore
  BY WorkerStepEffect DEF ImportInv, RecordImportFailure
<1>1. job \in [Jobs -> Row] /\ ImportJob \in Jobs /\ worker[w].job = ImportJob
  BY <1>0, InHand, ContactImportAssumption DEF QueueInv, RecordImportFailure, RecordFailure, Erred
<1>2. UNCHANGED <<receipts, applied, progress>>
  BY DEF RecordImportFailure
<1>3. CASE Holds(w) /\ ShouldFail(w)
  <2>1. job'[ImportJob].phase = "failed"
    BY <1>1, <1>3 DEF RecordImportFailure, RecordFailure, Row
  <2>2. batch.status # "absent"
    BY <1>1, <1>3 DEF ImportInv, JobFollowsBatch, Holds, Open
  <2>3. CASE batch.status \in {"QUEUED", "RUNNING", "FAILED"}
    <3>1. batch' = [batch EXCEPT !.status = "FAILED"]
      BY <1>3, <2>3 DEF RecordImportFailure
    <3>2. batch'.status = "FAILED" /\ batch' \in [status : BatchStatus, results : [Rows -> Result]]
      BY <3>1 DEF ImportInv, ImportTypes, BatchStatus
    <3>3. ImportTypes' /\ ReceiptsTell'
      BY <1>2, <2>3, <3>2 DEF ImportInv, ImportTypes, ReceiptsTell, Ended
    <3>4. JobFollowsBatch'
      BY <1>0, <2>1, <2>3, <3>2 DEF ImportInv, JobFollowsBatch, DoneAsBefore, Ended
    <3>5. FreshProgress' /\ Remembers'
      BY <1>0, <1>2, <3>2, FreshKept, MemoryKept
    <3> QED
      BY <3>3, <3>4, <3>5 DEF ImportSide
  <2>4. CASE batch.status \in Ended
    <3>1. batch' = batch
      BY <2>4 DEF RecordImportFailure, Ended
    <3>2. ImportTypes' /\ ReceiptsTell'
      BY <1>2, <3>1 DEF ImportInv, ImportTypes, ReceiptsTell
    <3>3. JobFollowsBatch'
      BY <2>1, <2>4, <3>1 DEF JobFollowsBatch, Ended
    <3>4. FreshProgress' /\ Remembers'
      BY <1>0, <1>2, <3>1, FreshKept, MemoryKept
    <3> QED
      BY <3>2, <3>3, <3>4 DEF ImportSide
  <2> QED
    BY <2>2, <2>3, <2>4 DEF ImportInv, ImportTypes, BatchStatus
<1>4. CASE ~(Holds(w) /\ ShouldFail(w))
  <2>1. job'[ImportJob].phase = job[ImportJob].phase
    BY <1>1, <1>4 DEF RecordImportFailure, RecordFailure, Row
  <2>2. UNCHANGED importVars
    BY <1>2, <1>4 DEF RecordImportFailure, importVars
  <2> QED
    BY <1>0, <2>1, <2>2, QuietStepKeeps
<1> QED
  BY <1>3, <1>4

LEMMA ProcessStepKeepsImport ==
    ASSUME ImportInv, NEW w \in Workers, Renew(w) \/ Restart(w) \/ RenewFails(w) \/ RequestStop(w),
           UNCHANGED importVars
    PROVE  ImportSide'
BY ProcessStepEffect, QuietStepKeeps DEF ImportInv

LEMMA TickKeepsImport == ASSUME ImportInv, Tick, UNCHANGED importVars PROVE ImportSide'
BY TickEffect, QuietStepKeeps DEF ImportInv

LEMMA RetryImportKeeps == ASSUME ImportInv, RetryImport PROVE ImportSide'
<1>1. /\ job \in [Jobs -> Row] /\ ImportJob \in Jobs /\ worker' = worker
      /\ job[ImportJob].phase = "failed" /\ job'[ImportJob].phase = "open"
  BY ContactImportAssumption DEF ImportInv, QueueInv, RetryImport, RetryFailed, Row
<1>2. job'[ImportJob].by = None
  BY <1>1 DEF ImportInv, QueueInv, GoodRow, RetryImport, RetryFailed, Row
<1>3. RunsAsBefore /\ DoneAsBefore
  <2>1. ASSUME NEW v \in Workers, worker[v].pc = "run" PROVE ~Holds(v)'
    BY <1>1, <1>2, <2>1, InHand, JobQueueAssumption DEF ImportInv, Holds
  <2> QED
    BY <1>1, <2>1 DEF RunsAsBefore, DoneAsBefore
<1>4. ImportTypes' /\ ReceiptsTell'
  BY DEF ImportInv, ImportTypes, ReceiptsTell, RetryImport, importVars
<1>5. JobFollowsBatch'
  BY <1>1 DEF ImportInv, JobFollowsBatch, Open, RetryImport, importVars
<1>6. FreshProgress' /\ Remembers'
  BY <1>3, FreshKept, MemoryKept DEF RetryImport, importVars
<1> QED
  BY <1>4, <1>5, <1>6 DEF ImportSide

-----------------------------------------------------------------------------
(***************************************************************************)
(* The import's own steps keep what is known of it.                        *)
(***************************************************************************)

\* A step by which one worker's progress changes keeps true what the others remember, if no row is
\* saved or reported, or if the job is that worker's own, and then not another's.
LEMMA OthersRemember ==
    ASSUME ImportInv, NEW w \in Workers, NEW p,
           progress' = [progress EXCEPT ![w] = p], job' = job,
           \A v \in Workers \ {w} : worker'[v] = worker[v],
           \/ /\ applied' = applied /\ batch'.results = batch.results
              /\ batch'.status = "RUNNING" => batch.status = "RUNNING"
           \/ worker[w].pc = "run" /\ Holds(w),
           worker'[w].pc # "run" \/ TrueIn(p, batch'.results, applied')
    PROVE  Remembers'
<1> SUFFICES ASSUME NEW v \in Workers, worker'[v].pc = "run", Holds(v)', batch'.status = "RUNNING"
             PROVE  TrueIn(progress'[v], batch'.results, applied')
  BY DEF Remembers
<1>1. CASE v = w
  BY <1>1 DEF ImportInv, ImportTypes
<1>2. CASE v # w
  <2>1. worker'[v] = worker[v] /\ progress'[v] = progress[v] /\ Holds(v)
    BY <1>2 DEF ImportInv, ImportTypes, Holds, Open
  <2>2. ~(worker[w].pc = "run" /\ Holds(w))
    BY <1>2, <2>1, InHand DEF ImportInv, Holds
  <2> QED
    BY <2>1, <2>2 DEF ImportInv, Remembers
<1> QED
  BY <1>1, <1>2

\* The parts of the invariant when one worker's progress changes and its execution goes on.
LEMMA GoesKeeps ==
    ASSUME ImportInv, NEW w \in Workers, worker[w].pc = "run", NEW p,
           p \in [at : {"chunk", "row", "save", "finish"},
                  todo : SUBSET Rows, chunk : SUBSET Rows, got : [Rows -> Result]],
           Goes(w, p)
    PROVE  /\ progress' \in [Workers -> [at : {"begin", "chunk", "row", "save", "finish"},
                               todo : SUBSET Rows, chunk : SUBSET Rows, got : [Rows -> Result]]]
           /\ FreshProgress'
           /\ job' = job /\ worker' = worker /\ progress' = [progress EXCEPT ![w] = p]
<1>1. job' = job /\ worker' = worker /\ progress' = [progress EXCEPT ![w] = p]
  BY DEF Goes, queueVars
<1> QED
  BY <1>1 DEF ImportInv, ImportTypes, FreshProgress

\* The same when its execution ends.
LEMMA EndKeeps ==
    ASSUME ImportInv, NEW w \in Workers, worker[w].pc = "run",
           NEW outcome \in {"done", "error", "interrupted"}, ImportEnds(w, outcome)
    PROVE  /\ progress' \in [Workers -> [at : {"begin", "chunk", "row", "save", "finish"},
                               todo : SUBSET Rows, chunk : SUBSET Rows, got : [Rows -> Result]]]
           /\ FreshProgress'
           /\ job' = job /\ progress' = [progress EXCEPT ![w] = NoProgress]
           /\ worker'[w].pc = outcome /\ \A v \in Workers \ {w} : worker'[v] = worker[v]
<1>1. job' = job /\ progress' = [progress EXCEPT ![w] = NoProgress]
  BY DEF ImportEnds
<1>2. worker'[w].pc = outcome /\ \A v \in Workers \ {w} : worker'[v] = worker[v]
  BY DEF ImportEnds, Ends, ImportInv, QueueInv, Process
<1>3. FreshProgress'
  BY <1>1, <1>2 DEF ImportInv, ImportTypes, FreshProgress
<1> QED
  BY <1>1, <1>2, <1>3, NoProgressType DEF ImportInv, ImportTypes

\* An execution that ends without a result, or as done when the import ended.
LEMMA PlainEndKeeps ==
    ASSUME ImportInv, NEW w \in Workers, worker[w].pc = "run",
           NEW outcome \in {"done", "error", "interrupted"}, ImportEnds(w, outcome),
           UNCHANGED <<batch, receipts, applied>>, outcome = "done" => batch.status \in Ended
    PROVE  ImportSide'
<1>1. JobFollowsBatch'
  BY EndKeeps DEF ImportInv, JobFollowsBatch, Open
<1>2. Remembers'
  BY EndKeeps, OthersRemember
<1>3. ImportTypes' /\ ReceiptsTell' /\ FreshProgress'
  BY EndKeeps DEF ImportInv, ImportTypes, ReceiptsTell
<1> QED
  BY <1>1, <1>2, <1>3 DEF ImportSide

LEMMA BeginImportKeeps == ASSUME ImportInv, NEW w \in Workers, BeginImport(w) PROVE ImportSide'
<1>1. worker[w].pc = "run" /\ Holds(w) /\ Open(ImportJob)
  BY InHand DEF BeginImport, At, Owned, Holds, ImportInv
<1>2. CASE batch.status \in Ended
  BY <1>1, <1>2, PlainEndKeeps DEF BeginImport
<1>3. CASE batch.status \notin Ended
  <2> DEFINE p == [NoProgress EXCEPT !.at = "chunk", !.todo = Rows \ Reported]
  <2>1. /\ p \in [at : {"chunk", "row", "save", "finish"},
                  todo : SUBSET Rows, chunk : SUBSET Rows, got : [Rows -> Result]]
        /\ p.todo = Rows \ Reported /\ p.chunk = {} /\ p.got = [r \in Rows |-> "none"]
    BY DEF NoProgress, Result
  <2>2. batch' = [batch EXCEPT !.status = "RUNNING"] /\ Goes(w, p) /\ UNCHANGED <<receipts, applied>>
    BY <1>3 DEF BeginImport
  <2>3. TrueIn(p, batch.results, applied)
    BY <2>1 DEF TrueIn, Reported
  <2> HIDE DEF p
  <2>4. /\ batch'.status = "RUNNING" /\ batch'.results = batch.results
        /\ batch' \in [status : BatchStatus, results : [Rows -> Result]]
    BY <2>2 DEF ImportInv, ImportTypes, BatchStatus
  <2>5. ImportTypes' /\ FreshProgress'
    BY <1>1, <2>1, <2>2, <2>4, GoesKeeps DEF ImportInv, ImportTypes
  <2>6. ReceiptsTell'
    BY <1>3, <2>2 DEF ImportInv, ReceiptsTell
  <2>7. JobFollowsBatch'
    BY <1>1, <1>3, <2>1, <2>2, <2>4, GoesKeeps DEF ImportInv, JobFollowsBatch, Open
  <2>8. Remembers'
    BY <1>1, <2>1, <2>2, <2>3, <2>4, GoesKeeps, OthersRemember
  <2> QED
    BY <2>5, <2>6, <2>7, <2>8 DEF ImportSide
<1> QED
  BY <1>2, <1>3

\* A step within the execution that only moves rows about in the worker's memory.
LEMMA MemoryStepKeeps ==
    ASSUME ImportInv, NEW w \in Workers, worker[w].pc = "run", NEW p,
           p \in [at : {"chunk", "row", "save", "finish"},
                  todo : SUBSET Rows, chunk : SUBSET Rows, got : [Rows -> Result]],
           Goes(w, p), UNCHANGED <<batch, receipts, applied>>,
           TrueIn(progress[w], batch.results, applied) => TrueIn(p, batch.results, applied)
    PROVE  ImportSide'
<1>1. ImportTypes' /\ ReceiptsTell' /\ FreshProgress'
  BY GoesKeeps DEF ImportInv, ImportTypes, ReceiptsTell
<1>2. JobFollowsBatch'
  BY GoesKeeps DEF ImportInv, JobFollowsBatch, Open
<1>3. Remembers'
  <2> SUFFICES ASSUME NEW v \in Workers, worker'[v].pc = "run", Holds(v)', batch'.status = "RUNNING"
               PROVE  TrueIn(progress'[v], batch'.results, applied')
    BY DEF Remembers
  <2>1. worker[v].pc = "run" /\ Holds(v) /\ batch.status = "RUNNING" /\ UNCHANGED <<batch, applied>>
    BY GoesKeeps DEF Holds, Open
  <2>2. TrueIn(progress[v], batch.results, applied)
    BY <2>1 DEF ImportInv, Remembers
  <2>3. progress' = [progress EXCEPT ![w] = p] /\ w \in DOMAIN progress
    BY GoesKeeps DEF ImportInv, ImportTypes
  <2> QED
    BY <2>1, <2>2, <2>3
<1> QED
  BY <1>1, <1>2, <1>3 DEF ImportSide

LEMMA ProgressType ==
    ASSUME ImportInv, NEW w \in Workers
    PROVE  progress[w] \in [at : {"begin", "chunk", "row", "save", "finish"},
                            todo : SUBSET Rows, chunk : SUBSET Rows, got : [Rows -> Result]]
BY DEF ImportInv, ImportTypes

LEMMA NextChunkKeeps == ASSUME ImportInv, NEW w \in Workers, NextChunk(w) PROVE ImportSide'
<1>1. worker[w].pc = "run" /\ UNCHANGED <<batch, receipts, applied>>
  BY DEF NextChunk, At
<1>2. CASE progress[w].todo = {}
  <2> DEFINE p == [progress[w] EXCEPT !.at = "finish"]
  <2>1. /\ p \in [at : {"chunk", "row", "save", "finish"},
                  todo : SUBSET Rows, chunk : SUBSET Rows, got : [Rows -> Result]]
        /\ p.at = "finish" /\ p.todo = progress[w].todo /\ p.chunk = progress[w].chunk /\ p.got = progress[w].got
    BY ProgressType
  <2>2. Goes(w, p)
    BY <1>2 DEF NextChunk
  <2> HIDE DEF p
  <2> QED
    BY <1>1, <2>1, <2>2, MemoryStepKeeps DEF TrueIn
<1>3. CASE progress[w].todo # {} /\ ShouldStop(w)
  BY <1>1, <1>3, PlainEndKeeps DEF NextChunk
<1>4. CASE progress[w].todo # {} /\ ~ShouldStop(w)
  <2>1. PICK chunk \in SUBSET progress[w].todo :
          Goes(w, [NoProgress EXCEPT !.at = "row", !.todo = progress[w].todo \ chunk, !.chunk = chunk])
    BY <1>4 DEF NextChunk
  <2> DEFINE p == [NoProgress EXCEPT !.at = "row", !.todo = progress[w].todo \ chunk, !.chunk = chunk]
  <2>2. /\ p \in [at : {"chunk", "row", "save", "finish"},
                  todo : SUBSET Rows, chunk : SUBSET Rows, got : [Rows -> Result]]
        /\ p.at = "row" /\ p.todo = progress[w].todo \ chunk /\ p.chunk = chunk
        /\ p.got = [r \in Rows |-> "none"]
    BY ProgressType DEF NoProgress, Result
  <2> HIDE DEF p
  <2>3. TrueIn(progress[w], batch.results, applied) => TrueIn(p, batch.results, applied)
    BY <2>2 DEF TrueIn
  <2> QED
    BY <1>1, <2>1, <2>2, <2>3, MemoryStepKeeps DEF p
<1> QED
  BY <1>2, <1>3, <1>4

\* What a worker whose job is its own remembers is true.
LEMMA RunningRemembers ==
    ASSUME ImportInv, NEW w \in Workers, worker[w].pc = "run", Running(w)
    PROVE  /\ TrueIn(progress[w], batch.results, applied) /\ Holds(w)
           /\ \A r \in Rows : r \in receipts <=> applied[r] = 1
BY DEF ImportInv, Remembers, Running, Owned, ReceiptsTell, Ended

LEMMA CommitRowKeeps == ASSUME ImportInv, NEW w \in Workers, CommitRow(w) PROVE ImportSide'
<1>1. worker[w].pc = "run" /\ Running(w) /\ UNCHANGED batch
  BY DEF CommitRow, SaveRow, At
<1>2. PICK r \in progress[w].chunk, result \in {"SAVED", "FAILED"} :
        /\ r \in receipts => result = "SAVED"
        /\ IF result = "SAVED" /\ r \notin receipts
           THEN applied' = [applied EXCEPT ![r] = @ + 1] /\ receipts' = receipts \union {r}
           ELSE UNCHANGED <<applied, receipts>>
        /\ Goes(w, [progress[w] EXCEPT !.chunk = progress[w].chunk \ {r}, !.got[r] = result,
                      !.at = IF progress[w].chunk \ {r} = {} THEN "save" ELSE "row"])
  BY DEF CommitRow, SaveRow
<1> DEFINE p == [progress[w] EXCEPT !.chunk = progress[w].chunk \ {r}, !.got[r] = result,
                   !.at = IF progress[w].chunk \ {r} = {} THEN "save" ELSE "row"]
<1>3. r \in Rows /\ applied[r] \in Nat
  BY <1>2, ProgressType DEF ImportInv, ImportTypes
<1>4. /\ p \in [at : {"chunk", "row", "save", "finish"},
                todo : SUBSET Rows, chunk : SUBSET Rows, got : [Rows -> Result]]
      /\ p.todo = progress[w].todo /\ p.chunk = progress[w].chunk \ {r}
      /\ p.at \in {"save", "row"}
      /\ p.at = "save" => p.chunk = {}
      /\ p.got = [progress[w].got EXCEPT ![r] = result]
  BY <1>3, ProgressType DEF Result
<1>5. Goes(w, p)
  BY <1>2
<1> HIDE DEF p
<1>6. /\ applied[r] = IF r \in receipts THEN 1 ELSE 0
      /\ applied'[r] = IF result = "SAVED" THEN 1 ELSE 0
      /\ \A s \in Rows \ {r} : applied'[s] = applied[s]
      /\ receipts' \subseteq receipts \union {r} /\ receipts \subseteq receipts'
      /\ r \in receipts' <=> result = "SAVED"
      /\ applied' \in [Rows -> Nat]
  <2>1. /\ applied \in [Rows -> Nat] /\ applied[r] <= 1
        /\ r \in receipts <=> applied[r] = 1
    BY <1>1, <1>3, RunningRemembers DEF ImportInv, ImportTypes, ReceiptsTell
  <2>2. CASE result = "SAVED" /\ r \notin receipts
    BY <1>2, <1>3, <2>1, <2>2
  <2>3. CASE ~(result = "SAVED" /\ r \notin receipts)
    BY <1>2, <1>3, <2>1, <2>3
  <2> QED
    BY <2>2, <2>3
<1>7. TrueIn(p, batch.results, applied')
  <2>1. TrueIn(progress[w], batch.results, applied)
    BY <1>1, RunningRemembers
  <2>2. ASSUME NEW s \in Rows
        PROVE  /\ s \in p.todo \union p.chunk \/ p.got[s] # "none" => batch.results[s] = "none"
               /\ p.got[s] = "SAVED" => applied'[s] = 1
               /\ p.got[s] = "FAILED" => applied'[s] = 0
               /\ s \in p.todo => s \notin p.chunk /\ p.got[s] = "none"
    <3>1. CASE s = r
      <4>1. p.got[r] = result
        BY <1>3, <1>4, ProgressType
      <4> QED
        BY <1>2, <1>3, <1>4, <1>6, <2>1, <3>1, <4>1 DEF TrueIn
    <3>2. CASE s # r
      <4>1. p.got[s] = progress[w].got[s] /\ applied'[s] = applied[s]
        BY <1>3, <1>4, <1>6, <3>2, ProgressType
      <4> QED
        BY <1>4, <2>1, <4>1 DEF TrueIn
    <3> QED
      BY <3>1, <3>2
  <2> QED
    BY <1>4, <2>2 DEF TrueIn
<1>8. ImportTypes' /\ FreshProgress'
  BY <1>1, <1>3, <1>4, <1>5, <1>6, GoesKeeps DEF ImportInv, ImportTypes
<1>9. ReceiptsTell'
  <2>1. \A s \in Rows : s \in receipts' => s \in receipts \/ s = r
    BY <1>6
  <2> QED
    BY <1>1, <1>6, <2>1 DEF ImportInv, ReceiptsTell
<1>10. JobFollowsBatch'
  <2>1. batch.status = "RUNNING"
    BY <1>1 DEF Running
  <2> QED
    BY <1>1, <1>4, <1>5, <2>1, GoesKeeps DEF ImportInv, JobFollowsBatch, Open
<1>11. Remembers'
  BY <1>1, <1>4, <1>5, <1>7, GoesKeeps, OthersRemember, RunningRemembers
<1> QED
  BY <1>8, <1>9, <1>10, <1>11 DEF ImportSide

LEMMA SaveChunkKeeps == ASSUME ImportInv, NEW w \in Workers, SaveChunk(w) PROVE ImportSide'
<1>1. /\ worker[w].pc = "run" /\ Running(w) /\ UNCHANGED <<receipts, applied>>
      /\ batch' = [batch EXCEPT !.results = Merged(progress[w].got)]
  BY DEF SaveChunk, At
<1> DEFINE p == [progress[w] EXCEPT !.at = "chunk", !.got = NoProgress.got]
<1>2. /\ p \in [at : {"chunk", "row", "save", "finish"},
                todo : SUBSET Rows, chunk : SUBSET Rows, got : [Rows -> Result]]
      /\ p.todo = progress[w].todo /\ p.chunk = progress[w].chunk /\ p.got = [r \in Rows |-> "none"]
  BY ProgressType DEF NoProgress, Result
<1>3. Goes(w, p)
  BY DEF SaveChunk
<1>4. progress[w].at = "save"
  BY DEF SaveChunk, At
<1> HIDE DEF p
<1>5. batch.status = "RUNNING" /\ batch'.status = "RUNNING"
  BY <1>1 DEF Running, ImportInv, ImportTypes
<1>6. /\ batch' \in [status : BatchStatus, results : [Rows -> Result]]
      /\ batch'.results = Merged(progress[w].got)
  <2>1. Merged(progress[w].got) \in [Rows -> Result]
    BY ProgressType DEF Merged, ImportInv, ImportTypes
  <2> QED
    BY <1>1, <2>1 DEF ImportInv, ImportTypes
<1>7. TrueIn(p, batch'.results, applied')
  <2>1. TrueIn(progress[w], batch.results, applied)
    BY <1>1, RunningRemembers
  <2>2. progress[w].chunk = {}
    BY <1>4, <2>1 DEF TrueIn
  <2>3. ASSUME NEW r \in Rows, r \in progress[w].todo PROVE batch'.results[r] = "none"
    BY <1>6, <2>1, <2>3 DEF TrueIn, Merged
  <2> QED
    BY <1>2, <2>2, <2>3 DEF TrueIn
<1>8. ImportTypes' /\ FreshProgress'
  BY <1>1, <1>2, <1>3, <1>6, GoesKeeps DEF ImportInv, ImportTypes
<1>9. ReceiptsTell'
  BY <1>1, <1>5 DEF ImportInv, ReceiptsTell
<1>10. JobFollowsBatch'
  BY <1>1, <1>2, <1>3, <1>5, GoesKeeps DEF ImportInv, JobFollowsBatch, Open
<1>11. Remembers'
  BY <1>1, <1>2, <1>3, <1>7, GoesKeeps, OthersRemember, RunningRemembers
<1> QED
  BY <1>8, <1>9, <1>10, <1>11 DEF ImportSide

LEMMA FinishImportKeeps == ASSUME ImportInv, NEW w \in Workers, FinishImport(w) PROVE ImportSide'
<1>1. worker[w].pc = "run" /\ Running(w) /\ UNCHANGED <<receipts, applied>>
  BY DEF FinishImport, At
<1>2. CASE Reported = Rows
  <2>1. PICK status \in {"PARTIAL", "COMPLETED"} : batch' = [batch EXCEPT !.status = status]
    BY <1>2 DEF FinishImport
  <2>2. ImportEnds(w, "done")
    BY <1>2 DEF FinishImport
  <2>3. batch'.status \in Ended /\ batch' \in [status : BatchStatus, results : [Rows -> Result]]
    BY <2>1 DEF ImportInv, ImportTypes, BatchStatus, Ended
  <2>4. ImportTypes' /\ FreshProgress'
    BY <1>1, <2>2, <2>3, EndKeeps DEF ImportInv, ImportTypes
  <2>5. ReceiptsTell'
    BY <1>1, <2>3 DEF ImportInv, ReceiptsTell
  <2>6. JobFollowsBatch'
    BY <2>3 DEF JobFollowsBatch, Ended
  <2>7. Remembers'
    BY <2>3 DEF Remembers, Ended
  <2> QED
    BY <2>4, <2>5, <2>6, <2>7 DEF ImportSide
<1>3. CASE Reported # Rows
  BY <1>1, <1>3, PlainEndKeeps DEF FinishImport
<1> QED
  BY <1>2, <1>3

LEMMA StepStopsKeeps ==
    ASSUME ImportInv, NEW w \in Workers, StepFails(w) \/ StepInterrupted(w) PROVE ImportSide'
BY PlainEndKeeps DEF StepFails, StepInterrupted

LEMMA CrashImportKeeps == ASSUME ImportInv, NEW w \in Workers, CrashImport(w) PROVE ImportSide'
<1>1. /\ job' = job /\ worker' = [worker EXCEPT ![w] = Idle] /\ UNCHANGED <<batch, receipts, applied>>
      /\ progress' = [progress EXCEPT ![w] = NoProgress]
  BY DEF CrashImport, Crash
<1>2. worker'[w].pc = "idle" /\ \A v \in Workers \ {w} : worker'[v] = worker[v]
  BY <1>1 DEF ImportInv, QueueInv, Idle
<1>3. ImportTypes' /\ ReceiptsTell' /\ FreshProgress'
  BY <1>1, <1>2, NoProgressType DEF ImportInv, ImportTypes, ReceiptsTell, FreshProgress
<1>4. JobFollowsBatch'
  BY <1>1, <1>2 DEF ImportInv, JobFollowsBatch, Open
<1>5. Remembers'
  BY <1>1, <1>2, OthersRemember
<1> QED
  BY <1>3, <1>4, <1>5 DEF ImportSide

LEMMA QueueImportKeeps == ASSUME ImportInv, QueueImport PROVE ImportSide'
<1>1. PICK invalid \in SUBSET Rows :
        batch' = [status |-> "QUEUED", results |-> [r \in Rows |-> IF r \in invalid THEN "FAILED" ELSE "none"]]
  BY DEF QueueImport
<1>2. /\ job \in [Jobs -> Row] /\ ImportJob \in Jobs /\ UNCHANGED <<worker, receipts, applied, progress>>
      /\ batch.status = "absent" /\ job' = [job EXCEPT ![ImportJob].phase = "open"]
  BY ContactImportAssumption DEF ImportInv, QueueInv, QueueImport, Enqueue
<1>3. job'[ImportJob].phase = "open" /\ job[ImportJob].phase = "absent" /\ \A r \in Rows : applied[r] = 0
  BY <1>2 DEF ImportInv, JobFollowsBatch, Row
<1>4. batch' \in [status : BatchStatus, results : [Rows -> Result]] /\ batch'.status = "QUEUED"
  BY <1>1 DEF BatchStatus, Result
<1>5. ImportTypes' /\ FreshProgress'
  BY <1>2, <1>4 DEF ImportInv, ImportTypes, FreshProgress
<1>6. ReceiptsTell'
  BY <1>2, <1>3 DEF ImportInv, ReceiptsTell, ImportTypes
<1>7. JobFollowsBatch'
  BY <1>2, <1>3, <1>4 DEF ImportInv, JobFollowsBatch, Open, Ended
<1>8. Remembers'
  BY <1>4 DEF Remembers
<1> QED
  BY <1>5, <1>6, <1>7, <1>8 DEF ImportSide

LEMMA CancelImportKeeps == ASSUME ImportInv, CancelImport PROVE ImportSide'
<1> DEFINE results == Merged([r \in Rows |-> IF r \in receipts THEN "SAVED" ELSE "none"])
<1>1. /\ batch' = [status |-> "CANCELED", results |-> results]
      /\ UNCHANGED <<worker, receipts, applied, progress>>
  BY DEF CancelImport, CancelJob, queueVars
<1>2. results \in [Rows -> Result]
  BY DEF Merged, Result, ImportInv, ImportTypes
<1>3. batch' \in [status : BatchStatus, results : [Rows -> Result]] /\ batch'.status = "CANCELED"
  BY <1>1, <1>2 DEF BatchStatus, Ended
<1>4. ImportTypes' /\ FreshProgress'
  BY <1>1, <1>3 DEF ImportInv, ImportTypes, FreshProgress
<1>5. ReceiptsTell'
  BY <1>1, <1>3 DEF ImportInv, ReceiptsTell, Ended
<1>6. JobFollowsBatch' /\ Remembers'
  BY <1>3 DEF JobFollowsBatch, Remembers, Ended
<1> QED
  BY <1>4, <1>5, <1>6 DEF ImportSide

LEMMA ExpireReceiptKeeps == ASSUME ImportInv, NEW r \in Rows, ExpireReceipt(r) PROVE ImportSide'
<1>1. receipts' = receipts \ {r} /\ UNCHANGED <<queueVars, batch, applied, progress>> /\ r \in receipts
  BY DEF ExpireReceipt
<1>2. batch.status \in Ended
  <2>1. batch.status # "absent"
    BY <1>1 DEF ImportInv, JobFollowsBatch, ReceiptsTell
  <2> QED
    BY <2>1 DEF ExpireReceipt, ImportInv, JobFollowsBatch, ImportTypes, BatchStatus
<1>3. ImportTypes' /\ ReceiptsTell' /\ FreshProgress'
  BY <1>1, <1>2 DEF ImportInv, ImportTypes, ReceiptsTell, FreshProgress, queueVars
<1>4. JobFollowsBatch' /\ Remembers'
  BY <1>1, <1>2 DEF JobFollowsBatch, Remembers, Ended
<1> QED
  BY <1>3, <1>4 DEF ImportSide

LEMMA ImportStepKeeps == ASSUME ImportInv, [ImportNext]_allVars PROVE ImportInv'
<1>1. QueueInv'
  BY ImportStepIsQueueStep, QueueStepKeeps DEF ImportInv
<1>2. ASSUME NEW w \in Workers, ImportWorkerStep(w) \/ CrashImport(w) PROVE ImportSide'
  BY <1>2, QueueStepKeepsImport, RecordImportFailureKeeps, StepStopsKeeps, BeginImportKeeps,
     NextChunkKeeps, CommitRowKeeps, SaveChunkKeeps, FinishImportKeeps, CrashImportKeeps
  DEF ImportWorkerStep
<1>3. ASSUME NEW w \in Workers,
             (Renew(w) \/ Restart(w) \/ RenewFails(w) \/ RequestStop(w)) /\ UNCHANGED importVars
      PROVE  ImportSide'
  BY <1>3, ProcessStepKeepsImport
<1>4. ASSUME QueueImport \/ CancelImport \/ RetryImport PROVE ImportSide'
  BY <1>4, QueueImportKeeps, CancelImportKeeps, RetryImportKeeps
<1>5. ASSUME \E r \in Rows : ExpireReceipt(r) PROVE ImportSide'
  BY <1>5, ExpireReceiptKeeps
<1>6. ASSUME Tick /\ UNCHANGED importVars PROVE ImportSide'
  BY <1>6, TickKeepsImport
<1>7. ASSUME UNCHANGED allVars PROVE ImportSide'
  BY <1>7 DEF allVars, queueVars, importVars, ImportInv, ImportSide, ImportTypes, ReceiptsTell,
     JobFollowsBatch, FreshProgress, Remembers, Open, Holds
<1> QED
  BY <1>1, <1>2, <1>3, <1>4, <1>5, <1>6, <1>7 DEF ImportNext, ImportInv, ImportSide

\* The invariant holds throughout.
THEOREM ImportInvariant == ImportSpec => []ImportInv
<1>1. ImportInv /\ [ImportNext]_allVars => ImportInv'
  BY ImportStepKeeps
<1> QED
  BY InitialImport, <1>1, PTL DEF ImportSpec

\* The batch, its receipts and what workers remember have the shape the code gives them.
THEOREM ImportTypesHold == ImportSpec => []ImportTypeOK
<1>1. ImportInv => ImportTypeOK
  BY DEF ImportInv, QueueInv, QueueTypeOK, ImportTypes, ImportTypeOK
<1> QED
  BY <1>1, ImportInvariant, PTL

\* No row is saved twice, by any number of workers, takeovers, crashes and retries.
THEOREM ImportRowsApplyOnce == ImportSpec => []RowsApplyOnce
<1>1. ImportInv => RowsApplyOnce
  BY DEF ImportInv, ReceiptsTell, RowsApplyOnce
<1> QED
  BY <1>1, ImportInvariant, PTL

\* A queued or running import has an open job to run it, and a completed job an import that ended.
THEOREM ImportJobAndBatchAgree == ImportSpec => []JobAndBatchAgree
<1>1. ImportInv => JobAndBatchAgree
  BY DEF ImportInv, JobFollowsBatch, JobAndBatchAgree
<1> QED
  BY <1>1, ImportInvariant, PTL

-----------------------------------------------------------------------------
(***************************************************************************)
(* The import keeps its promise: each step is a step of ImportPromise, or  *)
(* changes nothing the owner sees.                                         *)
(***************************************************************************)
Saved == {r \in Rows : applied[r] > 0}

\* Nothing the owner sees changes.
LEMMA Unseen ==
    ASSUME UNCHANGED <<batch, applied>>
    PROVE  [Promise!PromiseNext]_(Promise!promiseVars)
BY DEF Promise!promiseVars

LEMMA CommitRowIsApply ==
    ASSUME ImportInv, NEW w \in Workers, CommitRow(w)
    PROVE  [Promise!PromiseNext]_(Promise!promiseVars)
<1>1. worker[w].pc = "run" /\ Running(w) /\ UNCHANGED batch
  BY DEF CommitRow, SaveRow, At
<1>2. CASE UNCHANGED applied
  BY <1>1, <1>2, Unseen
<1>3. CASE ~UNCHANGED applied
  <2>1. PICK r \in progress[w].chunk : r \notin receipts /\ applied' = [applied EXCEPT ![r] = @ + 1]
    BY <1>3 DEF CommitRow, SaveRow
  <2>2. /\ r \in Rows /\ applied \in [Rows -> Nat] /\ applied[r] <= 1
        /\ TrueIn(progress[w], batch.results, applied) /\ (r \in receipts <=> applied[r] = 1)
    BY <1>1, <2>1, ProgressType, RunningRemembers DEF ImportInv, ImportTypes, ReceiptsTell
  <2>3. applied[r] = 0 /\ batch.results[r] = "none"
    BY <2>1, <2>2 DEF TrueIn
  <2>4. {s \in Rows : applied'[s] > 0} = {s \in Rows : applied[s] > 0} \union {r}
    BY <2>1, <2>2, <2>3
  <2>5. Promise!Apply(r)
    BY <1>1, <2>3, <2>4 DEF Promise!Apply, Running
  <2> QED
    BY <2>2, <2>5 DEF Promise!PromiseNext
<1> QED
  BY <1>2, <1>3

LEMMA SaveChunkIsProgress ==
    ASSUME ImportInv, NEW w \in Workers, SaveChunk(w)
    PROVE  [Promise!PromiseNext]_(Promise!promiseVars)
<1> DEFINE got == progress[w].got
           rows == {r \in Rows : got[r] # "none"}
<1>1. /\ worker[w].pc = "run" /\ Running(w) /\ UNCHANGED applied
      /\ batch' = [batch EXCEPT !.results = Merged(got)]
  BY DEF SaveChunk, At
<1>2. batch'.status = "RUNNING" /\ batch.status = "RUNNING" /\ batch'.results = Merged(got)
  BY <1>1 DEF Running, ImportInv, ImportTypes
<1>3. /\ TrueIn(progress[w], batch.results, applied)
      /\ got \in [Rows -> Result] /\ batch.results \in [Rows -> Result] /\ applied \in [Rows -> Nat]
  BY <1>1, RunningRemembers, ProgressType DEF ImportInv, ImportTypes
<1>4. Merged(got) = [r \in Rows |-> IF r \in rows /\ batch.results[r] = "none"
                                    THEN IF r \in Saved THEN "SAVED" ELSE "FAILED"
                                    ELSE batch.results[r]]
  <2>1. ASSUME NEW r \in Rows
        PROVE  (IF batch.results[r] = "none" THEN got[r] ELSE batch.results[r])
                 = IF r \in rows /\ batch.results[r] = "none"
                   THEN IF r \in Saved THEN "SAVED" ELSE "FAILED" ELSE batch.results[r]
    BY <1>3 DEF TrueIn, Result, Saved
  <2> QED
    BY <2>1 DEF Merged
<1>5. Promise!TellOf(rows)
  BY <1>2, <1>4 DEF Promise!TellOf, Saved
<1>6. Promise!Progress
  BY <1>1, <1>2, <1>5 DEF Promise!Progress
<1> QED
  BY <1>6 DEF Promise!PromiseNext

LEMMA CancelIsCancel ==
    ASSUME ImportInv, CancelImport
    PROVE  [Promise!PromiseNext]_(Promise!promiseVars)
<1> DEFINE results == Merged([r \in Rows |-> IF r \in receipts THEN "SAVED" ELSE "none"])
<1>1. /\ batch' = [status |-> "CANCELED", results |-> results] /\ UNCHANGED applied
      /\ batch.status \in {"QUEUED", "RUNNING"}
  BY DEF CancelImport
<1>2. ASSUME NEW r \in Rows PROVE r \in receipts <=> r \in Saved
  BY <1>1 DEF ImportInv, ImportTypes, ReceiptsTell, Saved, Ended
<1>3. results = [r \in Rows |-> IF r \in Saved /\ batch.results[r] = "none"
                                THEN IF r \in Saved THEN "SAVED" ELSE "FAILED"
                                ELSE batch.results[r]]
  BY <1>2 DEF Merged
<1>4. Promise!TellOf(Saved)
  BY <1>1, <1>3 DEF Promise!TellOf, Saved
<1>5. Promise!Cancel
  BY <1>1, <1>4 DEF Promise!Cancel, Saved
<1> QED
  BY <1>5 DEF Promise!PromiseNext

LEMMA ImportStepKeepsPromise ==
    ASSUME ImportInv, [ImportNext]_allVars
    PROVE  [Promise!PromiseNext]_(Promise!promiseVars)
<1>1. ASSUME NEW w \in Workers,
             QueueStep(w) \/ StepFails(w) \/ StepInterrupted(w) \/ NextChunk(w) \/ CrashImport(w)
      PROVE  UNCHANGED <<batch, applied>>
  BY <1>1 DEF QueueStep, StepFails, StepInterrupted, NextChunk, CrashImport, importVars
<1>2. ASSUME NEW w \in Workers, RecordImportFailure(w) PROVE [Promise!PromiseNext]_(Promise!promiseVars)
  <2>1. CASE batch' = batch
    BY <1>2, <2>1, Unseen DEF RecordImportFailure
  <2>2. CASE batch' # batch
    <3>1. /\ batch' = [batch EXCEPT !.status = "FAILED"] /\ UNCHANGED applied
          /\ batch.status \in {"QUEUED", "RUNNING", "FAILED"}
      BY <1>2, <2>2 DEF RecordImportFailure
    <3>2. batch'.status = "FAILED" /\ batch'.results = batch.results /\ batch.status # "FAILED"
      BY <2>2, <3>1 DEF ImportInv, ImportTypes
    <3> QED
      BY <3>1, <3>2 DEF Promise!PromiseNext, Promise!Fail
  <2> QED
    BY <2>1, <2>2
<1>3. ASSUME NEW w \in Workers, BeginImport(w) PROVE [Promise!PromiseNext]_(Promise!promiseVars)
  <2>1. CASE batch' = batch
    BY <1>3, <2>1, Unseen DEF BeginImport
  <2>2. CASE batch' # batch
    <3>1. /\ batch' = [batch EXCEPT !.status = "RUNNING"] /\ UNCHANGED applied
          /\ batch.status \notin Ended /\ Owned(w) /\ worker[w].pc = "run"
      BY <1>3, <2>2 DEF BeginImport, At
    <3>2. batch.status # "absent"
      BY <3>1, InHand DEF ImportInv, JobFollowsBatch, Owned, Holds, Open
    <3>3. batch'.status = "RUNNING" /\ batch'.results = batch.results /\ batch.status # "RUNNING"
      BY <2>2, <3>1 DEF ImportInv, ImportTypes
    <3> QED
      BY <3>1, <3>2, <3>3 DEF Promise!PromiseNext, Promise!Start, ImportInv, ImportTypes, BatchStatus
  <2> QED
    BY <2>1, <2>2
<1>4. ASSUME NEW w \in Workers, FinishImport(w) PROVE [Promise!PromiseNext]_(Promise!promiseVars)
  <2>1. CASE Reported # Rows
    BY <1>4, <2>1, Unseen DEF FinishImport
  <2>2. CASE Reported = Rows
    <3>1. /\ batch' = [batch EXCEPT !.status =
                         IF \E r \in Rows : batch.results[r] = "FAILED" THEN "PARTIAL" ELSE "COMPLETED"]
          /\ UNCHANGED applied /\ batch.status = "RUNNING"
      BY <1>4, <2>2 DEF FinishImport, Running
    <3>2. /\ batch'.status = IF \E r \in Rows : batch.results[r] = "FAILED" THEN "PARTIAL" ELSE "COMPLETED"
          /\ batch'.results = batch.results /\ \A r \in Rows : batch.results[r] # "none"
      BY <2>2, <3>1 DEF ImportInv, ImportTypes, Reported
    <3> QED
      BY <3>1, <3>2 DEF Promise!PromiseNext, Promise!Finish
  <2> QED
    BY <2>1, <2>2
<1>5. CASE QueueImport
  <2>1. PICK invalid \in SUBSET Rows :
          batch' = [status |-> "QUEUED", results |-> [r \in Rows |-> IF r \in invalid THEN "FAILED" ELSE "none"]]
    BY <1>5 DEF QueueImport
  <2>2. UNCHANGED applied /\ batch.status = "absent"
    BY <1>5 DEF QueueImport
  <2> QED
    BY <2>1, <2>2 DEF Promise!PromiseNext, Promise!Queue
<1>6. CASE RetryImport \/ (\E r \in Rows : ExpireReceipt(r)) \/ UNCHANGED allVars \/ UNCHANGED importVars
  BY <1>6, Unseen DEF RetryImport, ExpireReceipt, allVars, importVars
<1> QED
  BY <1>1, <1>2, <1>3, <1>4, <1>5, <1>6, Unseen, CommitRowIsApply, SaveChunkIsProgress, CancelIsCancel
  DEF ImportNext, ImportWorkerStep

\* The import keeps its promise to the owner: what a row is reported as is what became of it, no
\* saved row goes unreported when it ends, and what ended stays ended.
THEOREM ImportKeepsPromise == ImportSpec => KeepsPromise
<1>1. ImportInit => Promise!PromiseInit
  BY DEF ImportInit, Promise!PromiseInit
<1>2. ImportInv /\ [ImportNext]_allVars => [Promise!PromiseNext]_(Promise!promiseVars)
  BY ImportStepKeepsPromise
<1> QED
  BY <1>1, <1>2, ImportInvariant, PTL DEF ImportSpec, KeepsPromise, Promise!PromiseSpec

\* What the queue promises of any job it keeps of an import: the job is run no more often than its
\* attempts, one that ended stays ended, and a lease that runs is nobody else's to take.
THEOREM ImportKeepsTheQueue == ImportSpec => []ExecutionsBounded /\ EndedJobsStay /\ LeaseIsRespected
<1>1. ImportSpec => QueueSpec
  BY ImportRefinesQueue DEF RefinesQueue
<1> QED
  BY <1>1, QueueExecutionsBounded, QueueEndedJobsStay, QueueLeaseIsRespected

=============================================================================
