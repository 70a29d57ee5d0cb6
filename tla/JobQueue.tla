------------------------------ MODULE JobQueue ------------------------------
(***************************************************************************)
(* The table of jobs and the worker processes that take from it            *)
(* (src/worker/index.ts), with the staff's retry of a failed job           *)
(* (admin-job-retry.ts) and the owner's cancellation of an import's job    *)
(* (contact-import-jobs.ts).                                               *)
(*                                                                         *)
(* A claim is two statements: the candidate is read, then taken by an      *)
(* update guarded on what was read.  The holder renews its lease on a      *)
(* timer while it works; whoever finds the lease older than Lease may take *)
(* the job over, and the old holder goes on beside the new one until it    *)
(* notices.  The job's times are only ever compared with the present, so   *)
(* `wait` is how long it is until runAt, and `age` how long since lockedAt *)
(* as far as anyone can tell (it stops at Lease + 1).                      *)
(***************************************************************************)
EXTENDS Naturals, FiniteSets

CONSTANTS
  Workers,       \* worker processes, each one its restarts included
  Jobs,          \* jobs: of each, one row of the table
  Reports,       \* the jobs that make a report: taken only when no other is due
  Imports,       \* the jobs that import contacts: the owner may cancel them
  Sweeps,        \* the jobs that stop at saved steps when asked to
  Retryable,     \* the jobs whose failure the staff may retry
  MaxAttempts,   \* Job.maxAttempts
  Lease,         \* jobLeaseMs, in ticks
  RetryDelays,   \* what retryDelayMs may give, in ticks
  None,          \* no worker, no job
  MaxTroubles    \* bound: crashes, requests to stop, renewals that fail or come too late, retries

ASSUME JobQueueAssumption ==
  /\ Reports \subseteq Jobs /\ Imports \subseteq Jobs
  /\ Sweeps \subseteq Jobs /\ Retryable \subseteq Jobs
  /\ MaxAttempts \in Nat \ {0}
  /\ Lease \in Nat \ {0}
  /\ RetryDelays \subseteq Nat \ {0} /\ RetryDelays # {}
  /\ None \notin Workers /\ None \notin Jobs
  /\ MaxTroubles \in Nat

VARIABLES
  job,           \* the table
  worker,        \* where each worker process is, and what it remembers of its claim
  runs,          \* history: executions begun and not handed back, since the job was (re)opened
  troubles       \* how much of MaxTroubles is used

queueVars == <<job, worker, runs, troubles>>

Row == [phase : {"absent", "open", "done", "failed"},
        wait : Nat, by : Workers \union {None}, age : 0..(Lease + 1), attempts : 0..MaxAttempts]

(***************************************************************************)
(* pc: "claim" between reading a candidate and taking it; "run" while the  *)
(* task executes; then how it ended, until that is recorded.  A claim      *)
(* counts from `since`, how long ago the candidate was read.               *)
(***************************************************************************)
Process == [pc : {"idle", "claim", "run", "done", "error", "permanent", "interrupted"},
            job : Jobs \union {None}, attempts : 0..MaxAttempts, since : 0..(Lease + 1),
            lost : BOOLEAN, stopping : BOOLEAN]

Idle == [pc |-> "idle", job |-> None, attempts |-> 0, since |-> 0, lost |-> FALSE, stopping |-> FALSE]

QueueTypeOK ==
  /\ job \in [Jobs -> Row]
  /\ worker \in [Workers -> Process]
  /\ runs \in [Jobs -> Nat]
  /\ troubles \in 0..MaxTroubles

QueueInit ==
  /\ job = [j \in Jobs |-> [phase |-> "absent", wait |-> 0, by |-> None, age |-> 0, attempts |-> 0]]
  /\ worker = [w \in Workers |-> Idle]
  /\ runs = [j \in Jobs |-> 0]
  /\ troubles = 0

Trouble == troubles < MaxTroubles /\ troubles' = troubles + 1

-----------------------------------------------------------------------------
(***************************************************************************)
(* Taking a job.                                                           *)
(***************************************************************************)

Open(j) == job[j].phase = "open"

\* Mutants of Claimable: a job is taken whoever holds it; a job whose holder died is never taken.
ClaimableHeld(j) == Open(j) /\ job[j].wait = 0
ClaimableUnheld(j) == Open(j) /\ job[j].wait = 0 /\ job[j].by = None

\* Due, and held by no one whose lease still runs.
Claimable(j) ==
  /\ Open(j)
  /\ job[j].wait = 0
  /\ job[j].by = None \/ job[j].age > Lease

\* A process goes back to its loop; one asked to stop leaves it, and its host starts another.
Released(w) == worker' = [worker EXCEPT ![w] = [Idle EXCEPT !.stopping = worker[w].stopping]]

\* Any part of the system may add a job, due now.
Enqueue(j) ==
  /\ job[j].phase = "absent"
  /\ job' = [job EXCEPT ![j].phase = "open"]
  /\ UNCHANGED <<worker, runs, troubles>>

ReadCandidate(w) ==
  /\ worker[w].pc = "idle" /\ ~worker[w].stopping
  /\ \E j \in Jobs :
       /\ Claimable(j)
       /\ j \in Reports => \A other \in Jobs \ Reports : ~Claimable(other)
       /\ worker' = [worker EXCEPT ![w].pc = "claim", ![w].job = j, ![w].attempts = job[j].attempts]
  /\ UNCHANGED <<job, runs, troubles>>

\* Mutants of Claim: the used-up job is counted again, or run again.
ClaimCounting(w) ==
  LET j == worker[w].job
  IN  /\ worker[w].pc = "claim"
      /\ Claimable(j) /\ job[j].attempts = worker[w].attempts
      /\ job' = [job EXCEPT ![j].by = w, ![j].age = worker[w].since, ![j].attempts = @ + 1]
      /\ worker' = [worker EXCEPT ![w].pc = "run", ![w].attempts = @ + 1, ![w].since = 0]
      /\ runs' = [runs EXCEPT ![j] = @ + 1]
      /\ UNCHANGED troubles

ClaimUncounted(w) ==
  LET j == worker[w].job
  IN  /\ worker[w].pc = "claim"
      /\ Claimable(j) /\ job[j].attempts = worker[w].attempts
      /\ job' = [job EXCEPT ![j].by = w, ![j].age = worker[w].since]
      /\ worker' = [worker EXCEPT ![w].pc = "run", ![w].since = 0]
      /\ runs' = [runs EXCEPT ![j] = @ + 1]
      /\ UNCHANGED troubles

(***************************************************************************)
(* The update takes the row only if it is still as it was read.  A job     *)
(* whose attempts are used up is taken without another one, to record that *)
(* it ended without a result.                                              *)
(***************************************************************************)
Claim(w) ==
  LET j == worker[w].job
      exhausted == worker[w].attempts >= MaxAttempts
      attempts == IF exhausted THEN worker[w].attempts ELSE worker[w].attempts + 1
  IN  /\ worker[w].pc = "claim"
      /\ \/ /\ Claimable(j) /\ job[j].attempts = worker[w].attempts
            /\ job' = [job EXCEPT ![j].by = w, ![j].age = worker[w].since, ![j].attempts = attempts]
            /\ worker' = [worker EXCEPT ![w].pc = IF exhausted THEN "permanent" ELSE "run",
                            ![w].attempts = attempts, ![w].since = 0]
            /\ runs' = [runs EXCEPT ![j] = IF exhausted THEN @ ELSE @ + 1]
         \/ /\ ~(Claimable(j) /\ job[j].attempts = worker[w].attempts)
            /\ Released(w)
            /\ UNCHANGED <<job, runs>>
      /\ UNCHANGED troubles

-----------------------------------------------------------------------------
(***************************************************************************)
(* Holding it.                                                             *)
(***************************************************************************)

Working(w) == worker[w].pc \notin {"idle", "claim"}

\* The guard of everything a worker writes to its job.
Holds(w) == Open(worker[w].job) /\ job[worker[w].job].by = w

ShouldStop(w) == worker[w].stopping \/ worker[w].lost

\* The timer's update: it counts the row, and a worker whose row it did not find has lost its lease.
\* The timer goes on after that, and renews what is still its worker's.
Renew(w) ==
  /\ Working(w)
  /\ \/ /\ Holds(w) /\ job[worker[w].job].age > 0
        /\ job' = [job EXCEPT ![worker[w].job].age = 0]
        /\ UNCHANGED worker
     \/ /\ ~Holds(w) /\ ~worker[w].lost
        /\ worker' = [worker EXCEPT ![w].lost = TRUE]
        /\ UNCHANGED job
  /\ UNCHANGED <<runs, troubles>>

\* The update fails: the worker counts its lease as lost while the table still shows it.
RenewFails(w) ==
  /\ Working(w) /\ ~worker[w].lost
  /\ Trouble
  /\ worker' = [worker EXCEPT ![w].lost = TRUE]
  /\ UNCHANGED <<job, runs>>

(***************************************************************************)
(* executeJob, and how it ends: normally, with an error, with one that no  *)
(* retry helps, or interrupted: a sweep at a saved step because it was     *)
(* asked to stop, an import also because it found its job no longer its.   *)
(***************************************************************************)
Outcomes(w) ==
  {"done", "error", "permanent"}
    \union {o \in {"interrupted"} : worker[w].job \in Imports \/ (worker[w].job \in Sweeps /\ ShouldStop(w))}

Ends(w, outcome) == worker' = [worker EXCEPT ![w].pc = outcome]

Execute(w) ==
  /\ worker[w].pc = "run"
  /\ \E outcome \in Outcomes(w) : Ends(w, outcome)
  /\ UNCHANGED <<job, runs, troubles>>

-----------------------------------------------------------------------------
(***************************************************************************)
(* Recording how it ended.  Each write is guarded on the lease; without it *)
(* the job is left as it is.                                               *)
(***************************************************************************)

Completed(j) == job' = [job EXCEPT ![j].phase = "done", ![j].by = None, ![j].age = 0]

\* Mutant of Complete: the update is not guarded on the lease.
CompleteUnguarded(w) ==
  /\ worker[w].pc = "done"
  /\ Completed(worker[w].job) /\ Released(w)
  /\ UNCHANGED <<runs, troubles>>

\* A worker that knows its lease is lost turns success into an error, which it cannot record either
\* unless the row is still its own.
Complete(w) ==
  /\ worker[w].pc = "done"
  /\ \/ /\ worker[w].lost
        /\ Ends(w, "error")
        /\ UNCHANGED job
     \/ /\ ~worker[w].lost /\ Holds(w)
        /\ Completed(worker[w].job) /\ Released(w)
     \/ /\ ~worker[w].lost /\ ~Holds(w)
        /\ Released(w)
        /\ UNCHANGED job
  /\ UNCHANGED <<runs, troubles>>

\* No attempt is left, or none would help.
ShouldFail(w) == worker[w].pc = "permanent" \/ worker[w].attempts >= MaxAttempts

\* An interruption of someone who should stop is a pause, any other is an error.
Erred(w) ==
  \/ worker[w].pc \in {"error", "permanent"}
  \/ worker[w].pc = "interrupted" /\ ~ShouldStop(w)

RecordFailure(w) ==
  LET j == worker[w].job
  IN  /\ Erred(w)
      /\ \/ /\ Holds(w) /\ ShouldFail(w)
            /\ job' = [job EXCEPT ![j].phase = "failed", ![j].by = None, ![j].age = 0]
         \/ /\ Holds(w) /\ ~ShouldFail(w)
            /\ \E delay \in RetryDelays :
                 job' = [job EXCEPT ![j].by = None, ![j].age = 0, ![j].wait = delay]
         \/ /\ ~Holds(w)
            /\ UNCHANGED job
      /\ Released(w)
      /\ UNCHANGED <<runs, troubles>>

Paused(w) == worker[w].pc = "interrupted" /\ ShouldStop(w)

\* A paused job is due again at once and has its attempt back.
ReleasePaused(w) ==
  LET j == worker[w].job
      back == IF worker[w].attempts > 0 THEN worker[w].attempts - 1 ELSE 0
  IN  /\ Paused(w)
      /\ \/ /\ Holds(w)
            /\ job' = [job EXCEPT ![j].by = None, ![j].age = 0, ![j].wait = 0, ![j].attempts = back]
            /\ runs' = [runs EXCEPT ![j] = @ - 1]
         \/ /\ ~Holds(w)
            /\ UNCHANGED <<job, runs>>
      /\ Released(w)
      /\ UNCHANGED troubles

-----------------------------------------------------------------------------
(***************************************************************************)
(* The processes, the staff, the owner, and time.                          *)
(***************************************************************************)

\* A process dies anywhere: what it held stays locked.  Its host starts another.
Crash(w) ==
  /\ Trouble
  /\ worker[w].pc # "idle"
  /\ worker' = [worker EXCEPT ![w] = Idle]
  /\ UNCHANGED <<job, runs>>

\* SIGTERM: the job in hand finishes or pauses, and no other is taken.
RequestStop(w) ==
  /\ Trouble
  /\ ~worker[w].stopping
  /\ worker' = [worker EXCEPT ![w].stopping = TRUE]
  /\ UNCHANGED <<job, runs>>

Restart(w) ==
  /\ worker[w].pc = "idle" /\ worker[w].stopping
  /\ worker' = [worker EXCEPT ![w] = Idle]
  /\ UNCHANGED <<job, runs, troubles>>

\* The staff retry a failure they have seen: all attempts again, due now.
RetryFailed(j) ==
  /\ Trouble
  /\ j \in Retryable
  /\ job[j].phase = "failed"
  /\ job' = [job EXCEPT ![j].phase = "open", ![j].wait = 0, ![j].attempts = 0]
  /\ runs' = [runs EXCEPT ![j] = 0]
  /\ UNCHANGED worker

\* The owner cancels an import: its job ends as failed, whoever holds it.
CancelJob(j) ==
  /\ j \in Imports
  /\ Open(j)
  /\ job' = [job EXCEPT ![j].phase = "failed", ![j].by = None, ![j].age = 0]
  /\ UNCHANGED <<worker, runs, troubles>>

\* Renewals keep every lease of a working process young.
RenewedInTime ==
  \A w \in Workers : Working(w) /\ Holds(w) => job[worker[w].job].age < Lease

Older(age) == IF age > Lease THEN age ELSE age + 1

Tick ==
  /\ \/ RenewedInTime /\ UNCHANGED troubles
     \/ ~RenewedInTime /\ Trouble
  /\ job' = [j \in Jobs |-> IF ~Open(j) THEN job[j] ELSE
               [job[j] EXCEPT !.wait = IF @ > 0 THEN @ - 1 ELSE 0,
                              !.age = IF job[j].by = None THEN 0 ELSE Older(@)]]
  /\ worker' = [w \in Workers |-> [worker[w] EXCEPT !.since = IF worker[w].pc = "claim" THEN Older(@) ELSE @]]
  /\ UNCHANGED runs

WorkerStep(w) ==
  ReadCandidate(w) \/ Claim(w) \/ Execute(w) \/ Complete(w) \/ RecordFailure(w) \/ ReleasePaused(w)

Disturbance ==
  \/ \E w \in Workers : RenewFails(w) \/ Crash(w) \/ RequestStop(w)
  \/ \E j \in Jobs : Enqueue(j) \/ RetryFailed(j) \/ CancelJob(j)

QueueNext ==
  \/ \E w \in Workers : WorkerStep(w) \/ Renew(w) \/ Restart(w)
  \/ Disturbance
  \/ Tick

QueueSpec == QueueInit /\ [][QueueNext]_queueVars

-----------------------------------------------------------------------------
(***************************************************************************)
(* Properties.                                                             *)
(***************************************************************************)

\* Whatever crashes, takeovers and pauses happen, the executions of a job that were not handed
\* back never exceed its attempts: a job that kills its worker is not run for ever.
ExecutionsBounded == \A j \in Jobs : runs[j] <= MaxAttempts

\* What ended stays as it ended: a completed job for good, a failed one until the staff retry it.
\* A worker that lost its lease, or whose job was canceled under it, cannot record over it.
EndedJobsStay ==
  [][\A j \in Jobs :
       /\ job[j].phase = "done" => job'[j] = job[j]
       /\ job[j].phase = "failed" => job'[j] = job[j] \/ RetryFailed(j)]_queueVars

\* While a lease runs, the job leaves its holder by the holder's own step or by a cancellation:
\* nobody takes it over, and nobody who held it before gives it back, completes or fails it.
LeaseIsRespected ==
  [][\A j \in Jobs, w \in Workers :
       (job[j].by = w /\ job[j].age <= Lease /\ job'[j].by # w)
         => (worker[w].job = j /\ worker'[w].pc = "idle") \/ CancelJob(j)]_queueVars

\* Every job ends: completed, or failed for the staff to see.  Neither a worker that dies or stops
\* with it, nor one that loses its lease, nor retries keep it for ever.
EveryJobEnds == \A j \in Jobs : Open(j) ~> ~Open(j)

=============================================================================
