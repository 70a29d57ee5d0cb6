--------------------------- MODULE JobQueueProofs ---------------------------
(***************************************************************************)
(* What holds of the queue for any workers, jobs, leases and attempts, and *)
(* however often workers die, stop or lose their leases.                   *)
(***************************************************************************)
EXTENDS JobQueue, TLAPS

(***************************************************************************)
(* The inductive invariant.  A row that is not open is held by no one, and *)
(* the executions not handed back are its attempts exactly.  A worker that *)
(* works took an attempt, and while the row is its own the row's attempts  *)
(* are those it remembers: this is what makes a release give back the      *)
(* attempt it took.                                                        *)
(***************************************************************************)
GoodRow(r, n) ==
  /\ r \in Row
  /\ r.phase # "open" => r.by = None
  /\ n = r.attempts

GoodProcess(p) ==
  /\ p \in Process
  /\ p.pc # "idle" => p.job \in Jobs
  /\ p.pc \notin {"idle", "claim"} => p.attempts >= 1

ClaimIsRemembered ==
  \A w \in Workers : Working(w) /\ Holds(w) => worker[w].attempts = job[worker[w].job].attempts

QueueInv ==
  /\ job \in [Jobs -> Row] /\ worker \in [Workers -> Process]
  /\ runs \in [Jobs -> Nat] /\ troubles \in 0..MaxTroubles
  /\ \A j \in Jobs : GoodRow(job[j], runs[j])
  /\ \A w \in Workers : GoodProcess(worker[w])
  /\ ClaimIsRemembered

\* What the assumptions on the constants give of types.
LEMMA Bounds ==
  /\ 0 \in 0..MaxAttempts /\ 0 \in 0..(Lease + 1)
  /\ None \in Workers \union {None} /\ None \in Jobs \union {None}
  /\ Workers \subseteq Workers \union {None}
BY JobQueueAssumption

LEMMA InitialQueue == QueueInit => QueueInv
BY JobQueueAssumption
DEF QueueInit, QueueInv, GoodRow, GoodProcess, ClaimIsRemembered, Row, Process, Idle, Working, Holds, Open

-----------------------------------------------------------------------------
\* A step of one worker that leaves the table alone.
LEMMA ProcessChanges ==
    ASSUME QueueInv, NEW w \in Workers, NEW p, GoodProcess(p),
           worker' = [worker EXCEPT ![w] = p], UNCHANGED <<job, runs>>, troubles' \in 0..MaxTroubles,
           \/ p.pc \in {"idle", "claim"}
           \/ Working(w) /\ p.job = worker[w].job /\ p.attempts = worker[w].attempts
    PROVE  QueueInv'
<1>1. worker' \in [Workers -> Process]
  BY DEF QueueInv, GoodProcess
<1>2. ASSUME NEW v \in Workers PROVE GoodProcess(worker'[v])
  BY DEF QueueInv
<1>3. ASSUME NEW v \in Workers, Working(v)', Holds(v)'
      PROVE  worker'[v].attempts = job'[worker'[v].job].attempts
  <2>1. CASE v = w
    <3>1. worker'[v] = p
      BY <2>1 DEF QueueInv
    <3> QED
      BY <1>3, <2>1, <3>1 DEF QueueInv, ClaimIsRemembered, Working, Holds, Open
  <2>2. CASE v # w
    <3>1. worker'[v] = worker[v]
      BY <2>2 DEF QueueInv
    <3> QED
      BY <1>3, <3>1 DEF QueueInv, ClaimIsRemembered, Working, Holds, Open
  <2> QED
    BY <2>1, <2>2
<1> QED
  BY <1>1, <1>2, <1>3 DEF QueueInv, ClaimIsRemembered

\* A write of one row that leaves the workers alone: it frees the row, or keeps holder and attempts.
LEMMA RowChanges ==
    ASSUME QueueInv, NEW j \in Jobs, NEW r, NEW n, GoodRow(r, n),
           job' = [job EXCEPT ![j] = r], runs' = [runs EXCEPT ![j] = n],
           worker' = worker, troubles' \in 0..MaxTroubles,
           r.by = None \/ (r.by = job[j].by /\ r.attempts = job[j].attempts /\ Open(j))
    PROVE  QueueInv'
<1>0. n \in Nat
  BY JobQueueAssumption DEF GoodRow, Row
<1>1. job' \in [Jobs -> Row] /\ runs' \in [Jobs -> Nat]
  BY <1>0 DEF QueueInv, GoodRow
<1>2. ASSUME NEW i \in Jobs PROVE GoodRow(job'[i], runs'[i])
  BY DEF QueueInv
<1>3. ASSUME NEW v \in Workers, Working(v)', Holds(v)'
      PROVE  worker'[v].attempts = job'[worker'[v].job].attempts
  <2>1. CASE worker[v].job = j
    <3>1. job'[worker'[v].job] = r /\ r.by = v
      BY <1>3, <2>1 DEF QueueInv, Holds
    <3>2. v # None
      BY JobQueueAssumption
    <3> QED
      BY <1>3, <2>1, <3>1, <3>2 DEF QueueInv, ClaimIsRemembered, Working, Holds, Open
  <2>2. CASE worker[v].job # j
    <3>1. worker[v].job \in Jobs
      BY <1>3 DEF QueueInv, GoodProcess, Working
    <3>2. job'[worker'[v].job] = job[worker[v].job]
      BY <2>2, <3>1 DEF QueueInv
    <3> QED
      BY <1>3, <3>2 DEF QueueInv, ClaimIsRemembered, Working, Holds, Open
  <2> QED
    BY <2>1, <2>2
<1> QED
  BY <1>1, <1>2, <1>3 DEF QueueInv, ClaimIsRemembered

\* A step of a worker that writes its row: it frees the row and is idle again, or comes to hold it.
LEMMA BothChange ==
    ASSUME QueueInv, NEW w \in Workers, NEW p, NEW j \in Jobs, NEW r, NEW n,
           GoodProcess(p), GoodRow(r, n),
           worker' = [worker EXCEPT ![w] = p], job' = [job EXCEPT ![j] = r],
           runs' = [runs EXCEPT ![j] = n], troubles' = troubles,
           \/ r.by = None /\ p.pc = "idle"
           \/ r.by = w /\ p.job = j /\ p.attempts = r.attempts
    PROVE  QueueInv'
<1>0. n \in Nat
  BY JobQueueAssumption DEF GoodRow, Row
<1>1. job' \in [Jobs -> Row] /\ runs' \in [Jobs -> Nat] /\ worker' \in [Workers -> Process]
  BY <1>0 DEF QueueInv, GoodRow, GoodProcess
<1>2. ASSUME NEW i \in Jobs PROVE GoodRow(job'[i], runs'[i])
  BY DEF QueueInv
<1>3. ASSUME NEW v \in Workers PROVE GoodProcess(worker'[v])
  BY DEF QueueInv
<1>4. ASSUME NEW v \in Workers, Working(v)', Holds(v)'
      PROVE  worker'[v].attempts = job'[worker'[v].job].attempts
  <2>0. v # None
    BY JobQueueAssumption
  <2>1. CASE v = w
    <3>1. worker'[v] = p /\ job'[j] = r
      BY <2>1 DEF QueueInv
    <3> QED
      BY <1>4, <2>1, <3>1 DEF Working
  <2>2. CASE v # w
    <3>1. worker'[v] = worker[v] /\ worker[v].job \in Jobs
      BY <1>4, <2>2 DEF QueueInv, GoodProcess, Working
    <3>2. worker[v].job # j
      BY <1>4, <2>0, <2>2, <3>1 DEF QueueInv, Holds
    <3>3. job'[worker'[v].job] = job[worker[v].job]
      BY <3>1, <3>2 DEF QueueInv
    <3> QED
      BY <1>4, <3>1, <3>3 DEF QueueInv, ClaimIsRemembered, Working, Holds, Open
  <2> QED
    BY <2>1, <2>2
<1> QED
  BY <1>1, <1>2, <1>3, <1>4 DEF QueueInv, ClaimIsRemembered

\* A process back in its loop, or started again, is as it should be.
LEMMA BackInLoop ==
    ASSUME NEW b \in BOOLEAN
    PROVE  GoodProcess([Idle EXCEPT !.stopping = b]) /\ [Idle EXCEPT !.stopping = b].pc = "idle"
<1> DEFINE p == [Idle EXCEPT !.stopping = b]
<1>1. Idle \in Process /\ Idle.pc = "idle"
  BY Bounds DEF Process, Idle
<1>2. p \in Process /\ p.pc = "idle"
  BY <1>1 DEF Process
<1> QED
  BY <1>2 DEF GoodProcess

LEMMA Restarted == GoodProcess(Idle) /\ Idle.pc = "idle"
<1>1. 0 \in 0..MaxAttempts /\ 0 \in 0..(Lease + 1)
  BY JobQueueAssumption
<1>2. Idle \in Process
  BY <1>1 DEF Process, Idle
<1> QED
  BY <1>2 DEF GoodProcess, Idle

-----------------------------------------------------------------------------
\* Each action keeps the invariant.
LEMMA ReadCandidateKeeps == ASSUME QueueInv, NEW w \in Workers, ReadCandidate(w) PROVE QueueInv'
<1>1. PICK j \in Jobs :
        worker' = [worker EXCEPT ![w].pc = "claim", ![w].job = j, ![w].attempts = job[j].attempts]
  BY DEF ReadCandidate
<1> DEFINE p == [worker[w] EXCEPT !.pc = "claim", !.job = j, !.attempts = job[j].attempts]
<1>2. worker' = [worker EXCEPT ![w] = p]
  BY <1>1 DEF QueueInv
<1>3. worker[w] \in Process /\ job[j].attempts \in 0..MaxAttempts
  BY DEF QueueInv, Row
<1>4. GoodProcess(p) /\ p.pc = "claim"
  BY <1>3 DEF GoodProcess, Process
<1> QED
  BY <1>2, <1>4, ProcessChanges DEF ReadCandidate, QueueInv

LEMMA ClaimKeeps == ASSUME QueueInv, NEW w \in Workers, Claim(w) PROVE QueueInv'
<1> DEFINE j == worker[w].job
           old == worker[w].attempts
           new == IF old >= MaxAttempts THEN old ELSE old + 1
           p == [worker[w] EXCEPT !.pc = IF old >= MaxAttempts THEN "permanent" ELSE "run",
                                  !.attempts = new, !.since = 0]
           r == [job[j] EXCEPT !.by = w, !.age = worker[w].since, !.attempts = new]
           n == IF old >= MaxAttempts THEN runs[j] ELSE runs[j] + 1
<1>1. worker[w] \in Process /\ GoodProcess(worker[w]) /\ worker[w].pc = "claim" /\ j \in Jobs
  BY DEF QueueInv, GoodProcess, Claim
<1>2. job[j] \in Row /\ runs[j] \in Nat /\ runs[j] = job[j].attempts
  BY <1>1 DEF QueueInv, GoodRow
<1>3. CASE Claimable(j) /\ job[j].attempts = old
  <2>1. /\ worker' = [worker EXCEPT ![w] = p]
        /\ job' = [job EXCEPT ![j] = r]
        /\ runs' = [runs EXCEPT ![j] = n]
    <3>1. /\ job' = [job EXCEPT ![j].by = w, ![j].age = worker[w].since, ![j].attempts = new]
          /\ worker' = [worker EXCEPT ![w].pc = IF old >= MaxAttempts THEN "permanent" ELSE "run",
                           ![w].attempts = new, ![w].since = 0]
          /\ runs' = [runs EXCEPT ![j] = n]
      BY <1>3 DEF Claim
    <3> QED
      BY <1>1, <3>1 DEF QueueInv
  <2>2. old \in 0..MaxAttempts /\ new \in 0..MaxAttempts /\ new >= 1
    BY <1>1, JobQueueAssumption DEF Process
  <2>3. p \in Process /\ p.pc \in {"run", "permanent"} /\ p.job = j /\ p.attempts = new
    BY <1>1, <2>2, Bounds DEF Process
  <2>4. GoodProcess(p)
    BY <1>1, <2>2, <2>3 DEF GoodProcess
  <2>5. r \in Row /\ r.by = w /\ r.attempts = new /\ r.phase = "open"
    BY <1>1, <1>2, <1>3, <2>2 DEF Row, Process, Claimable, Open
  <2>6. n = new
    BY <1>2, <1>3, <2>2
  <2>7. GoodRow(r, n)
    BY <2>5, <2>6 DEF GoodRow
  <2>8. UNCHANGED troubles /\ j \in Jobs
    BY <1>1 DEF Claim
  <2> HIDE DEF j, p, r, n, old, new
  <2> QED
    BY <2>1, <2>3, <2>4, <2>5, <2>7, <2>8, BothChange
<1>4. CASE ~(Claimable(j) /\ job[j].attempts = old)
  <2>1. worker' = [worker EXCEPT ![w] = [Idle EXCEPT !.stopping = worker[w].stopping]]
    BY <1>4 DEF Claim, Released
  <2>2. UNCHANGED <<job, runs, troubles>>
    BY <1>4 DEF Claim
  <2>3. worker[w].stopping \in BOOLEAN
    BY <1>1 DEF Process
  <2> QED
    BY <2>1, <2>2, <2>3, BackInLoop, ProcessChanges DEF QueueInv
<1> QED
  BY <1>3, <1>4

\* A step that only moves where a working process is, or what it knows, keeps the invariant.
LEMMA MovesOn ==
    ASSUME QueueInv, NEW w \in Workers, Working(w), NEW pc, NEW lost \in BOOLEAN, NEW b \in BOOLEAN,
           pc \in {"run", "done", "error", "permanent", "interrupted"},
           worker' = [worker EXCEPT ![w] = [worker[w] EXCEPT !.pc = pc, !.lost = lost, !.stopping = b]],
           UNCHANGED <<job, runs>>, troubles' \in 0..MaxTroubles
    PROVE  QueueInv'
<1> DEFINE p == [worker[w] EXCEPT !.pc = pc, !.lost = lost, !.stopping = b]
<1>1. worker[w] \in Process /\ GoodProcess(worker[w])
  BY DEF QueueInv
<1>2. p \in Process /\ p.pc = pc /\ p.job = worker[w].job /\ p.attempts = worker[w].attempts
  BY <1>1 DEF Process
<1>3. GoodProcess(p)
  BY <1>1, <1>2 DEF GoodProcess, Working
<1> QED
  BY <1>2, <1>3, ProcessChanges

LEMMA EndsKeeps ==
    ASSUME QueueInv, NEW w \in Workers, Working(w),
           NEW outcome \in {"done", "error", "permanent", "interrupted"},
           Ends(w, outcome), UNCHANGED <<job, runs, troubles>>
    PROVE  QueueInv'
<1>1. worker[w] \in Process
  BY DEF QueueInv
<1>2. worker[w].lost \in BOOLEAN /\ worker[w].stopping \in BOOLEAN
  BY <1>1 DEF Process
<1>3. worker' = [worker EXCEPT ![w] =
        [worker[w] EXCEPT !.pc = outcome, !.lost = worker[w].lost, !.stopping = worker[w].stopping]]
  BY <1>1 DEF Ends, Process, QueueInv
<1>4. troubles' \in 0..MaxTroubles
  BY DEF QueueInv
<1> QED
  BY <1>2, <1>3, <1>4, MovesOn

LEMMA ExecuteKeeps == ASSUME QueueInv, NEW w \in Workers, Execute(w) PROVE QueueInv'
<1>1. PICK outcome \in Outcomes(w) : Ends(w, outcome)
  BY DEF Execute
<1>2. outcome \in {"done", "error", "permanent", "interrupted"}
  BY DEF Outcomes
<1> QED
  BY <1>1, <1>2, EndsKeeps DEF Execute, Working

\* A worker that gives up its claim without writing.
LEMMA ReleasedKeeps ==
    ASSUME QueueInv, NEW w \in Workers, Released(w), UNCHANGED <<job, runs, troubles>>
    PROVE  QueueInv'
<1>1. worker[w].stopping \in BOOLEAN
  BY DEF QueueInv, Process
<1> QED
  BY <1>1, BackInLoop, ProcessChanges DEF Released, QueueInv

\* A worker that frees its row.
LEMMA FreedKeeps ==
    ASSUME QueueInv, NEW w \in Workers, Released(w), UNCHANGED troubles, NEW j \in Jobs, NEW r, NEW n,
           GoodRow(r, n), r.by = None, job' = [job EXCEPT ![j] = r], runs' = [runs EXCEPT ![j] = n]
    PROVE  QueueInv'
<1>1. worker[w].stopping \in BOOLEAN
  BY DEF QueueInv, Process
<1> QED
  BY <1>1, BackInLoop, BothChange DEF Released

\* What a working process holds.
LEMMA HeldRow ==
    ASSUME QueueInv, NEW w \in Workers, Working(w)
    PROVE  /\ worker[w] \in Process /\ GoodProcess(worker[w]) /\ worker[w].job \in Jobs
           /\ job[worker[w].job] \in Row /\ runs[worker[w].job] = job[worker[w].job].attempts
           /\ Holds(w) => worker[w].attempts = job[worker[w].job].attempts
BY DEF QueueInv, GoodProcess, GoodRow, Working, ClaimIsRemembered

LEMMA CompleteKeeps == ASSUME QueueInv, NEW w \in Workers, Complete(w) PROVE QueueInv'
<1> DEFINE j == worker[w].job
           r == [job[j] EXCEPT !.phase = "done", !.by = None, !.age = 0]
<1>1. Working(w)
  BY DEF Complete, Working
<1>2. CASE worker[w].lost
  BY <1>1, <1>2, EndsKeeps DEF Complete
<1>3. CASE ~worker[w].lost /\ Holds(w)
  <2>1. job' = [job EXCEPT ![j] = r] /\ runs' = [runs EXCEPT ![j] = runs[j]]
    BY <1>3 DEF Complete, Completed, QueueInv
  <2>2. r \in Row /\ r.by = None /\ r.attempts = job[j].attempts
    BY <1>1, HeldRow, Bounds DEF Row
  <2>3. GoodRow(r, runs[j])
    BY <1>1, <2>2, HeldRow DEF GoodRow
  <2>4. Released(w) /\ UNCHANGED troubles /\ j \in Jobs
    BY <1>1, <1>3, HeldRow DEF Complete
  <2> HIDE DEF j, r
  <2> QED
    BY <2>1, <2>2, <2>3, <2>4, FreedKeeps
<1>4. CASE ~worker[w].lost /\ ~Holds(w)
  BY <1>4, ReleasedKeeps DEF Complete
<1> QED
  BY <1>2, <1>3, <1>4

LEMMA RecordFailureKeeps == ASSUME QueueInv, NEW w \in Workers, RecordFailure(w) PROVE QueueInv'
<1> DEFINE j == worker[w].job
<1>1. Working(w)
  BY DEF RecordFailure, Erred, Working
<1>2. CASE Holds(w) /\ ShouldFail(w)
  <2> DEFINE r == [job[j] EXCEPT !.phase = "failed", !.by = None, !.age = 0]
  <2>1. job' = [job EXCEPT ![j] = r] /\ runs' = [runs EXCEPT ![j] = runs[j]]
    BY <1>2 DEF RecordFailure, QueueInv
  <2>2. r \in Row /\ r.by = None /\ r.attempts = job[j].attempts
    BY <1>1, HeldRow, Bounds DEF Row
  <2>3. GoodRow(r, runs[j])
    BY <1>1, <2>2, HeldRow DEF GoodRow
  <2>4. Released(w) /\ UNCHANGED troubles /\ j \in Jobs
    BY <1>1, <1>2, HeldRow DEF RecordFailure
  <2> HIDE DEF j, r
  <2> QED
    BY <2>1, <2>2, <2>3, <2>4, FreedKeeps
<1>3. CASE Holds(w) /\ ~ShouldFail(w)
  <2>1. PICK delay \in RetryDelays : job' = [job EXCEPT ![j].by = None, ![j].age = 0, ![j].wait = delay]
    BY <1>3 DEF RecordFailure
  <2> DEFINE r == [job[j] EXCEPT !.by = None, !.age = 0, !.wait = delay]
  <2>2. job' = [job EXCEPT ![j] = r] /\ runs' = [runs EXCEPT ![j] = runs[j]]
    <3>1. job \in [Jobs -> Row] /\ runs \in [Jobs -> Nat] /\ runs' = runs
      BY <1>3 DEF RecordFailure, QueueInv
    <3> QED
      BY <2>1, <3>1
  <2>3. delay \in Nat
    BY JobQueueAssumption
  <2>4. r \in Row /\ r.by = None /\ r.attempts = job[j].attempts
    BY <1>1, <2>3, HeldRow, Bounds DEF Row
  <2>5. GoodRow(r, runs[j])
    BY <1>1, <2>4, HeldRow DEF GoodRow
  <2>6. Released(w) /\ UNCHANGED troubles /\ j \in Jobs
    BY <1>1, <1>3, HeldRow DEF RecordFailure
  <2> HIDE DEF j, r
  <2> QED
    BY <2>2, <2>4, <2>5, <2>6, FreedKeeps
<1>4. CASE ~Holds(w)
  BY <1>4, ReleasedKeeps DEF RecordFailure
<1> QED
  BY <1>2, <1>3, <1>4

LEMMA ReleasePausedKeeps == ASSUME QueueInv, NEW w \in Workers, ReleasePaused(w) PROVE QueueInv'
<1> DEFINE j == worker[w].job
           back == IF worker[w].attempts > 0 THEN worker[w].attempts - 1 ELSE 0
           r == [job[j] EXCEPT !.by = None, !.age = 0, !.wait = 0, !.attempts = back]
<1>1. Working(w)
  BY DEF ReleasePaused, Paused, Working
<1>2. CASE Holds(w)
  <2>1. job' = [job EXCEPT ![j] = r] /\ runs' = [runs EXCEPT ![j] = runs[j] - 1]
    <3>1. job \in [Jobs -> Row] /\ runs \in [Jobs -> Nat]
      BY DEF QueueInv
    <3>2. /\ job' = [job EXCEPT ![j].by = None, ![j].age = 0, ![j].wait = 0, ![j].attempts = back]
          /\ runs' = [runs EXCEPT ![j] = @ - 1]
      BY <1>2 DEF ReleasePaused
    <3> HIDE DEF back
    <3> QED
      BY <3>1, <3>2
  <2>2. worker[w].attempts \in 0..MaxAttempts /\ worker[w].attempts >= 1
    BY <1>1, HeldRow DEF GoodProcess, Process, Working
  <2>3. back \in 0..MaxAttempts /\ back = runs[j] - 1
    BY <1>1, <1>2, <2>2, HeldRow, JobQueueAssumption
  <2>4. r \in Row /\ r.by = None /\ r.attempts = back
    BY <1>1, <2>3, HeldRow, Bounds DEF Row
  <2>5. GoodRow(r, runs[j] - 1)
    BY <2>3, <2>4 DEF GoodRow
  <2> QED
    BY <1>1, <1>2, <2>1, <2>4, <2>5, HeldRow, FreedKeeps DEF ReleasePaused
<1>3. CASE ~Holds(w)
  BY <1>3, ReleasedKeeps DEF ReleasePaused
<1> QED
  BY <1>2, <1>3

LEMMA RenewKeeps == ASSUME QueueInv, NEW w \in Workers, Renew(w) PROVE QueueInv'
<1> DEFINE j == worker[w].job
           r == [job[j] EXCEPT !.age = 0]
<1>1. Working(w)
  BY DEF Renew
<1>2. CASE Holds(w)
  <2>1. job' = [job EXCEPT ![j] = r] /\ runs' = [runs EXCEPT ![j] = runs[j]] /\ UNCHANGED <<worker, troubles>>
    BY <1>2 DEF Renew, QueueInv
  <2>2. r \in Row /\ r.by = job[j].by /\ r.attempts = job[j].attempts /\ r.phase = job[j].phase
    BY <1>1, HeldRow, Bounds DEF Row
  <2>3. GoodRow(r, runs[j])
    BY <1>1, <2>2, HeldRow DEF GoodRow, QueueInv
  <2> QED
    BY <1>1, <1>2, <2>1, <2>2, <2>3, HeldRow, RowChanges DEF Holds, QueueInv
<1>3. CASE ~Holds(w)
  <2>1. worker[w] \in Process
    BY DEF QueueInv
  <2>2. worker' = [worker EXCEPT ![w] =
          [worker[w] EXCEPT !.pc = worker[w].pc, !.lost = TRUE, !.stopping = worker[w].stopping]]
    BY <1>3, <2>1 DEF Renew, QueueInv, Process
  <2>3. worker[w].pc \in {"run", "done", "error", "permanent", "interrupted"} /\ worker[w].stopping \in BOOLEAN
    BY <1>1, <2>1 DEF Working, Process
  <2> QED
    BY <1>1, <1>3, <2>2, <2>3, MovesOn DEF Renew, QueueInv
<1> QED
  BY <1>2, <1>3

LEMMA TroubleInBounds == ASSUME QueueInv, Trouble PROVE troubles' \in 0..MaxTroubles
BY JobQueueAssumption DEF QueueInv, Trouble

LEMMA RenewFailsKeeps == ASSUME QueueInv, NEW w \in Workers, RenewFails(w) PROVE QueueInv'
<1>1. worker[w] \in Process /\ Working(w)
  BY DEF QueueInv, RenewFails
<1>2. worker' = [worker EXCEPT ![w] =
        [worker[w] EXCEPT !.pc = worker[w].pc, !.lost = TRUE, !.stopping = worker[w].stopping]]
  BY <1>1 DEF RenewFails, QueueInv, Process
<1>3. worker[w].pc \in {"run", "done", "error", "permanent", "interrupted"} /\ worker[w].stopping \in BOOLEAN
  BY <1>1 DEF Working, Process
<1> QED
  BY <1>1, <1>2, <1>3, TroubleInBounds, MovesOn DEF RenewFails

LEMMA CrashKeeps == ASSUME QueueInv, NEW w \in Workers, Crash(w) PROVE QueueInv'
BY Restarted, TroubleInBounds, ProcessChanges DEF Crash

LEMMA RestartKeeps == ASSUME QueueInv, NEW w \in Workers, Restart(w) PROVE QueueInv'
BY Restarted, ProcessChanges DEF Restart, QueueInv

LEMMA RequestStopKeeps == ASSUME QueueInv, NEW w \in Workers, RequestStop(w) PROVE QueueInv'
<1> DEFINE p == [worker[w] EXCEPT !.stopping = TRUE]
<1>1. worker[w] \in Process /\ GoodProcess(worker[w])
  BY DEF QueueInv
<1>2. p \in Process /\ p.pc = worker[w].pc /\ p.job = worker[w].job /\ p.attempts = worker[w].attempts
  BY <1>1 DEF Process
<1>3. GoodProcess(p)
  BY <1>1, <1>2 DEF GoodProcess
<1>4. worker' = [worker EXCEPT ![w] = p] /\ UNCHANGED <<job, runs>>
  BY DEF RequestStop, QueueInv
<1>5. p.pc \in {"idle", "claim"} \/ Working(w)
  BY <1>2 DEF Working
<1> QED
  BY <1>2, <1>3, <1>4, <1>5, TroubleInBounds, ProcessChanges DEF RequestStop

LEMMA EnqueueKeeps == ASSUME QueueInv, NEW j \in Jobs, Enqueue(j) PROVE QueueInv'
<1> DEFINE r == [job[j] EXCEPT !.phase = "open"]
<1>1. job[j] \in Row /\ GoodRow(job[j], runs[j]) /\ ~(job[j].phase = "open")
  BY DEF QueueInv, Enqueue
<1>2. r \in Row /\ r.by = None /\ r.attempts = job[j].attempts
  BY <1>1 DEF Row, GoodRow
<1>3. GoodRow(r, runs[j])
  BY <1>1, <1>2 DEF GoodRow
<1>4. job' = [job EXCEPT ![j] = r] /\ runs' = [runs EXCEPT ![j] = runs[j]]
  BY DEF Enqueue, QueueInv
<1> QED
  BY <1>2, <1>3, <1>4, RowChanges DEF Enqueue, QueueInv

LEMMA RetryFailedKeeps == ASSUME QueueInv, NEW j \in Jobs, RetryFailed(j) PROVE QueueInv'
<1> DEFINE r == [job[j] EXCEPT !.phase = "open", !.wait = 0, !.attempts = 0]
<1>1. job[j] \in Row /\ GoodRow(job[j], runs[j]) /\ job[j].phase # "open"
  BY DEF QueueInv, RetryFailed
<1>2. r \in Row /\ r.by = None /\ r.attempts = 0
  BY <1>1, Bounds DEF Row, GoodRow
<1>3. GoodRow(r, 0)
  BY <1>2 DEF GoodRow
<1>4. job' = [job EXCEPT ![j] = r] /\ runs' = [runs EXCEPT ![j] = 0]
  BY DEF RetryFailed, QueueInv
<1> QED
  BY <1>2, <1>3, <1>4, TroubleInBounds, RowChanges DEF RetryFailed

LEMMA CancelJobKeeps == ASSUME QueueInv, NEW j \in Jobs, CancelJob(j) PROVE QueueInv'
<1> DEFINE r == [job[j] EXCEPT !.phase = "failed", !.by = None, !.age = 0]
<1>1. job[j] \in Row /\ GoodRow(job[j], runs[j])
  BY DEF QueueInv
<1>2. r \in Row /\ r.by = None /\ r.attempts = job[j].attempts
  BY <1>1, Bounds DEF Row
<1>3. GoodRow(r, runs[j])
  BY <1>1, <1>2 DEF GoodRow
<1>4. job' = [job EXCEPT ![j] = r] /\ runs' = [runs EXCEPT ![j] = runs[j]]
  BY DEF CancelJob, QueueInv
<1> QED
  BY <1>2, <1>3, <1>4, RowChanges DEF CancelJob, QueueInv

\* Time ages leases and delays, and touches neither holders nor attempts.
LEMMA TickKeeps == ASSUME QueueInv, Tick PROVE QueueInv'
<1>1. troubles' \in 0..MaxTroubles
  BY TroubleInBounds DEF Tick, QueueInv
<1>2. ASSUME NEW j \in Jobs
      PROVE  /\ job'[j] \in Row /\ job'[j].by = job[j].by /\ job'[j].attempts = job[j].attempts
             /\ job'[j].phase = job[j].phase
  <2>1. job[j] \in Row
    BY DEF QueueInv
  <2>2. CASE ~Open(j)
    BY <2>1, <2>2 DEF Tick
  <2>3. CASE Open(j)
    <3> DEFINE wait == IF job[j].wait > 0 THEN job[j].wait - 1 ELSE 0
               age == IF job[j].by = None THEN 0 ELSE Older(job[j].age)
    <3>1. wait \in Nat /\ age \in 0..(Lease + 1)
      BY <2>1, JobQueueAssumption DEF Row, Older
    <3>2. job'[j] = [job[j] EXCEPT !.wait = wait, !.age = age]
      BY <2>1, <2>3 DEF Tick, Row
    <3> HIDE DEF wait, age
    <3> QED
      BY <2>1, <3>1, <3>2 DEF Row
  <2> QED
    BY <2>2, <2>3
<1>3. ASSUME NEW w \in Workers
      PROVE  /\ worker'[w] \in Process /\ worker'[w].pc = worker[w].pc
             /\ worker'[w].job = worker[w].job /\ worker'[w].attempts = worker[w].attempts
  <2> DEFINE since == IF worker[w].pc = "claim" THEN Older(worker[w].since) ELSE worker[w].since
  <2>1. worker[w] \in Process
    BY DEF QueueInv
  <2>2. since \in 0..(Lease + 1)
    BY <2>1, JobQueueAssumption DEF Process, Older
  <2>3. worker'[w] = [worker[w] EXCEPT !.since = since]
    BY <2>1 DEF Tick, Process
  <2> HIDE DEF since
  <2> QED
    BY <2>1, <2>2, <2>3 DEF Process
<1>4. job' \in [Jobs -> Row]
  <2>1. job' = [j \in Jobs |-> job'[j]]
    BY DEF Tick
  <2> QED
    BY <1>2, <2>1
<1>5. worker' \in [Workers -> Process]
  <2>1. worker' = [w \in Workers |-> worker'[w]]
    BY DEF Tick
  <2> QED
    BY <1>3, <2>1
<1>6. runs' = runs
  BY DEF Tick
<1>7. \A j \in Jobs : GoodRow(job'[j], runs'[j])
  BY <1>2, <1>6 DEF QueueInv, GoodRow
<1>8. \A w \in Workers : GoodProcess(worker'[w])
  BY <1>3 DEF QueueInv, GoodProcess
<1>9. ASSUME NEW w \in Workers, Working(w)', Holds(w)'
      PROVE  worker'[w].attempts = job'[worker'[w].job].attempts
  <2>1. Working(w)
    BY <1>3, <1>9 DEF Working
  <2>2. worker[w].job \in Jobs
    BY <2>1, HeldRow
  <2>3. Holds(w)
    BY <1>2, <1>3, <1>9, <2>2 DEF Holds, Open
  <2> QED
    BY <1>2, <1>3, <2>1, <2>2, <2>3 DEF QueueInv, ClaimIsRemembered
<1> QED
  BY <1>1, <1>4, <1>5, <1>6, <1>7, <1>8, <1>9 DEF QueueInv, ClaimIsRemembered

LEMMA QueueStepKeeps == ASSUME QueueInv, [QueueNext]_queueVars PROVE QueueInv'
<1>1. CASE \E w \in Workers : WorkerStep(w)
  BY <1>1, ReadCandidateKeeps, ClaimKeeps, ExecuteKeeps, CompleteKeeps, RecordFailureKeeps, ReleasePausedKeeps
  DEF WorkerStep
<1>2. CASE \E w \in Workers : Renew(w) \/ Restart(w)
  BY <1>2, RenewKeeps, RestartKeeps
<1>3. CASE Disturbance
  BY <1>3, RenewFailsKeeps, CrashKeeps, RequestStopKeeps, EnqueueKeeps, RetryFailedKeeps, CancelJobKeeps
  DEF Disturbance
<1>4. CASE UNCHANGED queueVars
  BY <1>4 DEF queueVars, QueueInv, ClaimIsRemembered, Working, Holds, Open
<1> QED
  BY <1>1, <1>2, <1>3, <1>4, TickKeeps DEF QueueNext

\* The invariant holds throughout, whatever the workers meet.
THEOREM QueueInvariant == QueueSpec => []QueueInv
<1>1. QueueInv /\ [QueueNext]_queueVars => QueueInv'
  BY QueueStepKeeps
<1> QED
  BY InitialQueue, <1>1, PTL DEF QueueSpec

\* The table and the processes have the shape the code gives them, for any number of either.
THEOREM QueueTypes == QueueSpec => []QueueTypeOK
<1>1. QueueInv => QueueTypeOK
  BY DEF QueueInv, QueueTypeOK
<1> QED
  BY <1>1, QueueInvariant, PTL

\* A job is executed no more often than its attempts, not counting what was handed back.
THEOREM QueueExecutionsBounded == QueueSpec => []ExecutionsBounded
<1>1. QueueInv => ExecutionsBounded
  BY JobQueueAssumption DEF QueueInv, GoodRow, Row, ExecutionsBounded
<1> QED
  BY <1>1, QueueInvariant, PTL

-----------------------------------------------------------------------------
\* Every write of a worker to its job finds the row open and its own.
LEMMA WritesOwnRow ==
    ASSUME QueueInv, NEW w \in Workers, WorkerStep(w) \/ Renew(w), NEW j \in Jobs, job'[j] # job[j]
    PROVE  Open(j) /\ worker[w].job = j /\ ((Claim(w) /\ Claimable(j)) \/ (Working(w) /\ Holds(w)))
<1>0. job \in [Jobs -> Row]
  BY DEF QueueInv
<1>1. CASE ReadCandidate(w) \/ Execute(w)
  BY <1>1 DEF ReadCandidate, Execute
<1>2. CASE Claim(w)
  <2>1. CASE Claimable(worker[w].job) /\ job[worker[w].job].attempts = worker[w].attempts
    <3>1. PICK n : job' = [job EXCEPT ![worker[w].job].by = w, ![worker[w].job].age = worker[w].since,
                                      ![worker[w].job].attempts = n]
      BY <1>2, <2>1 DEF Claim
    <3>2. job'[j] = job[j] \/ worker[w].job = j
      <4> DEFINE k == worker[w].job
                 row == [job[k] EXCEPT !.by = w, !.age = worker[w].since, !.attempts = n]
      <4>1. job' = [job EXCEPT ![k] = row]
        BY <1>0, <3>1
      <4> HIDE DEF k, row
      <4> QED
        BY <1>0, <4>1 DEF k
    <3>3. worker[w].job = j
      BY <3>2
    <3>4. Claimable(j)
      BY <2>1, <3>3
    <3>5. Open(j)
      BY <3>4 DEF Claimable
    <3> QED
      BY <1>2, <3>3, <3>4, <3>5
  <2>2. CASE ~(Claimable(worker[w].job) /\ job[worker[w].job].attempts = worker[w].attempts)
    BY <1>2, <2>2 DEF Claim
  <2> QED
    BY <2>1, <2>2
<1>3. CASE Complete(w)
  BY <1>0, <1>3 DEF Complete, Completed, Holds, Working
<1>4. CASE RecordFailure(w)
  BY <1>0, <1>4 DEF RecordFailure, Erred, Holds, Working
<1>5. CASE ReleasePaused(w)
  BY <1>0, <1>5 DEF ReleasePaused, Paused, Holds, Working
<1>6. CASE Renew(w)
  BY <1>0, <1>6 DEF Renew, Holds
<1> QED
  BY <1>1, <1>2, <1>3, <1>4, <1>5, <1>6 DEF WorkerStep

\* A completed job stays, and a failed one until the staff retry it: no worker whose job was taken
\* over or canceled under it writes over how it ended.
THEOREM QueueEndedJobsStay == QueueSpec => EndedJobsStay
<1>1. ASSUME QueueInv, [QueueNext]_queueVars, NEW j \in Jobs, ~Open(j), job[j].phase # "absent"
      PROVE  job'[j] = job[j] \/ (job[j].phase = "failed" /\ RetryFailed(j))
  <2>0. job \in [Jobs -> Row]
    BY <1>1 DEF QueueInv
  <2>1. CASE \E w \in Workers : WorkerStep(w) \/ Renew(w)
    BY <1>1, <2>1, WritesOwnRow
  <2>2. CASE \E w \in Workers : Restart(w) \/ RenewFails(w) \/ Crash(w) \/ RequestStop(w)
    BY <2>2 DEF Restart, RenewFails, Crash, RequestStop
  <2>3. CASE \E i \in Jobs : Enqueue(i) \/ CancelJob(i)
    BY <1>1, <2>0, <2>3 DEF Enqueue, CancelJob, Open
  <2>4. CASE \E i \in Jobs : RetryFailed(i)
    <3>1. PICK i \in Jobs : RetryFailed(i)
      BY <2>4
    <3>2. CASE i = j
      BY <3>1, <3>2 DEF RetryFailed
    <3>3. CASE i # j
      BY <2>0, <3>1, <3>3 DEF RetryFailed
    <3> QED
      BY <3>2, <3>3
  <2>5. CASE Tick
    BY <1>1, <2>5 DEF Tick
  <2>6. CASE UNCHANGED queueVars
    BY <2>6 DEF queueVars
  <2> QED
    BY <1>1, <2>1, <2>2, <2>3, <2>4, <2>5, <2>6 DEF QueueNext, Disturbance
<1>2. QueueInv /\ [QueueNext]_queueVars
        => [\A j \in Jobs :
              /\ job[j].phase = "done" => job'[j] = job[j]
              /\ job[j].phase = "failed" => job'[j] = job[j] \/ RetryFailed(j)]_queueVars
  BY <1>1 DEF Open
<1> QED
  BY <1>2, QueueInvariant, PTL DEF QueueSpec, EndedJobsStay

\* While a lease runs, only its holder's own step or a cancellation takes the job from its holder.
THEOREM QueueLeaseIsRespected == QueueSpec => LeaseIsRespected
<1>1. ASSUME QueueInv, [QueueNext]_queueVars, NEW j \in Jobs, NEW w \in Workers,
             job[j].by = w, job[j].age <= Lease, job'[j].by # w
      PROVE  (worker[w].job = j /\ worker'[w].pc = "idle") \/ CancelJob(j)
  <2>0. job \in [Jobs -> Row] /\ worker \in [Workers -> Process] /\ w # None /\ Open(j)
    BY <1>1, JobQueueAssumption DEF QueueInv, GoodRow, Open
  <2>1. ASSUME NEW v \in Workers, WorkerStep(v) \/ Renew(v) PROVE worker[w].job = j /\ worker'[w].pc = "idle"
    <3>1. worker[v].job = j /\ Working(v) /\ Holds(v) /\ ~Claim(v)
      <4>1. Open(j) /\ worker[v].job = j /\ ((Claim(v) /\ Claimable(j)) \/ (Working(v) /\ Holds(v)))
        <5>1. job'[j] # job[j]
          BY <1>1
        <5> QED
          BY <1>1, <2>1, <5>1, WritesOwnRow
      <4>2. ~Claimable(j)
        <5>1. job[j].age \in Nat /\ Lease \in Nat
          BY <2>0, JobQueueAssumption DEF Row
        <5> QED
          BY <1>1, <2>0, <5>1 DEF Claimable
      <4> QED
        BY <4>1, <4>2 DEF Claim, Working
    <3>2. v = w
      BY <1>1, <3>1 DEF Holds
    <3>3. ~ReadCandidate(w) /\ ~Execute(w) /\ ~Renew(w)
      <4>1. job'[j].by # job[j].by
        BY <1>1
      <4>2. ~ReadCandidate(w) /\ ~Execute(w)
        BY <4>1 DEF ReadCandidate, Execute
      <4>3. ASSUME Renew(w) PROVE FALSE
        <5>1. job' = [job EXCEPT ![j].age = 0]
          BY <3>1, <3>2, <4>3 DEF Renew
        <5> QED
          BY <2>0, <4>1, <5>1 DEF Row
      <4> QED
        BY <4>2, <4>3
    <3>4. CASE Complete(w)
      BY <1>1, <2>0, <3>1, <3>2, <3>4 DEF Complete, Released, Idle
    <3>5. CASE RecordFailure(w)
      BY <2>0, <3>1, <3>2, <3>5 DEF RecordFailure, Released, Idle
    <3>6. CASE ReleasePaused(w)
      BY <2>0, <3>1, <3>2, <3>6 DEF ReleasePaused, Released, Idle
    <3> QED
      BY <2>1, <3>1, <3>2, <3>3, <3>4, <3>5, <3>6 DEF WorkerStep
  <2>2. ~\E v \in Workers : Restart(v) \/ RenewFails(v) \/ Crash(v) \/ RequestStop(v)
    BY <1>1 DEF Restart, RenewFails, Crash, RequestStop
  <2>3. ~\E i \in Jobs : Enqueue(i) \/ RetryFailed(i)
    BY <1>1, <2>0 DEF Enqueue, RetryFailed, Open
  <2>4. ASSUME NEW i \in Jobs, CancelJob(i) PROVE CancelJob(j)
    BY <1>1, <2>0, <2>4 DEF CancelJob
  <2>5. ~Tick
    <3>1. ASSUME Tick PROVE job'[j].by = job[j].by
      BY <2>0, <3>1 DEF Tick, Row
    <3> QED
      BY <1>1, <3>1
  <2>6. ~UNCHANGED queueVars
    BY <1>1 DEF queueVars
  <2> QED
    BY <1>1, <2>1, <2>2, <2>3, <2>4, <2>5, <2>6 DEF QueueNext, Disturbance
<1>2. QueueInv /\ [QueueNext]_queueVars
        => [\A j \in Jobs, w \in Workers :
              (job[j].by = w /\ job[j].age <= Lease /\ job'[j].by # w)
                => (worker[w].job = j /\ worker'[w].pc = "idle") \/ CancelJob(j)]_queueVars
  BY <1>1
<1> QED
  BY <1>2, QueueInvariant, PTL DEF QueueSpec, LeaseIsRespected

=============================================================================
