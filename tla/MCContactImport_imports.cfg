SPECIFICATION FairImportSpec
CONSTANTS
  w1 = w1
  w2 = w2
  import = import
  row1 = row1
  row2 = row2
  None = None
  Workers <- TheWorkers
  Jobs <- TheJobs
  Reports = {}
  Imports <- TheJobs
  Sweeps = {}
  Retryable <- TheJobs
  ImportJob = import
  Rows <- TheRows
  ChunkSize = 2
  MaxAttempts = 2
  Lease = 1
  RetryDelays = {1}
  MaxTroubles = 1
INVARIANTS
  ImportTypeOK
  RowsApplyOnce
  JobAndBatchAgree
  ExecutionsBounded
PROPERTIES
  KeepsPromise
  RefinesQueue
  EndedJobsStay
  LeaseIsRespected
  EveryJobEnds
  EveryImportEnds
CHECK_DEADLOCK FALSE
