SPECIFICATION Spec
CONSTANTS
  Jobs = {j1}
  Workers = {w1, w2}
  NoWorker = NoWorker
  NoJob = NoJob
  RecurringJobs = {j1}
  ApprovalJobs = {j1}
  RenderJobs = {}
  Envs = {e1}
  MaxAttempts = 2
  MaxTick = 2
  MaxToken = 3
INVARIANTS TypeOK FenceExclusive HolderKnowsRow HolderKnowsJournal CountedTicksCommitted EffectsFollowIntent ReceiptsAdvance
PROPERTIES StopIsFinal ExpiredLeaseIsDead LedgerSpec
CHECK_DEADLOCK FALSE
