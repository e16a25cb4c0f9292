SPECIFICATION FairSpec
CONSTANTS
  Jobs = {j1}
  Workers = {w1, w2}
  NoWorker = NoWorker
  NoJob = NoJob
  RecurringJobs = {}
  ApprovalJobs = {j1}
  RenderJobs = {j1}
  Envs = {e1, e2}
  MaxAttempts = 3
  MaxTick = 1
  MaxToken = 3
INVARIANTS RetriesAreNew RenderedOnce AwaitedApprovalExists
PROPERTIES StoppedRenderAcceptsNothing InterruptedTickMovesOn
CHECK_DEADLOCK FALSE
