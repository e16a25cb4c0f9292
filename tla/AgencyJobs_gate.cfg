\* Two workers; one loss: a worker dies, or stalls past its lease and comes back.
SPECIFICATION Spec
CONSTANTS
  Workers = {w1, w2}
  ResumeKeys = {k1}
  CreateKey = k0
  MaxAttempts = 2
  MaxJobs = 2
  MaxGens = 3
  MaxLosses = 1
  MaxUpsets = 0
INVARIANT DeliveredApproved
CHECK_DEADLOCK FALSE
