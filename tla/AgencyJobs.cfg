\* Two workers; one loss: a worker dies, or stalls past its lease and comes back.
SPECIFICATION FairSpec
CONSTANTS
  Workers = {w1, w2}
  ResumeKeys = {k1}
  CreateKey = k0
  MaxAttempts = 2
  MaxJobs = 2
  MaxGens = 3
  MaxLosses = 1
  MaxUpsets = 1
INVARIANTS TypeOK DegradedNeverDelivered DeliveryAuthorised
PROPERTIES JobsKeepLedger SettledByHolder JobsSettle
