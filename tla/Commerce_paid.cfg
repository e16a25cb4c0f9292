SPECIFICATION Spec
CONSTANTS
  Clicks = {c1}
  Handlers = {h1}
  Deliveries = {x1}
  Sweepers = {s1}
  MaxFaults = 1
  MaxClaims = 0
  Gross = 2000
  Rate = 500
  Cut = 80
INVARIANT NeverPaidTwice
CHECK_DEADLOCK FALSE
