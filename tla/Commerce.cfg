SPECIFICATION Spec
CONSTANTS
  Clicks = {c1, c2}
  Handlers = {h1, h2}
  Deliveries = {x1}
  Sweepers = {s1, s2}
  MaxFaults = 1
  MaxClaims = 1
  Gross = 2000
  Rate = 500
  Cut = 80
INVARIANTS TypeOK OneCommissionPerPayment ClaimsExclusive ReversedOncePerEvent CheckoutsExclusive
PROPERTIES AccountKept
CHECK_DEADLOCK FALSE
SYMMETRY Interchangeable
