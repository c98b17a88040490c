SPECIFICATION Spec
CONSTANTS
  Payments = {p1}
  Workers = {w1, w2}
  Due = {p1}
  MaxRetries = 2
  ManualStatuses = {"pending", "processing", "processed", "failed", "cancelled", "reconciled"}
  ManualCounts = {0, 2}
  MaxFailures = 2
  MaxOpenings = 2
  MaxGranted = 2
SYMMETRY Interchangeable
INVARIANTS TypeOK PaidOncePerOpening RetryBudget
PROPERTY ScheduledJobFailsNoPaidPayment
