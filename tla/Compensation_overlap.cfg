\* Two requests at a time, any number of them in all; two dates and two amounts.
SPECIFICATION Spec
CONSTANTS
  Requests = {r1, r2}
  Rows = {c1, c2}
  Dates <- TwoDates
  Amounts = {low, high}
  None = None
  Keep = Keep
SYMMETRY Interchangeable
INVARIANTS TypeOK NewestIsCurrent OnlyLateRowsLinger
