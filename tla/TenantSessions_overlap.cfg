\* Two requests, browsers and sessions; the account locks after two failures.
SPECIFICATION Spec
CONSTANTS
  Requests = {r1, r2}
  Browsers = {b1, b2}
  Sessions = {s1, s2}
  MaxAttempts = 2
  MaxLost = 1
  NoSession = NoSession
INVARIANTS TypeOK GuessesBounded
PROPERTIES RevokeAllEndsEverySession RevokedSessionDies
