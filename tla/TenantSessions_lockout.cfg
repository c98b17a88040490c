\* One person who forgets the password.
SPECIFICATION Spec
CONSTANTS
  Requests = {r1}
  Browsers = {b1}
  Sessions = {s1}
  MaxAttempts = 5
  MaxLost = 0
  NoSession = NoSession
PROPERTY LockedAccountIsUnlocked
