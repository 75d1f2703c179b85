\* Two goroutines that sign in, enroll, verify and disable, against a threshold of one.
SPECIFICATION TimedSpec
CONSTANTS
  h1 = h1
  h2 = h2
  Handlers <- Both
  Kinds <- Everything
  IPs = {"a"}
  Passwords = {TRUE, FALSE}
  Secrets = {s1, s2}
  NoSecret = NoSecret
  MaxLoginAttempts = 1
  Require2FA = FALSE
  Lockout = 1
  SessionTTL = 0
  PurgeAge = 1
  CapAge = 2
  MaxAttempts = 3
  MaxSessions = 1
INVARIANTS TypeOK ActiveWasVerified TwoFactorHolds FailuresBounded
PROPERTIES LockoutKept LockoutEnds
