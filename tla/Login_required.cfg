\* security.require_2fa with an account that is not enrolled.
SPECIFICATION UserSpec
CONSTANTS
  h1 = h1
  h2 = h2
  Handlers <- Both
  Kinds <- LoginAndEnroll
  IPs = {"a"}
  Passwords = {TRUE}
  Secrets = {s1}
  NoSecret = NoSecret
  MaxLoginAttempts = 0
  Require2FA = TRUE
  Lockout = 0
  SessionTTL = 0
  PurgeAge = 0
  CapAge = 1
  MaxAttempts = 2
  MaxSessions = 1
PROPERTIES EnrollmentForced
