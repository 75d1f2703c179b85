\* Two goroutines that both delete and demote.
SPECIFICATION AccountsSpec
CONSTANTS
  h1 = h1
  h2 = h2
  Handlers <- Both
  Kinds <- BothRemove
  Names = {"ann", "bob"}
  Passwords = {"p"}
  OIDCRole = "viewer"
  Browsers = {"b1", "b2"}
  StateIds = {1, 2, 3}
  CodeIds = {1, 2}
  MaxUsers = 3
  MaxSessions = 2
  MaxTokens = 0

PROPERTIES AdminsKept
CHECK_DEADLOCK FALSE
