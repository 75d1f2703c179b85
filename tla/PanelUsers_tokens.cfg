\* Tokens are issued and revoked while roles change and accounts go.
SPECIFICATION AccountsSpec
CONSTANTS
  h1 = h1
  h2 = h2
  Handlers <- Both
  Kinds <- TokensAndRoles
  Names = {"ann", "bob"}
  Passwords = {"p"}
  OIDCRole = "viewer"
  Browsers = {"b1", "b2"}
  StateIds = {1, 2, 3}
  CodeIds = {1, 2}
  MaxUsers = 2
  MaxSessions = 2
  MaxTokens = 2
INVARIANTS NoDanglingOwner PrivilegeTraced
PROPERTIES AdminsKept
CHECK_DEADLOCK FALSE
