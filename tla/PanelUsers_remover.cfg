\* One goroutine deletes and demotes while another does everything else, or creates.
SPECIFICATION SideSpec
CONSTANTS
  h1 = h1
  h2 = h2
  Handlers <- Both
  Kinds <- OneRemover
  Names = {"ann", "bob", "cat"}
  Passwords = {"p"}
  OIDCRole = "viewer"
  Browsers = {"b1", "b2"}
  StateIds = {1, 2, 3}
  CodeIds = {1, 2}
  MaxUsers = 3
  MaxSessions = 1
  MaxTokens = 0
INVARIANTS TypeOK SameAccount RoundTrip StateKept
PROPERTIES AtomicTable
CHECK_DEADLOCK FALSE
