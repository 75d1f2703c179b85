\* Any two requests at once on one text or archive, failures and crashes.
SPECIFICATION Spec
CONSTANTS
  h1 = h1
  h2 = h2
  Handlers <- Both
  Entries = {"e1", "e2"}
  MaxTable = 4
  MaxLines = 5
  Keys = {"k1", "k2"}
  BackupNames = {"n"}
  MaxSecond = 1
  MaxRows = 3
  Specs = {"22/tcp", "from 10.0.0.0/8"}
  BothStacks = {"22/tcp"}
  Connections = {"home", "office"}
  Addresses = {"address"}
  Gateways = {"gateway"}
  Servers = {"server"}
  MaxPairs = 4
  Names = {"n"}
  Passwords = {"p", "q"}
  AccountKeys = {"k"}
  MaxAccounts = 3
  NumPages = 2
  MaxCommits = 3
INVARIANTS TypeOK CrontabAsAsked KeysAsAsked ListedOnDisk RestoresCommitted RulesAsAsked LiveIsStored PairKept OpensAsAsked
SYMMETRY Symmetry
CHECK_DEADLOCK FALSE
