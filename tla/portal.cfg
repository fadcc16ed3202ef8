CONSTANTS
  x1 = x1
  x2 = x2
  nobody = nobody
  Groups = {"g1", "g2"}
  Lines = {"l1", "l2", "l3"}
  Patterns <- TwoGroups
  Blocks = {"l3"}
  Order <- InOrder
  Documents <- TwoDocs
  Generated <- FromCode
  Requests <- Asked
  Hosts = {"host"}
  MaxOps = 2
  MaxFaults = 1
  Addrs = {"a1", "a2", "ap"}
  Keys = {"sw", "sw-a1", "sw-a2"}
  Importable = {"a1", "a2"}
  FirstKey <- SameName
  OtherKey <- WithAddress
  Lists <- Staged
  Pages = {"t1"}
  Workers = {"w1"}
  MaxRows = 2
  MaxPages = 2
  MaxRestarts = 1
  Changes = {"c1"}
  Users = {"alice", "bob"}
  Emails = {"e1"}
  Clicks = {x1, x2}
  Rank <- ByAction
  Cap = 1
  NoUser = "nobody"
  MaxClicks = 3
  MaxLinks = 1
  MaxCrashes = 1
  Names = {"h", "k"}
  Entries <- AllEntries
  Inventories <- Saved
  Nobody = nobody
  Calls <- ToolCalls
  Segments <- Segmented
  CliWords = {"show", "show run"}
  OneLine <- Lined
  FullConfig = {"show run"}
  SecretPaths = {"cat key"}
  Outside = {"../f"}
  TooBig = {}
  HealthChecks = 2
  MaxCalls = 1
  MaxEdits = 2
SPECIFICATION MCSpec
INVARIANTS
  TypesOK
  ImportedHasLogin NoOrphanSecrets ServerFresh
  DecidedOnce
  AccessOfTheTime DenyEnforced
  RunsAsConfigured
PROPERTIES
  ImportMerges
  SpentLinksRefused
  DeployKeepsAccess
SYMMETRY EqualThreads
\* Every part has bounds on what it may do.
CHECK_DEADLOCK FALSE
