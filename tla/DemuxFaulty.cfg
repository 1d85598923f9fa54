SPECIFICATION Spec
CONSTANTS
  c1 = c1
  c2 = c2
  c3 = c3
  la = la
  lb = lb
  lc = lc
  l1 = l1
  NoLabel = NoLabel
  None = None
  ConnIds <- Clients
  Labels <- ClientLabels
  Links <- ClientLinks
  Prefixes <- SomePrefixes
  InterfaceName <- Names
  Services <- TwoServices
  Values <- TwoServiceValues
  NetworkService <- ServiceOf
  Requests <- LabelledRequests
  WorkspaceDefined = TRUE
  Publishing = TRUE
  SendOutcomes = {TRUE}
  Faults = {"connect", "init", "cleanup", "listen", "register", "registerReply", "close", "remove", "removeReply", "put", "restart"}
  MaxFaults = 2
  MaxChanges = 3
INVARIANTS TypeOK AppliedIsServed NotificationIsServed
PROPERTIES Converges
CHECK_DEADLOCK FALSE
