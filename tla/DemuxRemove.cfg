SPECIFICATION Spec
CONSTANTS
  c1 = c1
  c2 = c2
  c3 = c3
  la = la
  lb = lb
  lc = lc
  l1 = l1
  NoLabel = NoLabel
  None = None
  ConnIds <- Clients
  Labels <- ClientLabels
  Links <- ClientLinks
  Prefixes <- SomePrefixes
  InterfaceName <- Names
  Services <- TwoServices
  Values <- TwoServiceValues
  NetworkService <- ServiceOf
  Requests <- LabelledRequests
  WorkspaceDefined = TRUE
  Publishing = TRUE
  SendOutcomes = {TRUE}
  Faults = {"remove"}
  MaxFaults = 1
  MaxChanges = 3
INVARIANT OneRegistrationPerService
CHECK_DEADLOCK FALSE
