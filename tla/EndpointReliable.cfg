SPECIFICATION Spec
CONSTANTS
  c1 = c1
  c2 = c2
  c3 = c3
  la = la
  lb = lb
  lc = lc
  l1 = l1
  l2 = l2
  NoLabel = NoLabel
  ConnIds <- Clients
  Labels <- ClientLabels
  Links <- ClientLinks
  Prefixes <- OnePrefix
  InterfaceName <- Names
  WorkspaceDefined = TRUE
  Requests <- ApartRequests
  Configs <- AllConfigs
  SendOutcomes = {TRUE}
INVARIANTS ConnectionHasInterface NoStrayInterface
PROPERTIES ServiceSpec
