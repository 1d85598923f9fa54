SPECIFICATION Spec
CONSTANTS
  A = A
  B = B
  c1 = c1
  c2 = c2
  c3 = c3
  l1 = l1
  NoLabel = NoLabel
  NoCall = NoCall
  NoValue = NoValue
  ConnIds <- ThreeClients
  Labels <- NoLabels
  Links <- OneLink
  Prefixes <- SomePrefixes
  InterfaceName <- Names
  Requests <- AllRequests
  WorkspaceDefined = TRUE
  SendOutcomes = {TRUE}
  Agents <- TwoAgents
  ProgramOf <- Programs
  Services <- SomeServices
  AgentOf <- Home
  ServiceConfig <- Configs
  ServiceOf <- UsedService
  ConnectionOf <- Connections
  InterfaceOf <- ClientInterfaces
  Configured <- FirstConfiguration
  MaxCalls = 2
  MaxChanges = 2
PROPERTY InterfaceCreated
CHECK_DEADLOCK FALSE
