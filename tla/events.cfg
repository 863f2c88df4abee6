SPECIFICATION FairSpec
CONSTANTS
  Processes <- MCProcesses
  AgentPid = 10
  OwnPids <- AnyNamespace
  Garbling <- Quote
  Addresses <- MCAddresses
  Ports <- MCPorts
  Server <- TestServer
INVARIANTS
  ReportedOnce
  OwnTrafficUnreported
PROPERTIES
  OthersReported
\* One operation, then the end.
CHECK_DEADLOCK FALSE
