SPECIFICATION Spec
CONSTANTS
  Processes <- MCProcesses
  AgentPid = 10
  OwnPids <- InitialNamespace
  Garbling <- Quote
  Addresses <- MCAddresses
  Ports <- MCPorts
  Server <- Nginx
INVARIANTS
  NoFeedback
\* One operation, then the end.
CHECK_DEADLOCK FALSE
