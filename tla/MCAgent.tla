------------------------------ MODULE MCAgent ------------------------------
EXTENDS AgentProps

\* Without the heartbeat endpoint the heartbeat thread, on which nothing else
\* depends, dies of its first request.
NoHeartbeats == AllEndpoints \ {"heartbeat"}

KernelOnly == {"kernel"}
BothCollectors == {"kernel", "demo"}

NoFaults == {}
PromptFaults == AllFaults \ {"late"}
LateFaults == {"timeout", "late"}
\* What can befall the event stream.
StreamFaults == AllFaults \ {"heartbeat"}
BeatFaults == {"heartbeat"}
LiveFaults == {"timeout", "reject", "startup", "heartbeat", "collector"}
=============================================================================
