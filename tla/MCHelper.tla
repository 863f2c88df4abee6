------------------------------ MODULE MCHelper ------------------------------
EXTENDS RingbufHelper

\* The loop meets every kind of program, the second direction after the first.
AllPrograms == <<"linked", "other", "ingress", "egress">>

EventsAndNoise == {"event", "noise"}

\* No failing poll: it would end the helper where only the timeout should.
SetupFaults == {"setup", "attach"}
=============================================================================
