---------------------------- MODULE MCCollector ----------------------------
EXTENDS CollectorProps

\* The programs of the repository's object: two tracepoints and a kretprobe,
\* and one that the helper skips.
Repository == <<"linked", "linked", "other", "linked">>
OneProgram == <<"linked">>

NoFaults == {}
OnlyEvents == {"event"}
EventsAndUndecodable == {"event", "undecodable"}
KillOnly == {"kill"}
SetupOnly == {"setup"}
=============================================================================
