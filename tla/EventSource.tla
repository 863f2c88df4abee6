---------------------------- MODULE EventSource ----------------------------
(***************************************************************************)
(* What the agent relies on in a collector (BaseCollector, CollectorContext*)
(* of collector.py): start() creates threads and starts them, one of them  *)
(* calls on_event, one call at a time, and after stop() makes at most the  *)
(* call it was about to make.  Agent is built from these actions;          *)
(* KernelCollector is shown to implement them.                             *)
(***************************************************************************)
CONSTANT Collectors  \* the collectors in use (--use-demo-collector)

AllCollectors == {"kernel", "demo"}

VARIABLES collector,  \* where start() and stop() have got
          dispatch    \* the thread that calls on_event

sourceVars == <<collector, dispatch>>

SourceTypeOK ==
  /\ collector \in {"off", "creating", "starting", "stopped"} \cup AllCollectors
  /\ dispatch \in {"top", "get", "put"}

SourceInit == collector = "off" /\ dispatch = "top"

\* start(), up to the creation of the threads.
CreateThreads ==
  /\ collector = "off" /\ collector' = "creating"
  /\ UNCHANGED dispatch

\* The thread that calls on_event is started, and then, by the kernel
\* collector, the last of its other threads.
RunThreads ==
  /\ \/ collector = "creating" /\ "demo" \in Collectors /\ collector' = "demo"
     \/ collector = "creating" /\ "kernel" \in Collectors /\ collector' = "starting"
     \/ collector = "starting" /\ collector' = "kernel"
  /\ UNCHANGED dispatch

\* A thread that is created and not started cannot be joined.
Incomplete == collector \in {"creating", "starting"}

\* What stop() has set when it returns.
Stopped ==
  IF collector \in AllCollectors \cup {"starting"} THEN "stopped" ELSE collector

\* The kernel collector's loop tests _stop, then waits for an event; Empty
\* takes it back to the test.
Poll ==
  /\ dispatch = "top" /\ collector \in {"starting", "kernel"} /\ dispatch' = "get"
  /\ UNCHANGED collector

PollEmpty ==
  /\ dispatch = "get" /\ dispatch' = "top"
  /\ UNCHANGED collector

\* The thread has an event and calls on_event.
Call ==
  /\ dispatch = "get" /\ dispatch' = "put"
  /\ UNCHANGED collector

\* The demo collector tests _stop and calls on_event with an event it makes
\* up; it sleeps before the next test.
DemoCall ==
  /\ dispatch = "top" /\ collector = "demo" /\ dispatch' = "put"
  /\ UNCHANGED collector

\* on_event returns.
Return ==
  /\ dispatch = "put" /\ dispatch' = "top"
  /\ UNCHANGED collector

Stop == collector' = Stopped /\ UNCHANGED dispatch

SourceNext ==
  \/ CreateThreads \/ RunThreads \/ Stop
  \/ Poll \/ PollEmpty \/ Call \/ DemoCall \/ Return

SourceSpec == SourceInit /\ [][SourceNext]_sourceVars
=============================================================================
