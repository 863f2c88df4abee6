-------------------------- MODULE KernelCollector --------------------------
(***************************************************************************)
(* collector.py: the KernelCollector inside the agent process, composed    *)
(* with the helper it runs.  main is the agent's main thread in start(),   *)
(* the signal handler and stop(); reader, dispatch and stderr are the      *)
(* collector's threads; on_event, the agent's enqueue_event, may block.    *)
(***************************************************************************)
EXTENDS RingbufHelper

CONSTANTS FailOpen,    \* ~ --no-fail-open
          MaxSignals,  \* bound: SIGINT and SIGTERM
          Faults       \* what may go wrong in the agent

AllFaults == {"start",   \* start() finds no helper, or cannot execute it
              "crash"}   \* the agent is killed

ASSUME CollectorAssumption ==
  /\ FailOpen \in BOOLEAN
  /\ MaxSignals \in Nat
  /\ Faults \subseteq AllFaults

VARIABLES main, signals,   \* the agent's main thread
          owned,           \* _proc is assigned
          stopping,        \* the _stop event
          over,            \* poll() reports the exit of the helper
          reader,          \* the thread that reads the helper's output
          chunk,           \* lines readline() has decoded and not yet returned
          events,          \* the collector's own queue, unbounded
          dispatch, hand,  \* the dispatch thread and the event it holds
          received,        \* history: the events on_event has taken
          stderr           \* the thread that reads the helper's errors

agentVars == <<main, signals, owned, stopping, over>>
threadVars == <<reader, chunk, events, dispatch, hand, received, stderr>>
vars == <<helperVars, agentVars, threadVars>>

Placeholder == [n |-> 0, kind |-> "placeholder"]
QueuedEvent == Event \cup {Placeholder}

Starting == {"start", "popen", "create", "startReader", "startDispatch",
             "startStderr", "placeholder"}
Joining == {"joinReader", "joinDispatch", "joinStderr"}
Stopping == {"stopSet", "terminate", "wait"} \cup Joining
Ended == {"exited", "raised", "killed"}
Alive == main \notin Ended
ThreadStates == {"none", "created", "top", "read", "get", "put", "ended", "dead"}

\* Every variable has its type; the dispatch thread holds an event exactly
\* while it is in on_event.
TypeOK ==
  /\ main \in Starting \cup Stopping \cup Ended \cup {"pause", "stuck"}
  /\ signals \in 0..MaxSignals
  /\ owned \in BOOLEAN /\ stopping \in BOOLEAN /\ over \in BOOLEAN
  /\ {reader, dispatch, stderr} \subseteq ThreadStates
  /\ chunk \in Seq(Event) /\ events \in Seq(QueuedEvent)
  /\ hand \in Seq(QueuedEvent) /\ Len(hand) = (IF dispatch = "put" THEN 1 ELSE 0)
  /\ received \in Seq(QueuedEvent)

Init ==
  /\ HelperInit
  /\ main = "start" /\ signals = 0 /\ owned = FALSE /\ stopping = FALSE
  /\ over = FALSE
  /\ reader = "none" /\ dispatch = "none" /\ stderr = "none"
  /\ chunk = <<>> /\ events = <<>> /\ hand = <<>> /\ received = <<>>

-----------------------------------------------------------------------------
(* The main thread: start() *)

\* The agent is over: its threads and its end of the pipe are gone.
End(how) == main' = how /\ readEnd' = FALSE

\* CollectorError is tolerated when the agent fails open, OSError is not.
StartFails ==
  /\ main = "start" /\ "start" \in Faults
  /\ \/ FailOpen /\ main' = "pause" /\ UNCHANGED readEnd
     \/ End("raised")
  /\ UNCHANGED <<signals, owned, stopping, over, threadVars, helper, status, stop,
                 setupVars, kernelVars, pipe>>

\* Inside Popen the helper runs and _proc is not yet assigned.
Popen ==
  /\ main = "start"
  /\ main' = "popen"
  /\ RunHelper
  /\ UNCHANGED <<signals, owned, stopping, over, threadVars>>

Starts ==
  /\ \/ /\ main = "popen" /\ main' = "create"
        /\ owned' = TRUE
        /\ UNCHANGED <<reader, dispatch, stderr>>
     \/ /\ main = "create" /\ main' = "startReader"
        /\ reader' = "created" /\ dispatch' = "created" /\ stderr' = "created"
        /\ UNCHANGED owned
     \/ /\ main = "startReader" /\ main' = "startDispatch"
        /\ reader' = "top"
        /\ UNCHANGED <<owned, dispatch, stderr>>
     \/ /\ main = "startDispatch" /\ main' = "startStderr"
        /\ dispatch' = "top"
        /\ UNCHANGED <<owned, reader, stderr>>
     \/ /\ main = "startStderr" /\ main' = "placeholder"
        /\ stderr' = "top"
        /\ UNCHANGED <<owned, reader, dispatch>>
  /\ UNCHANGED <<signals, stopping, over, chunk, events, hand, received, helperVars>>

PutPlaceholder ==
  /\ main = "placeholder" /\ main' = "pause"
  /\ events' = Append(events, Placeholder)
  /\ UNCHANGED <<signals, owned, stopping, over, reader, chunk, dispatch, hand,
                 received, stderr, helperVars>>

-----------------------------------------------------------------------------
(* The main thread: the signal handler and stop() *)

\* Mutant: poll() is never asked.
NeverOver == FALSE

\* What poll() reports, and what wait() waits for.
HelperOver == over

\* A signal inside Event.set(), here that of the agent's _stop or of the
\* collector's, leads to a second set() on the same thread, which waits for
\* the first one's lock for ever.
Signal ==
  /\ Alive /\ signals < MaxSignals
  /\ signals' = signals + 1
  /\ \/ main # "stuck" /\ main' = "stopSet" /\ UNCHANGED stopping
     \/ main = "stopSet" /\ main' = "stuck" /\ stopping' \in {stopping, TRUE}
     \/ main = "stuck" /\ UNCHANGED <<main, stopping>>
  /\ UNCHANGED <<owned, over, threadVars, helperVars>>

StopSet ==
  /\ main = "stopSet"
  /\ stopping' = TRUE
  /\ main' = IF owned THEN "terminate" ELSE "joinReader"
  /\ UNCHANGED <<signals, owned, over, threadVars, helperVars>>

TerminateHelper ==
  /\ main = "terminate" /\ main' = "wait"
  /\ IF helper = "ended" THEN UNCHANGED helperVars ELSE Terminate
  /\ UNCHANGED <<signals, owned, stopping, over, threadVars>>

\* Mutant: nothing is done when the wait times out.
LeaveHelper == UNCHANGED helperVars

\* The two seconds are over: kill(), which does nothing to a helper that is
\* just exiting.
KillHelper == IF helper = "ended" THEN UNCHANGED helperVars ELSE Kill

WaitForHelper ==
  /\ main = "wait" /\ main' = "joinReader"
  /\ \/ HelperOver /\ UNCHANGED helperVars
     \/ ~HelperOver /\ KillHelper
  /\ UNCHANGED <<signals, owned, stopping, over, threadVars>>

\* A join ends with its thread or after two seconds; that of a thread which
\* was never started raises RuntimeError.  What stop() of the agent does
\* after this, and the exit, change nothing here but the end of the process.
Join(pc, thread, next) ==
  /\ main = pc
  /\ \/ thread = "created" /\ End("raised")
     \/ thread # "created" /\ next \in Joining /\ main' = next /\ UNCHANGED readEnd
     \/ thread # "created" /\ next \in Ended /\ End(next)
  /\ UNCHANGED <<signals, owned, stopping, over, threadVars, helper, status, stop,
                 setupVars, kernelVars, pipe>>

JoinThreads ==
  \/ Join("joinReader", reader, "joinDispatch")
  \/ Join("joinDispatch", dispatch, "joinStderr")
  \/ Join("joinStderr", stderr, "exited")

Crash ==
  /\ "crash" \in Faults /\ Alive
  /\ End("killed")
  /\ UNCHANGED <<signals, owned, stopping, over, threadVars, helper, status, stop,
                 setupVars, kernelVars, pipe>>

-----------------------------------------------------------------------------
(* The reader thread *)

\* Mutant: the loop ends with the helper, before the pipe is drained.
ReaderTopPolls ==
  /\ Alive /\ reader = "top"
  /\ reader' = IF stopping \/ HelperOver THEN "ended" ELSE "read"
  /\ UNCHANGED <<agentVars, chunk, events, dispatch, hand, received, stderr, helperVars>>

ReaderTop ==
  /\ Alive /\ reader = "top"
  /\ reader' = IF stopping THEN "ended" ELSE "read"
  /\ UNCHANGED <<agentVars, chunk, events, dispatch, hand, received, stderr, helperVars>>

\* Mutants: a queue with a bound; a line read after stop() is dropped.
QueueBounded == Len(events) < 1
TakenUnlessStopping(event) == event.kind = "event" /\ ~stopping

QueueUnbounded == TRUE

\* What is left of json.loads, the event filter and the check of the pid.
Taken(event) == event.kind = "event"

\* readline() decodes all that one read of the pipe returns.  A line that is
\* not UTF-8 raises out of the loop, and takes with it the lines of the chunk
\* that come before it.
Decodes(lines) == \A i \in DOMAIN lines : lines[i].kind # "undecodable"

FetchChunk ==
  /\ Alive /\ reader = "read" /\ chunk = <<>>
  /\ \E k \in 1..Len(pipe) :
       LET lines == SubSeq(pipe, 1, k)
       IN  /\ pipe' = SubSeq(pipe, k + 1, Len(pipe))
           /\ \/ Decodes(lines) /\ chunk' = lines /\ UNCHANGED reader
              \/ ~Decodes(lines) /\ reader' = "dead" /\ UNCHANGED chunk
  /\ UNCHANGED <<agentVars, events, dispatch, hand, received, stderr, helper,
                 status, stop, setupVars, kernelVars, readEnd>>

\* readline() returns a line, and emit_raw() queues what is left of it.
ReadEvent ==
  /\ Alive /\ reader = "read" /\ chunk # <<>> /\ QueueUnbounded
  /\ chunk' = Tail(chunk)
  /\ events' = IF Taken(Head(chunk)) THEN Append(events, Head(chunk)) ELSE events
  /\ reader' = "top"
  /\ UNCHANGED <<agentVars, dispatch, hand, received, stderr, helperVars>>

\* readline() returns "": the helper's end of the pipe is closed, which its
\* exit does before poll() reports it; until then the loop goes on.
ReadEnd ==
  /\ Alive /\ reader = "read" /\ chunk = <<>> /\ pipe = <<>> /\ helper = "ended"
  /\ reader' = IF HelperOver THEN "ended" ELSE "top"
  /\ UNCHANGED <<agentVars, chunk, events, dispatch, hand, received, stderr, helperVars>>

-----------------------------------------------------------------------------
(* The dispatch thread *)

\* Mutant: the loop does not look at _stop.
DispatchTopUnstopped ==
  /\ Alive /\ dispatch = "top"
  /\ dispatch' = "get"
  /\ UNCHANGED <<agentVars, reader, chunk, events, hand, received, stderr, helperVars>>

DispatchTop ==
  /\ Alive /\ dispatch = "top"
  /\ dispatch' = IF stopping THEN "ended" ELSE "get"
  /\ UNCHANGED <<agentVars, reader, chunk, events, hand, received, stderr, helperVars>>

\* Mutant: no continue after Empty.
CallsAnyway == dispatch' = "put"

Continues == dispatch' = "top"

\* queue.get(): an event, or Empty after half a second.
DispatchGet ==
  /\ Alive /\ dispatch = "get"
  /\ \/ /\ events # <<>>
        /\ hand' = <<Head(events)>> /\ events' = Tail(events)
        /\ dispatch' = "put"
     \/ /\ events = <<>>
        /\ Continues
        /\ UNCHANGED <<hand, events>>
  /\ UNCHANGED <<agentVars, reader, chunk, received, stderr, helperVars>>

\* The agent's enqueue_event, which may never return.
OnEvent ==
  /\ Alive /\ dispatch = "put"
  /\ received' = received \o hand
  /\ hand' = <<>>
  /\ dispatch' = "top"
  /\ UNCHANGED <<agentVars, reader, chunk, events, stderr, helperVars>>

\* The thread that prints the helper's errors ends as the reader does.
StderrStep ==
  /\ Alive
  /\ \/ stderr = "top" /\ stderr' = IF stopping THEN "ended" ELSE "read"
     \/ stderr = "read" /\ stderr' = IF HelperOver THEN "ended" ELSE "top"
  /\ UNCHANGED <<agentVars, reader, chunk, events, dispatch, hand, received, helperVars>>

-----------------------------------------------------------------------------
MainStep ==
  \/ StartFails \/ Popen \/ Starts \/ PutPlaceholder
  \/ StopSet \/ TerminateHelper \/ WaitForHelper \/ JoinThreads

ReaderStep == ReaderTop \/ FetchChunk \/ ReadEvent \/ ReadEnd

DispatchStep == DispatchTop \/ DispatchGet

\* The helper, the kernel, and whoever else signals or kills the helper.
HelperEnvStep ==
  /\ \/ HelperStep \/ Emit
     \/ "kill" \in HelperFaults /\ (Kill \/ Terminate)
  /\ UNCHANGED <<agentVars, threadVars>>

\* The end of the exit: from now on poll() and wait() know of it.
Exits ==
  /\ helper = "ended" /\ ~over
  /\ over' = TRUE
  /\ UNCHANGED <<main, signals, owned, stopping, threadVars, helperVars>>

Finished == (~Alive \/ main = "stuck") /\ UNCHANGED vars

Next ==
  \/ MainStep \/ Signal \/ Crash
  \/ ReaderStep \/ DispatchStep \/ OnEvent \/ StderrStep
  \/ HelperEnvStep \/ Exits \/ Finished

Spec == Init /\ [][Next]_vars

\* Threads and the helper are scheduled, and an exit gets to its end; on_event,
\* signals and the events of the kernel owe nothing.
Fairness ==
  /\ WF_vars(MainStep) /\ WF_vars(ReaderStep) /\ WF_vars(DispatchStep)
  /\ WF_vars(HelperStep /\ UNCHANGED <<agentVars, threadVars>>) /\ WF_vars(Exits)

FairSpec == Spec /\ Fairness
=============================================================================
