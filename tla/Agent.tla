------------------------------- MODULE Agent -------------------------------
(***************************************************************************)
(* The agent process: cli.main and ObservatoryAgent.  Its threads are the  *)
(* main thread, on which the signal handler runs too, the flush thread,    *)
(* the heartbeat thread, and the collector's dispatch thread, the only     *)
(* caller of enqueue_event.  Each thread has a program counter; a step is  *)
(* the code between two points where another thread, the server or a       *)
(* signal can make a difference.  A process that ended may be started      *)
(* again: every run is an epoch, and an event is its epoch and its number. *)
(***************************************************************************)
EXTENDS Backend, EventSource, Integers

CONSTANTS QueueMax,   \* maxsize of the agent's queue (10000 in the code)
          BatchSize,  \* --batch-size: any integer
          FailOpen,   \* ~ --no-fail-open
          MaxSignals  \* bound: SIGINT and SIGTERM in one epoch

ASSUME AgentAssumption ==
  /\ QueueMax \in Nat \ {0}
  /\ BatchSize \in Int
  /\ FailOpen \in BOOLEAN
  /\ Collectors \subseteq AllCollectors /\ Collectors # {}
  /\ MaxSignals \in Nat

VARIABLES epoch, main, signals,   \* the process and its main thread
          stop,                   \* the _stop event
          produced,               \* events the collector has taken up
          queue,                  \* the bounded queue
          flush, buffer,          \* the flush thread and its buffer
          sequence,               \* the sequence of the next batch
          beat                    \* the heartbeat thread

processVars == <<epoch, main, signals, stop>>
collectVars == <<sourceVars, produced>>
flushVars == <<flush, buffer, sequence>>
vars == <<processVars, collectVars, queue, flushVars, beat, backendVars, netVars>>

Starting == {"register", "sync", "reregister", "resync", "collect",
             "startCollector", "create", "startFlush", "startBeat"}
Stopping == {"stopSet", "stopCollector", "joinFlush", "joinBeat"}
Ended == {"exited", "raised", "killed"}
Alive == main \notin Ended

ProcessTypeOK ==
  /\ epoch \in Epochs
  /\ main \in Starting \cup Stopping \cup Ended \cup {"pause", "stuck"}
  /\ signals \in 0..MaxSignals
  /\ stop \in BOOLEAN

CollectTypeOK ==
  /\ SourceTypeOK
  /\ produced \in [Epochs -> 0..MaxEvents]

QueueTypeOK ==
  /\ queue \in Seq(Event) /\ Len(queue) <= QueueMax
  /\ buffer \in Seq(Event)

ThreadTypeOK ==
  /\ flush \in {"none", "created", "top", "get", "decide", "send", "await",
                "ended", "dead"}
  /\ sequence \in Nat
  /\ beat \in {"none", "created", "top", "post", "sleep", "ended", "dead"}

\* Every variable has its type; the queue stays within its bound.
TypeOK == /\ BackendTypeOK /\ ProcessTypeOK /\ CollectTypeOK
          /\ QueueTypeOK /\ ThreadTypeOK

Init ==
  /\ BackendInit
  /\ epoch = 1 /\ main = "register" /\ signals = 0 /\ stop = FALSE
  /\ SourceInit
  /\ produced = [e \in Epochs |-> 0]
  /\ queue = <<>> /\ flush = "none" /\ buffer = <<>> /\ sequence = 0
  /\ beat = "none"

-----------------------------------------------------------------------------
(* The main thread: start() *)

\* The process is over, and with it its connections and its daemon threads.
End(how) == main' = how /\ wire' = Abandoned(epoch)

\* register(): an error status or a timeout is raised out of start().
Register(pc, next) ==
  /\ main = pc
  /\ \/ RegisterOk /\ main' = next /\ UNCHANGED wire
     \/ RegisterFails /\ End("raised")
  /\ UNCHANGED <<epoch, signals, stop, collectVars, queue, flushVars, beat,
                 lastSeq, stored, reply>>

\* Mutants: the sequence after the one the server hands out; always 1.
AdoptedPlusOne(s) == s + 1
AdoptedOne(s) == 1

\* A next_sequence below 1 counts as 1.
Adopted(s) == IF s < 1 THEN 1 ELSE s

AdoptSequence ==
  /\ SequenceServed
  /\ \E s \in NextSequence : sequence' = Adopted(s)
  /\ main' = "collect"
  /\ UNCHANGED wire

\* sync_sequence(): one more registration after a 404, then no further try.
SyncSequence ==
  /\ \/ /\ main \in {"sync", "resync"}
        /\ AdoptSequence
     \/ /\ main = "sync" /\ ~SequenceServed
        /\ main' = "reregister"
        /\ UNCHANGED <<sequence, wire>>
     \/ /\ main = "resync" /\ ~SequenceServed
        /\ End("raised")
        /\ UNCHANGED sequence
     \/ /\ main \in {"sync", "resync"} /\ "startup" \in Faults
        /\ End("raised")
        /\ UNCHANGED sequence
  /\ UNCHANGED <<epoch, signals, stop, collectVars, queue, flush, buffer, beat,
                 backendVars, reply>>

\* A CollectorError is tolerated when the agent fails open; any other
\* exception of the collector, such as Popen's OSError, is not.  The demo
\* collector has nothing that could fail.
StartCollector ==
  /\ main = "collect"
  /\ \/ CreateThreads /\ main' = "startCollector" /\ UNCHANGED wire
     \/ /\ "collector" \in Faults /\ "kernel" \in Collectors
        /\ \/ FailOpen /\ main' = "create" /\ UNCHANGED wire
           \/ End("raised")
        /\ UNCHANGED sourceVars
  /\ UNCHANGED <<epoch, signals, stop, produced, queue, flushVars, beat,
                 backendVars, reply>>

StartCollectorThreads ==
  /\ main = "startCollector"
  /\ RunThreads
  /\ main' = IF collector' = "starting" THEN main ELSE "create"
  /\ UNCHANGED <<epoch, signals, stop, produced, queue, flushVars, beat,
                 backendVars, netVars>>

StartThreads ==
  /\ \/ /\ main = "create" /\ main' = "startFlush"
        /\ flush' = "created" /\ beat' = "created"
     \/ /\ main = "startFlush" /\ main' = "startBeat"
        /\ flush' = "top" /\ UNCHANGED beat
     \/ /\ main = "startBeat" /\ main' = "pause"
        /\ beat' = "top" /\ UNCHANGED flush
  /\ UNCHANGED <<epoch, signals, stop, collectVars, queue, buffer, sequence,
                 backendVars, netVars>>

-----------------------------------------------------------------------------
(* The main thread: the signal handler, which runs stop() wherever the     *)
(* main thread is, inside an earlier stop() included, and then exits.      *)

\* Event.set() holds a lock that is not reentrant: a signal inside it, in the
\* set() of the agent or of the collector, runs a second stop() on the same
\* thread, which waits for that lock for ever.
InsideSet ==
  \/ main = "stopSet" /\ stop' \in {stop, TRUE} /\ UNCHANGED collector
  \/ main = "stopCollector" /\ collector' \in {collector, Stopped} /\ UNCHANGED stop

Signal ==
  /\ Alive /\ signals < MaxSignals
  /\ signals' = signals + 1
  /\ \/ main # "stuck" /\ main' = "stopSet" /\ UNCHANGED <<stop, collector>>
     \/ InsideSet /\ main' = "stuck"
     \/ main = "stuck" /\ UNCHANGED <<main, stop, collector>>
  /\ UNCHANGED <<epoch, dispatch, produced, queue, flushVars, beat,
                 backendVars, netVars>>

StopSet ==
  /\ main = "stopSet" /\ main' = "stopCollector"
  /\ stop' = TRUE
  /\ UNCHANGED <<epoch, signals, collectVars, queue, flushVars, beat,
                 backendVars, netVars>>

\* Mutant: the dispatch thread is joined without a timeout.
StopCollectorUntimed ==
  /\ main = "stopCollector" /\ dispatch # "put" /\ main' = "joinFlush"
  /\ Stop
  /\ UNCHANGED <<epoch, signals, stop, produced, queue, flushVars, beat,
                 backendVars, netVars>>

\* stop() of the collector joins its threads, for two seconds at most; a
\* thread that was not started yet raises RuntimeError.
StopCollector ==
  /\ main = "stopCollector"
  /\ \/ ~Incomplete /\ main' = "joinFlush" /\ UNCHANGED wire
     \/ Incomplete /\ End("raised")
  /\ Stop
  /\ UNCHANGED <<epoch, signals, stop, produced, queue, flushVars, beat,
                 backendVars, reply>>

\* A join returns when the thread has ended or after two seconds, whatever the
\* thread does; joining a thread that was never started raises RuntimeError.
JoinThreads ==
  /\ \/ main = "joinFlush" /\ flush # "created" /\ main' = "joinBeat" /\ UNCHANGED wire
     \/ main = "joinFlush" /\ flush = "created" /\ End("raised")
     \/ main = "joinBeat" /\ beat # "created" /\ End("exited")
     \/ main = "joinBeat" /\ beat = "created" /\ End("raised")
  /\ UNCHANGED <<epoch, signals, stop, collectVars, queue, flushVars, beat,
                 backendVars, reply>>

Crash ==
  /\ "crash" \in Faults /\ Alive
  /\ End("killed")
  /\ UNCHANGED <<epoch, signals, stop, collectVars, queue, flushVars, beat,
                 backendVars, reply>>

\* The process manager starts the agent again.
Restart ==
  /\ ~Alive /\ epoch < MaxEpochs
  /\ epoch' = epoch + 1 /\ main' = "register" /\ signals' = 0 /\ stop' = FALSE
  /\ collector' = "off" /\ dispatch' = "top"
  /\ queue' = <<>> /\ flush' = "none" /\ buffer' = <<>> /\ sequence' = 0
  /\ beat' = "none"
  /\ UNCHANGED <<produced, backendVars, netVars>>

-----------------------------------------------------------------------------
(* The thread of the collector that calls enqueue_event *)

DispatchTop ==
  /\ Alive /\ Poll
  /\ UNCHANGED <<processVars, produced, queue, flushVars, beat, backendVars, netVars>>

DispatchEmpty ==
  /\ Alive /\ PollEmpty
  /\ UNCHANGED <<processVars, produced, queue, flushVars, beat, backendVars, netVars>>

\* The next event, in the kernel collector's hand or made up.
DispatchGet ==
  /\ Alive /\ (Call \/ DemoCall) /\ produced[epoch] < MaxEvents
  /\ produced' = [produced EXCEPT ![epoch] = @ + 1]
  /\ UNCHANGED <<processVars, queue, flushVars, beat, backendVars, netVars>>

\* Mutant: a queue without maxsize.
NoBound == TRUE

QueueHasRoom == Len(queue) < QueueMax

\* enqueue_event() blocks, with no timeout, while the queue is full.
EnqueueEvent ==
  /\ Alive /\ Return /\ QueueHasRoom
  /\ queue' = Append(queue, [epoch |-> epoch, n |-> produced[epoch]])
  /\ UNCHANGED <<processVars, produced, flushVars, beat, backendVars, netVars>>

-----------------------------------------------------------------------------
(* The flush thread *)

\* A loop that ends drops the events in its local buffer.
FlushTop ==
  /\ Alive /\ flush = "top"
  /\ \/ stop /\ flush' = "ended" /\ buffer' = <<>>
     \/ ~stop /\ flush' = "get" /\ UNCHANGED buffer
  /\ UNCHANGED <<processVars, collectVars, queue, sequence, beat, backendVars,
                 netVars>>

\* queue.get(): the next event, or Empty after the flush interval.
FlushGet ==
  /\ Alive /\ flush = "get"
  /\ flush' = "decide"
  /\ \/ /\ queue # <<>>
        /\ buffer' = Append(buffer, Head(queue))
        /\ queue' = Tail(queue)
     \/ /\ queue = <<>>
        /\ UNCHANGED <<buffer, queue>>
  /\ UNCHANGED <<processVars, collectVars, sequence, beat, backendVars, netVars>>

\* Mutants: only full batches are sent; one event too many is awaited.
FlushWhenFull == Len(buffer) >= BatchSize
FlushOneLate == Len(buffer) > BatchSize \/ (buffer # <<>> /\ queue = <<>>)

FlushDue == Len(buffer) >= BatchSize \/ (buffer # <<>> /\ queue = <<>>)

\* flush() of an empty buffer, which a batch size below 1 asks for, returns.
FlushDecide ==
  /\ Alive /\ flush = "decide"
  /\ flush' = IF FlushDue /\ buffer # <<>> THEN "send" ELSE "top"
  /\ UNCHANGED <<processVars, collectVars, queue, buffer, sequence, beat,
                 backendVars, netVars>>

FlushSend ==
  /\ Alive /\ flush = "send"
  /\ flush' = "await"
  /\ SendEvents([epoch |-> epoch, sequence |-> sequence, events |-> buffer])
  /\ UNCHANGED <<processVars, collectVars, queue, buffer, sequence, beat,
                 backendVars>>

\* Mutant: the sequence is not advanced.
SameSequence == sequence

SequenceAfter == sequence + 1

\* No other thread writes sequence once the flush thread runs, so that
\* "self.sequence == current_sequence" always holds here.
FlushAcknowledged ==
  /\ Alive /\ flush = "await" /\ reply[epoch] = "ok"
  /\ sequence' = SequenceAfter
  /\ buffer' = <<>>
  /\ flush' = "top"
  /\ UNCHANGED <<processVars, collectVars, queue, beat, backendVars, netVars>>

\* Mutant: a request without a timeout.
BatchRejected == reply[epoch] = "error"

BatchFails == reply[epoch] = "error" \/ "timeout" \in Faults

\* Mutant: a failed batch is kept and sent again.
FlushRetries ==
  /\ Alive /\ flush = "await" /\ BatchFails
  /\ flush' = "top"
  /\ wire' = Abandoned(epoch)
  /\ UNCHANGED <<processVars, collectVars, queue, buffer, sequence, beat,
                 backendVars, reply>>

\* Mutant: the exception is caught, and the failed batch forgotten.
FlushGivesUp ==
  /\ Alive /\ flush = "await" /\ BatchFails
  /\ flush' = "top"
  /\ buffer' = <<>>
  /\ wire' = Abandoned(epoch)
  /\ UNCHANGED <<processVars, collectVars, queue, sequence, beat, backendVars,
                 reply>>

\* The exception of send_events or raise_for_status leaves _flush_loop: the
\* thread is over, and the buffer with it.
FlushFails ==
  /\ Alive /\ flush = "await" /\ BatchFails
  /\ flush' = "dead"
  /\ buffer' = <<>>
  /\ wire' = Abandoned(epoch)
  /\ UNCHANGED <<processVars, collectVars, queue, sequence, beat, backendVars,
                 reply>>

-----------------------------------------------------------------------------
(* The heartbeat thread *)

HeartbeatTop ==
  /\ Alive /\ beat = "top"
  /\ beat' = IF stop THEN "ended" ELSE "post"
  /\ UNCHANGED <<processVars, collectVars, queue, flushVars, backendVars, netVars>>

\* A heartbeat that fails or is refused raises out of the thread.
HeartbeatPost ==
  /\ Alive /\ beat = "post"
  /\ \/ "heartbeat" \in Endpoints /\ beat' = "sleep"
     \/ "heartbeat" \in Faults \cup (AllEndpoints \ Endpoints) /\ beat' = "dead"
  /\ UNCHANGED <<processVars, collectVars, queue, flushVars, backendVars, netVars>>

HeartbeatSleep ==
  /\ Alive /\ beat = "sleep"
  /\ beat' = "top"
  /\ UNCHANGED <<processVars, collectVars, queue, flushVars, backendVars, netVars>>

-----------------------------------------------------------------------------
MainStep ==
  \/ Register("register", "sync") \/ Register("reregister", "resync")
  \/ SyncSequence \/ StartCollector \/ StartCollectorThreads \/ StartThreads
  \/ StopSet \/ StopCollector \/ JoinThreads

DispatchStep == DispatchTop \/ DispatchEmpty \/ DispatchGet \/ EnqueueEvent

FlushStep ==
  FlushTop \/ FlushGet \/ FlushDecide \/ FlushSend \/ FlushAcknowledged \/ FlushFails

HeartbeatStep == HeartbeatTop \/ HeartbeatPost \/ HeartbeatSleep

ServerStep ==
  BackendNext /\ UNCHANGED <<processVars, collectVars, queue, flushVars, beat>>

\* After the last epoch nothing more has to happen, and once the main thread
\* is stuck nothing more can.
Finished ==
  /\ main = "stuck" \/ (~Alive /\ epoch = MaxEpochs)
  /\ UNCHANGED vars

Next ==
  \/ MainStep \/ Signal \/ Crash \/ Restart
  \/ DispatchStep \/ FlushStep \/ HeartbeatStep \/ ServerStep \/ Finished

Spec == Init /\ [][Next]_vars

\* The threads are scheduled; the collector, signals, faults and the server
\* owe nothing: a request ends by its timeout when it is not answered.
Fairness == /\ WF_vars(MainStep) /\ WF_vars(FlushStep) /\ WF_vars(HeartbeatStep)
            /\ WF_vars(EnqueueEvent)

FairSpec == Spec /\ Fairness
=============================================================================
