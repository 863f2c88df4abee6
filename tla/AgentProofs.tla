---------------------------- MODULE AgentProofs ----------------------------
(***************************************************************************)
(* Proofs about the agent, for every value of the constants.               *)
(***************************************************************************)
EXTENDS AgentProps, SequenceTheorems, TLAPS

\* The event in the dispatch thread's hand has been counted: without this the
\* number it is enqueued under could be 0.
HandInv == dispatch = "put" => produced[epoch] > 0

TypeInv == TypeOK /\ HandInv

\* A process that has just been started has its types.
LEMMA InitTyped == Init => TypeInv
<1> SUFFICES ASSUME Init
             PROVE  TypeInv
  OBVIOUS
<1> USE BackendAssumption, AgentAssumption
        DEF BackendAssumption, AgentAssumption, Init, BackendInit, SourceInit
<1>1. BackendTypeOK
  <2>1. stored \in Seq(Event) /\ wire \subseteq AgentEventBatch
    OBVIOUS
  <2>2. reply \in [Epochs -> {"none", "ok", "error"}] /\ lastSeq \in Nat
    OBVIOUS
  <2>3. known \in BOOLEAN
    OBVIOUS
  <2>4. QED
    BY <2>1, <2>2, <2>3 DEF BackendTypeOK
<1>2. ProcessTypeOK
  <2>1. stop \in BOOLEAN
    OBVIOUS
  <2>2. epoch \in Epochs /\ signals \in 0..MaxSignals
    BY DEF Epochs
  <2>3. QED
    BY <2>1, <2>2 DEF ProcessTypeOK, Starting
<1>3. CollectTypeOK
  BY DEF CollectTypeOK, SourceTypeOK
<1>4. QueueTypeOK
  BY DEF QueueTypeOK
<1>5. ThreadTypeOK /\ HandInv
  BY DEF ThreadTypeOK, HandInv
<1>6. QED
  BY <1>1, <1>2, <1>3, <1>4, <1>5 DEF TypeInv, TypeOK

\* The server's variables keep their types, whoever takes the step.
LEMMA ServerTyped ==
  ASSUME TypeInv, ServerStep
  PROVE  TypeInv'
<1> USE DEF TypeInv, TypeOK
<1>1. /\ ProcessTypeOK' /\ CollectTypeOK' /\ QueueTypeOK' /\ ThreadTypeOK'
      /\ HandInv'
  BY DEF ServerStep, processVars, collectVars, sourceVars, flushVars, ProcessTypeOK,
         CollectTypeOK, SourceTypeOK, QueueTypeOK, ThreadTypeOK, HandInv
<1>2. BackendTypeOK'
  <2>1. CASE ForgetAgent
    <3>1. known' \in BOOLEAN
      BY <2>1 DEF ForgetAgent
    <3>2. QED
      BY <2>1, <3>1 DEF ForgetAgent, BackendTypeOK
  <2>2. ASSUME NEW b \in wire, AcceptBatch(b)
        PROVE  BackendTypeOK'
    <3>1. b.events \in Seq(Event) /\ b.sequence \in Nat /\ b.epoch \in Epochs
      BY DEF BackendTypeOK, AgentEventBatch
    <3>2. stored \in Seq(Event)
      BY DEF BackendTypeOK
    <3>3. stored \o b.events \in Seq(Event)
      BY <3>1, <3>2, ConcatProperties
    <3>4. wire' \subseteq AgentEventBatch /\ lastSeq' \in Nat
      BY <2>2, <3>1 DEF BackendTypeOK, AcceptBatch
    <3>5. reply' \in [Epochs -> {"none", "ok", "error"}]
      BY <2>2, <3>1 DEF BackendTypeOK, AcceptBatch
    <3>6. QED
      BY <2>2, <3>3, <3>4, <3>5 DEF BackendTypeOK, AcceptBatch
  <2>3. ASSUME NEW b \in wire, RejectBatch(b)
        PROVE  BackendTypeOK'
    <3>1. b.epoch \in Epochs
      BY DEF BackendTypeOK, AgentEventBatch
    <3>2. reply' \in [Epochs -> {"none", "ok", "error"}]
      BY <2>3, <3>1 DEF BackendTypeOK, RejectBatch
    <3>3. QED
      BY <2>3, <3>2 DEF BackendTypeOK, RejectBatch, backendVars
  <2>4. QED
    BY <2>1, <2>2, <2>3 DEF ServerStep, BackendNext
<1>3. QED
  BY <1>1, <1>2

\* Steps of the main thread, restarts included.
LEMMA MainTyped ==
  ASSUME TypeInv, MainStep \/ Signal \/ Crash \/ Restart
  PROVE  TypeInv'
<1> USE BackendAssumption, AgentAssumption DEF BackendAssumption, AgentAssumption
<1>0. Abandoned(epoch) \subseteq wire
  BY DEF Abandoned
<1>1. CASE Register("register", "sync") \/ Register("reregister", "resync")
  <2> USE <1>1 DEF TypeInv, TypeOK, Register, End, collectVars, sourceVars, flushVars
  <2>1. wire' \subseteq wire
    BY <1>0
  <2>2. known' \in BOOLEAN
    BY DEF RegisterOk, RegisterFails, BackendTypeOK
  <2>3. BackendTypeOK'
    BY <2>1, <2>2 DEF BackendTypeOK
  <2>4. ProcessTypeOK'
    BY DEF ProcessTypeOK, Starting, Ended
  <2>5. CollectTypeOK' /\ QueueTypeOK' /\ ThreadTypeOK' /\ HandInv'
    BY DEF CollectTypeOK, SourceTypeOK, QueueTypeOK, ThreadTypeOK, HandInv
  <2>6. QED
    BY <2>3, <2>4, <2>5
<1>2. CASE SyncSequence
  <2> USE <1>2 DEF TypeInv, TypeOK, SyncSequence, AdoptSequence, End,
                   collectVars, sourceVars, backendVars
  <2>1. wire' \subseteq wire
    BY <1>0
  <2>2. BackendTypeOK' /\ ProcessTypeOK'
    BY <2>1 DEF BackendTypeOK, ProcessTypeOK, Starting, Ended
  <2>3. sequence' \in Nat
    BY DEF NextSequence, Adopted, BackendTypeOK, ThreadTypeOK
  <2>4. CollectTypeOK' /\ QueueTypeOK' /\ ThreadTypeOK' /\ HandInv'
    BY <2>3 DEF CollectTypeOK, SourceTypeOK, QueueTypeOK, ThreadTypeOK, HandInv
  <2>5. QED
    BY <2>2, <2>4
<1>3. CASE StartCollector \/ StopCollector \/ JoinThreads \/ Crash
  <2> USE <1>3 DEF TypeInv, TypeOK, StartCollector, CreateThreads, StopCollector,
                   Stop, Stopped, AllCollectors, JoinThreads, Crash, End,
                   collectVars, sourceVars, flushVars, backendVars
  <2>1. wire' \subseteq wire
    BY <1>0
  <2>2. BackendTypeOK' /\ ProcessTypeOK'
    BY <2>1 DEF BackendTypeOK, ProcessTypeOK, Starting, Stopping, Ended
  <2>3. CollectTypeOK' /\ QueueTypeOK' /\ ThreadTypeOK' /\ HandInv'
    BY DEF CollectTypeOK, SourceTypeOK, QueueTypeOK, ThreadTypeOK, HandInv
  <2>4. QED
    BY <2>2, <2>3
<1>4. CASE StartThreads \/ StartCollectorThreads
  <2> USE <1>4 DEF TypeInv, TypeOK, StartThreads, StartCollectorThreads, RunThreads,
                   AllCollectors, collectVars, sourceVars, flushVars, backendVars, netVars
  <2>1. BackendTypeOK'
    BY DEF BackendTypeOK
  <2>2. ProcessTypeOK'
    <3>1. main' \in Starting \cup {"pause"}
      BY DEF Starting
    <3>2. UNCHANGED <<epoch, signals, stop>>
      OBVIOUS
    <3>3. QED
      BY <3>1, <3>2 DEF ProcessTypeOK
  <2>3. CollectTypeOK' /\ QueueTypeOK' /\ ThreadTypeOK' /\ HandInv'
    BY DEF CollectTypeOK, SourceTypeOK, QueueTypeOK, ThreadTypeOK, HandInv
  <2>4. QED
    BY <2>1, <2>2, <2>3
<1>5. CASE StopSet
  <2> USE <1>5 DEF TypeInv, TypeOK, StopSet, collectVars, sourceVars, flushVars,
                   backendVars, netVars
  <2>1. stop' \in BOOLEAN
    OBVIOUS
  <2>2. BackendTypeOK' /\ ProcessTypeOK'
    BY <2>1 DEF BackendTypeOK, ProcessTypeOK, Stopping
  <2>3. CollectTypeOK' /\ QueueTypeOK' /\ ThreadTypeOK' /\ HandInv'
    BY DEF CollectTypeOK, SourceTypeOK, QueueTypeOK, ThreadTypeOK, HandInv
  <2>4. QED
    BY <2>2, <2>3
<1>6. CASE Restart
  <2> USE <1>6 DEF TypeInv, TypeOK, Restart, backendVars, netVars
  <2>1. stop' \in BOOLEAN
    OBVIOUS
  <2>2. BackendTypeOK'
    BY DEF BackendTypeOK
  <2>3. ProcessTypeOK'
    BY <2>1 DEF ProcessTypeOK, Epochs, Starting
  <2>4. QueueTypeOK'
    BY DEF QueueTypeOK
  <2>5. CollectTypeOK' /\ ThreadTypeOK' /\ HandInv'
    BY DEF CollectTypeOK, SourceTypeOK, ThreadTypeOK, HandInv
  <2>6. QED
    BY <2>2, <2>3, <2>4, <2>5
<1>7. CASE Signal
  <2> USE <1>7 DEF TypeInv, TypeOK, Signal, InsideSet, Stopped, AllCollectors, flushVars,
                   backendVars, netVars
  <2>1. stop' \in BOOLEAN
    BY DEF ProcessTypeOK
  <2>2. main' \in Stopping \cup {"stuck"}
    BY DEF Stopping
  <2>3. BackendTypeOK' /\ ProcessTypeOK'
    BY <2>1, <2>2, AgentAssumption DEF BackendTypeOK, ProcessTypeOK, AgentAssumption
  <2>4. CollectTypeOK' /\ QueueTypeOK' /\ ThreadTypeOK' /\ HandInv'
    BY DEF CollectTypeOK, SourceTypeOK, QueueTypeOK, ThreadTypeOK, HandInv
  <2>5. QED
    BY <2>3, <2>4
<1>8. QED
  BY <1>1, <1>2, <1>3, <1>4, <1>5, <1>6, <1>7 DEF MainStep

\* Steps of the dispatch thread.
LEMMA DispatchTyped ==
  ASSUME TypeInv, DispatchStep
  PROVE  TypeInv'
<1> USE BackendAssumption, AgentAssumption
        DEF BackendAssumption, AgentAssumption, TypeInv, TypeOK,
            processVars, flushVars, backendVars, netVars
<1>1. CASE DispatchTop \/ DispatchEmpty \/ DispatchGet
  <2> USE <1>1 DEF DispatchTop, DispatchEmpty, DispatchGet, Poll, PollEmpty, Call, DemoCall
  <2>1. BackendTypeOK' /\ ProcessTypeOK' /\ QueueTypeOK' /\ ThreadTypeOK'
    BY DEF BackendTypeOK, ProcessTypeOK, QueueTypeOK, ThreadTypeOK
  <2>2. CollectTypeOK' /\ HandInv'
    BY DEF CollectTypeOK, SourceTypeOK, ProcessTypeOK, HandInv
  <2>3. QED
    BY <2>1, <2>2
<1>2. CASE EnqueueEvent
  <2> USE <1>2 DEF EnqueueEvent, Return, QueueHasRoom
  <2>1. [epoch |-> epoch, n |-> produced[epoch]] \in Event
    BY DEF Event, ProcessTypeOK, CollectTypeOK, SourceTypeOK, HandInv
  <2>2. queue \in Seq(Event) /\ Len(queue) < QueueMax /\ buffer' = buffer
    BY DEF QueueTypeOK
  <2>3. queue' \in Seq(Event) /\ Len(queue') = Len(queue) + 1
    BY <2>1, <2>2, AppendProperties
  <2>4. Len(queue) \in Nat
    BY <2>2, LenProperties
  <2>5. QueueTypeOK'
    BY <2>2, <2>3, <2>4 DEF QueueTypeOK
  <2>6. BackendTypeOK' /\ ProcessTypeOK' /\ CollectTypeOK' /\ ThreadTypeOK' /\ HandInv'
    BY DEF BackendTypeOK, ProcessTypeOK, CollectTypeOK, SourceTypeOK, ThreadTypeOK, HandInv
  <2>7. QED
    BY <2>5, <2>6
<1>3. QED
  BY <1>1, <1>2 DEF DispatchStep

\* Steps of the flush and heartbeat threads.
LEMMA FlushTyped ==
  ASSUME TypeInv, FlushStep \/ HeartbeatStep
  PROVE  TypeInv'
<1> USE DEF TypeInv, TypeOK, processVars, collectVars, sourceVars, flushVars, backendVars, netVars
<1>1. CASE FlushTop \/ FlushDecide \/ HeartbeatStep
  <2> USE <1>1 DEF FlushTop, FlushDecide, HeartbeatStep, HeartbeatTop,
                   HeartbeatPost, HeartbeatSleep
  <2>0. QueueTypeOK'
    <3>1. queue' = queue /\ (buffer' = buffer \/ buffer' = <<>>)
      OBVIOUS
    <3>2. <<>> \in Seq(Event)
      BY EmptySeq
    <3>3. QED
      BY <3>1, <3>2 DEF QueueTypeOK
  <2>1. BackendTypeOK' /\ ProcessTypeOK' /\ CollectTypeOK' /\ HandInv'
    BY DEF BackendTypeOK, ProcessTypeOK, CollectTypeOK, SourceTypeOK, HandInv
  <2>2. ThreadTypeOK'
    BY DEF ThreadTypeOK
  <2>3. QED
    BY <2>0, <2>1, <2>2
<1>2. CASE FlushGet
  <2> USE <1>2 DEF FlushGet
  <2>1. QueueTypeOK'
    <3>1. queue \in Seq(Event) /\ buffer \in Seq(Event) /\ Len(queue) <= QueueMax
      BY DEF QueueTypeOK
    <3>2. CASE queue # <<>>
      <4>1. /\ Head(queue) \in Event
            /\ Tail(queue) \in Seq(Event)
            /\ Len(Tail(queue)) = Len(queue) - 1
        BY <3>1, <3>2, HeadTailProperties
      <4>2. Append(buffer, Head(queue)) \in Seq(Event)
        BY <3>1, <4>1, AppendProperties
      <4>3. Len(queue) \in Nat /\ QueueMax \in Nat
        BY <3>1, LenProperties, AgentAssumption DEF AgentAssumption
      <4>4. queue' = Tail(queue) /\ buffer' = Append(buffer, Head(queue))
        BY <3>2
      <4>5. Len(queue') <= QueueMax
        BY ONLY <3>1, <4>1, <4>3, <4>4
      <4>6. QED
        BY <4>1, <4>2, <4>4, <4>5 DEF QueueTypeOK
    <3>3. CASE queue = <<>>
      BY <3>1, <3>3 DEF QueueTypeOK
    <3>4. QED
      BY <3>2, <3>3
  <2>2. BackendTypeOK' /\ ProcessTypeOK' /\ CollectTypeOK' /\ ThreadTypeOK' /\ HandInv'
    BY DEF BackendTypeOK, ProcessTypeOK, CollectTypeOK, SourceTypeOK, ThreadTypeOK, HandInv
  <2>3. QED
    BY <2>1, <2>2
<1>3. CASE FlushSend
  <2> USE <1>3 DEF FlushSend
  <2>1. wire' \subseteq AgentEventBatch /\ reply' \in [Epochs -> {"none", "ok", "error"}]
    BY DEF SendEvents, AgentEventBatch, BackendTypeOK, ProcessTypeOK, QueueTypeOK,
           ThreadTypeOK
  <2>2. BackendTypeOK'
    BY <2>1 DEF BackendTypeOK
  <2>3. ProcessTypeOK' /\ CollectTypeOK' /\ QueueTypeOK' /\ ThreadTypeOK' /\ HandInv'
    BY DEF ProcessTypeOK, CollectTypeOK, SourceTypeOK, QueueTypeOK, ThreadTypeOK, HandInv
  <2>4. QED
    BY <2>2, <2>3
<1>4. CASE FlushAcknowledged \/ FlushFails
  <2> USE <1>4 DEF FlushAcknowledged, FlushFails, SequenceAfter
  <2>1. wire' \subseteq wire
    BY DEF Abandoned
  <2>2. BackendTypeOK' /\ ProcessTypeOK' /\ CollectTypeOK' /\ ThreadTypeOK' /\ HandInv'
    BY <2>1 DEF BackendTypeOK, ProcessTypeOK, CollectTypeOK, SourceTypeOK, ThreadTypeOK, HandInv
  <2>3. buffer' = <<>> /\ queue' = queue
    OBVIOUS
  <2>4. QueueTypeOK'
    BY <2>3 DEF QueueTypeOK
  <2>5. QED
    BY <2>2, <2>4
<1>5. QED
  BY <1>1, <1>2, <1>3, <1>4 DEF FlushStep

\* Every step of any thread, of the server or of a signal keeps them.
LEMMA StepTyped == TypeInv /\ [Next]_vars => TypeInv'
<1> SUFFICES ASSUME TypeInv, [Next]_vars
             PROVE  TypeInv'
  OBVIOUS
<1>1. CASE UNCHANGED vars
  BY <1>1 DEF vars, processVars, collectVars, sourceVars, flushVars, backendVars, netVars,
              TypeInv, TypeOK, BackendTypeOK, ProcessTypeOK, CollectTypeOK, SourceTypeOK,
              QueueTypeOK, ThreadTypeOK, HandInv
<1>2. QED
  BY <1>1, ServerTyped, MainTyped, DispatchTyped, FlushTyped DEF Next, Finished

(***************************************************************************)
(* Every variable keeps its type; the agent's queue never exceeds its      *)
(* bound, whichever threads put and get.                                   *)
(***************************************************************************)
THEOREM TypeCorrect == Spec => []TypeOK
<1>1. Spec => []TypeInv
  BY InitTyped, StepTyped, PTL DEF Spec
<1>2. QED
  BY <1>1, PTL DEF TypeInv

-----------------------------------------------------------------------------
(* After a signal *)

\* Where a signal leads: through stop() to the end, unless a second one comes
\* inside the first one's Event.set().
SignalledStops ==
  /\ signals > 0 => main \in Stopping \cup Ended \cup {"stuck"}
  /\ main \in Stopping \cup {"stuck"} => signals > 0

OnlyTwoStick == main = "stuck" => signals > 1

SignalInv == SignalledStops /\ OnlyTwoStick

\* The steps that are left of stop().
StopsLeft ==
  CASE main = "stopSet" -> 4 [] main = "stopCollector" -> 3
    [] main = "joinFlush" -> 2 [] main = "joinBeat" -> 1 [] OTHER -> 0

LEMMA MainSignals ==
  ASSUME TypeInv, SignalInv, MainStep
  PROVE  /\ SignalInv'
         /\ signals > 0 => StopsLeft' \in 0 .. StopsLeft - 1
<1>1. signals \in Nat
  BY AgentAssumption DEF AgentAssumption, TypeInv, TypeOK, ProcessTypeOK
<1>2. CASE \/ Register("register", "sync") \/ Register("reregister", "resync")
           \/ SyncSequence \/ StartCollector \/ StartCollectorThreads \/ StartThreads
  <2>1. main \in Starting /\ main' \in Starting \cup {"pause", "raised"} /\ signals' = signals
    BY <1>2 DEF Register, End, SyncSequence, AdoptSequence, StartCollector,
                StartCollectorThreads, StartThreads, Starting
  <2>2. main \notin Stopping \cup {"stuck"} \cup Ended /\ main' \notin Stopping \cup {"stuck"}
    BY <2>1 DEF Starting, Stopping, Ended
  <2>3. signals = 0
    BY <1>1, <2>2 DEF SignalInv, SignalledStops, Alive
  <2>4. QED
    BY <2>1, <2>2, <2>3 DEF SignalInv, SignalledStops, OnlyTwoStick
<1>3. CASE StopSet \/ StopCollector \/ JoinThreads
  <2>1. /\ signals' = signals
        /\ \/ main = "stopSet" /\ main' = "stopCollector"
           \/ main = "stopCollector" /\ main' \in {"joinFlush", "raised"}
           \/ main = "joinFlush" /\ main' \in {"joinBeat", "raised"}
           \/ main = "joinBeat" /\ main' \in {"exited", "raised"}
    BY <1>3 DEF StopSet, StopCollector, JoinThreads, End
  <2>2. main \in Stopping /\ main' \in Stopping \cup Ended /\ main' # "stuck"
    BY <2>1 DEF Stopping, Ended
  <2>3. signals > 0
    BY <2>2 DEF SignalInv, SignalledStops
  <2>4. SignalInv'
    BY <2>1, <2>2, <2>3 DEF SignalInv, SignalledStops, OnlyTwoStick, Alive
  <2>5. StopsLeft' \in 0 .. StopsLeft - 1
    BY <2>1 DEF StopsLeft
  <2>6. QED
    BY <2>4, <2>5
<1>4. QED
  BY <1>2, <1>3 DEF MainStep

LEMMA SignalStep == TypeInv /\ SignalInv /\ [Next]_vars => SignalInv'
<1> SUFFICES ASSUME TypeInv, SignalInv, [Next]_vars PROVE SignalInv'
  OBVIOUS
<1>1. signals \in Nat
  BY AgentAssumption DEF AgentAssumption, TypeInv, TypeOK, ProcessTypeOK
<1>2. CASE Signal
  <2>1. /\ signals' = signals + 1 /\ main' \in {"stopSet", "stuck"}
        /\ main' = "stuck" => main \in {"stopSet", "stopCollector", "stuck"}
    BY <1>2 DEF Signal, InsideSet
  <2>2. main' = "stuck" => signals > 0
    BY <2>1 DEF SignalInv, SignalledStops, Stopping
  <2>3. QED
    BY <1>1, <2>1, <2>2 DEF SignalInv, SignalledStops, OnlyTwoStick, Stopping
<1>3. CASE Crash \/ Restart
  BY <1>1, <1>3 DEF Crash, End, Restart, SignalInv, SignalledStops, OnlyTwoStick,
                    Stopping, Alive, Ended
<1>4. CASE DispatchStep \/ FlushStep \/ HeartbeatStep \/ ServerStep \/ UNCHANGED vars
  <2>1. UNCHANGED <<main, signals>>
    BY <1>4 DEF DispatchStep, DispatchTop, DispatchEmpty, DispatchGet, EnqueueEvent,
                FlushStep, FlushTop, FlushGet, FlushDecide, FlushSend, FlushAcknowledged,
                FlushFails, HeartbeatStep, HeartbeatTop, HeartbeatPost, HeartbeatSleep,
                ServerStep, vars, processVars
  <2>2. QED
    BY <2>1 DEF SignalInv, SignalledStops, OnlyTwoStick, Alive
<1>5. QED
  BY <1>2, <1>3, <1>4, MainSignals DEF Next, Finished

(***************************************************************************)
(* A signal takes the main thread into stop(), from wherever it is; every  *)
(* step of it brings the process nearer to its end, whatever its threads   *)
(* are blocked on, and only a second signal can stick.  What is left of    *)
(* SignalEndsProcess is that the steps are taken.                          *)
(***************************************************************************)
THEOREM SignalLeadsOut ==
  Spec => /\ [](signals > 0 =>
               \/ main \in Stopping
               \/ ~Alive
               \/ main = "stuck" /\ signals > 1)
          /\ [][MainStep /\ signals > 0 => StopsLeft' \in 0 .. StopsLeft - 1]_vars
<1> DEFINE Stops == signals > 0 =>
                      \/ main \in Stopping
                      \/ ~Alive
                      \/ main = "stuck" /\ signals > 1
<1>1. Init => TypeInv /\ SignalInv
  BY InitTyped DEF Init, SignalInv, SignalledStops, OnlyTwoStick, Stopping, Alive, Ended
<1>2. TypeInv /\ SignalInv /\ [Next]_vars => TypeInv' /\ SignalInv'
  BY StepTyped, SignalStep
<1>3. SignalInv => Stops
  BY DEF SignalInv, SignalledStops, OnlyTwoStick, Alive
<1>4. TypeInv /\ SignalInv /\ [Next]_vars =>
        [MainStep /\ signals > 0 => StopsLeft' \in 0 .. StopsLeft - 1]_vars
  BY MainSignals
<1>5. QED
  BY <1>1, <1>2, <1>3, <1>4, PTL DEF Spec
=============================================================================
