---------------------------- MODULE PromptProofs ----------------------------
(***************************************************************************)
(* Proofs about the batch sequence in a network that delivers in time: the *)
(* server does not handle a batch that its client has given up on.         *)
(***************************************************************************)
EXTENDS SequenceProofs

\* Only the batch the flush thread is waiting for is on the wire.
WireAwaited ==
  \A b \in wire : /\ Alive /\ flush = "await" /\ reply[epoch] = "none"
                  /\ b.epoch = epoch /\ b.sequence = sequence

\* start() has asked for the sequence and the flush thread does not run yet.
Synced == {"collect", "startCollector", "create", "startFlush"}

\* An answered batch is the server's last, any other sequence its next one.
StepInv ==
  /\ WireAwaited
  /\ main \in Synced => sequence = lastSeq + 1
  /\ InStepWithServer
  /\ Alive /\ flush = "await" /\ reply[epoch] = "none" => sequence = lastSeq + 1
  /\ Alive /\ flush = "await" /\ reply[epoch] = "ok" => sequence = lastSeq

\* Giving up on the awaited batch empties the wire.
LEMMA AbandonedEmpty ==
  ASSUME "late" \notin Faults, WireAwaited
  PROVE  Abandoned(epoch) = {}
BY DEF WireAwaited, Abandoned

\* The way from the answer of the server to the start of the flush thread.
LEMMA SyncedFrame ==
  ASSUME Inv, MainStep \/ Signal \/ Crash, main' \in Synced
  PROVE  \/ main \in Synced /\ UNCHANGED sequence
         \/ AdoptSequence
<1> USE DEF Synced, flushVars
<1>1. CASE Register("register", "sync") \/ Register("reregister", "resync")
  BY <1>1 DEF Register, End
<1>2. CASE SyncSequence
  BY <1>2 DEF SyncSequence, End
<1>3. CASE StartCollector \/ StartCollectorThreads \/ StartThreads
  BY <1>3 DEF StartCollector, StartCollectorThreads, StartThreads, End
<1>4. CASE StopSet \/ StopCollector \/ JoinThreads
  BY <1>4 DEF StopSet, StopCollector, JoinThreads, End
<1>5. CASE Signal \/ Crash
  BY <1>5 DEF Signal, Crash, End
<1>6. QED
  BY <1>1, <1>2, <1>3, <1>4, <1>5 DEF MainStep

\* The main thread starts the flush thread in step with the server, and takes
\* its batch with it when it ends the process.
LEMMA MainPrompt ==
  ASSUME "late" \notin Faults, Inv, StepInv, MainStep \/ Signal \/ Crash
  PROVE  StepInv' /\ UNCHANGED stored
<1>1. /\ UNCHANGED <<lastSeq, stored, epoch, reply>>
      /\ Alive' => Alive /\ wire' = wire
      /\ ~Alive' => wire' = Abandoned(epoch)
  BY MainFrame
<1>2. \/ UNCHANGED flush
      \/ main = "startFlush" /\ flush' = "top"
      \/ flush' = "created"
  BY MainFrame
<1>3. /\ sequence' = sequence \/ (sequence' = lastSeq + 1 /\ flush = "none")
      /\ flush = "none" => flush' # "await"
  BY MainAnswer, AdoptedIsNext
<1>4. WireAwaited'
  <2>1. CASE Alive'
    <3>1. Alive /\ UNCHANGED <<wire, epoch, reply>>
      BY <1>1, <2>1
    <3>2. wire # {} => flush' = "await" /\ UNCHANGED sequence
      <4>1. wire # {} => flush = "await"
        BY DEF StepInv, WireAwaited
      <4>2. flush = "await" => main # "startFlush" /\ flush' # "created"
        BY MainAnswer DEF Inv, StreamInv, StartInv
      <4>3. QED
        BY <1>2, <1>3, <4>1, <4>2
    <3>3. QED
      BY <2>1, <3>1, <3>2 DEF StepInv, WireAwaited
  <2>2. CASE ~Alive'
    BY <1>1, <2>2, AbandonedEmpty DEF StepInv, WireAwaited
  <2>3. QED
    BY <2>1, <2>2
<1>5. main' \in Synced => sequence' = lastSeq' + 1
  BY <1>1, SyncedFrame, AdoptedIsNext DEF StepInv
<1>6. main = "startFlush" => UNCHANGED sequence
  <2>1. main = "startFlush" => flush # "none"
    BY DEF Inv, StreamInv, StartInv
  <2>2. QED
    BY <2>1, <1>3
<1>7. InStepWithServer'
  <2> SUFFICES ASSUME Alive', flush' \in {"top", "get", "decide", "send"}
               PROVE  sequence' = lastSeq' + 1
    BY DEF InStepWithServer
  <2>1. CASE main = "startFlush"
    BY <2>1, <1>1, <1>6 DEF StepInv, Synced
  <2>2. CASE main # "startFlush"
    <3>1. UNCHANGED flush
      BY <2>2, <1>2
    <3>2. UNCHANGED sequence
      BY <3>1, <1>3
    <3>3. QED
      BY <3>1, <3>2, <1>1 DEF StepInv, InStepWithServer
  <2>3. QED
    BY <2>1, <2>2
<1>8. Alive' /\ flush' = "await" => Alive /\ flush = "await" /\ UNCHANGED <<sequence, reply, epoch>>
  BY <1>1, <1>2, <1>3
<1>9. QED
  BY <1>1, <1>4, <1>5, <1>7, <1>8 DEF StepInv

\* Steps of the flush thread that concern a request.
LEMMA RequestPrompt ==
  ASSUME "late" \notin Faults, Inv, StepInv, FlushSend \/ FlushAcknowledged \/ FlushFails
  PROVE  StepInv' /\ UNCHANGED stored
<1>0. /\ sequence \in Nat /\ lastSeq \in Nat /\ epoch \in Epochs
      /\ reply \in [Epochs -> {"none", "ok", "error"}]
  BY SequenceTypes
<1>a. /\ UNCHANGED <<main, epoch, lastSeq, stored>>
      /\ flush \notin {"none", "created"}
  BY DEF FlushSend, FlushAcknowledged, FlushFails, processVars, backendVars
<1>b. main \notin Synced
  BY <1>a DEF Inv, StreamInv, StartInv, Starting, Synced
<1>1. CASE FlushSend
  <2> DEFINE b == [epoch |-> epoch, sequence |-> sequence, events |-> buffer]
  <2>1. /\ UNCHANGED sequence /\ flush' = "await" /\ Alive /\ flush = "send"
        /\ wire' = wire \cup {b} /\ reply' = [reply EXCEPT ![epoch] = "none"]
    BY <1>1 DEF FlushSend, SendEvents
  <2>2. b.epoch = epoch /\ b.sequence = sequence
    OBVIOUS
  <2> HIDE DEF b
  <2>3. reply'[epoch'] = "none"
    BY <1>0, <1>a, <2>1
  <2>4. wire = {}
    BY <2>1 DEF StepInv, WireAwaited
  <2>5. WireAwaited'
    BY <1>a, <2>1, <2>2, <2>3, <2>4 DEF WireAwaited, Alive
  <2>6. sequence' = lastSeq' + 1
    BY <1>a, <2>1 DEF StepInv, InStepWithServer
  <2>7. QED
    BY <1>a, <1>b, <2>1, <2>3, <2>5, <2>6 DEF StepInv, InStepWithServer
<1>2. CASE FlushAcknowledged
  <2>1. /\ Alive /\ flush = "await" /\ reply[epoch] = "ok"
        /\ sequence' = sequence + 1 /\ flush' = "top" /\ wire' = wire
    BY <1>2 DEF FlushAcknowledged, SequenceAfter, netVars
  <2>2. wire = {}
    BY <2>1 DEF StepInv, WireAwaited
  <2>3. sequence' = lastSeq' + 1
    BY <1>0, <1>a, <2>1 DEF StepInv
  <2>4. QED
    BY <1>a, <1>b, <2>1, <2>2, <2>3 DEF StepInv, InStepWithServer, WireAwaited
<1>3. CASE FlushFails
  <2>1. flush' = "dead" /\ wire' = Abandoned(epoch)
    BY <1>3 DEF FlushFails
  <2>2. wire' = {}
    BY <2>1, AbandonedEmpty DEF StepInv
  <2>3. QED
    BY <1>a, <1>b, <2>1, <2>2 DEF StepInv, InStepWithServer, WireAwaited
<1>4. QED
  BY <1>a, <1>1, <1>2, <1>3

\* The server stores or rejects the batch that is waited for.
LEMMA ServerPrompt ==
  ASSUME Inv, StepInv, ServerStep
  PROVE  StepInv' /\ (stored' # stored => lastSeq' > lastSeq)
<1>0. /\ sequence \in Nat /\ lastSeq \in Nat /\ epoch \in Epochs
      /\ reply \in [Epochs -> {"none", "ok", "error"}]
  BY SequenceTypes
<1>1. UNCHANGED <<sequence, epoch, main, flush>>
  BY DEF ServerStep, processVars, flushVars
<1>2. CASE ForgetAgent
  BY <1>1, <1>2 DEF ForgetAgent, StepInv, WireAwaited, InStepWithServer, Alive
<1>3. ASSUME NEW b \in wire, AcceptBatch(b) \/ RejectBatch(b)
      PROVE  StepInv' /\ (stored' # stored => lastSeq' > lastSeq)
  <2>1. /\ Alive /\ flush = "await" /\ reply[epoch] = "none"
        /\ b.epoch = epoch /\ b.sequence = sequence
        /\ sequence = lastSeq + 1
    BY DEF StepInv, WireAwaited
  <2>2. main \notin Synced
    BY <2>1 DEF Inv, StreamInv, StartInv, Starting, Synced
  <2>3. wire' = {}
    <3>1. wire' = wire \ {b}
      BY <1>3 DEF AcceptBatch, RejectBatch
    <3>2. \A c \in wire : c = b
      <4>1. \A c \in wire : c.epoch = epoch
        BY DEF StepInv, WireAwaited
      <4>2. QED
        BY <4>1, <2>1 DEF Inv, StreamInv, WireInv
    <3>3. QED
      BY <3>1, <3>2
  <2>4. CASE AcceptBatch(b)
    <3>1. /\ lastSeq' = sequence
          /\ reply' = [reply EXCEPT ![epoch] = "ok"]
      BY <1>0, <2>1, <2>4 DEF AcceptBatch
    <3>2. reply'[epoch'] = "ok" /\ lastSeq' > lastSeq
      BY <1>0, <1>1, <2>1, <3>1
    <3>3. QED
      BY <1>1, <2>1, <2>2, <2>3, <3>1, <3>2 DEF StepInv, WireAwaited, InStepWithServer
  <2>5. CASE RejectBatch(b)
    <3>1. /\ UNCHANGED <<lastSeq, stored>>
          /\ reply' = [reply EXCEPT ![epoch] = "error"]
      BY <2>1, <2>5 DEF RejectBatch, backendVars
    <3>2. reply'[epoch'] = "error"
      BY <1>0, <1>1, <3>1
    <3>3. QED
      BY <1>1, <2>1, <2>2, <2>3, <3>1, <3>2 DEF StepInv, WireAwaited, InStepWithServer
  <2>6. QED
    BY <1>3, <2>4, <2>5
<1>4. CASE \E b \in wire : AcceptBatch(b) \/ RejectBatch(b)
  BY <1>3, <1>4
<1>5. QED
  BY <1>2, <1>4 DEF ServerStep, BackendNext, ForgetAgent

\* No step takes the agent out of step with the server.
LEMMA PromptStep ==
  ASSUME "late" \notin Faults, Inv, StepInv, [Next]_vars
  PROVE  StepInv' /\ (stored' # stored => lastSeq' > lastSeq)
<1>1. CASE MainStep \/ Signal \/ Crash
  BY <1>1, MainPrompt
<1>2. CASE Restart
  <2>1. /\ ~Alive /\ flush' = "none" /\ main' = "register"
        /\ UNCHANGED <<wire, lastSeq, stored>>
    BY <1>2 DEF Restart, backendVars, netVars
  <2>2. wire = {}
    BY <2>1 DEF StepInv, WireAwaited
  <2>3. QED
    BY <2>1, <2>2 DEF StepInv, WireAwaited, InStepWithServer, Synced
<1>3. CASE FlushSend \/ FlushAcknowledged \/ FlushFails
  BY <1>3, RequestPrompt
<1>4. CASE ServerStep
  BY <1>4, ServerPrompt
<1>5. CASE ~(MainStep \/ Signal \/ Crash) /\ ~Restart /\ ~FlushSend
           /\ ~FlushAcknowledged /\ ~FlushFails /\ ~ServerStep
  <2>1. /\ UNCHANGED <<main, epoch, sequence, lastSeq, stored, wire, reply>>
        /\ \/ flush' = flush
           \/ flush \in {"top", "get", "decide"} /\ flush' # "await"
    BY <1>5, QuietSequence
  <2>2. QED
    BY <2>1 DEF StepInv, WireAwaited, InStepWithServer, Alive
<1>6. QED
  BY <1>1, <1>2, <1>3, <1>4, <1>5

\* A first start is in step, having done nothing.
LEMMA InitPrompt == Init => StepInv
BY DEF Init, BackendInit, StepInv, WireAwaited, InStepWithServer, Synced

(***************************************************************************)
(* In such a network the agent's next sequence is the server's whenever    *)
(* the flush thread is not waiting for an answer, across failed uploads,   *)
(* crashes and restarts.                                                   *)
(***************************************************************************)
THEOREM AgentInStep ==
  ASSUME "late" \notin Faults
  PROVE  Spec => []InStepWithServer
<1>1. Init => Inv /\ StepInv
  BY InitTyped, InitStream, InitPrompt DEF Inv
<1>2. Inv /\ StepInv /\ [Next]_vars => Inv' /\ StepInv'
  BY StepTyped, StreamStep, PromptStep DEF Inv
<1>3. Inv /\ StepInv => InStepWithServer
  BY DEF StepInv
<1>4. QED
  BY <1>1, <1>2, <1>3, PTL DEF Spec

(***************************************************************************)
(* ... and a stored batch has a higher sequence than every one before it.  *)
(***************************************************************************)
THEOREM SequencesIncrease ==
  ASSUME "late" \notin Faults
  PROVE  Spec => SequenceIncreases
<1>1. Init => Inv /\ StepInv
  BY InitTyped, InitStream, InitPrompt DEF Inv
<1>2. Inv /\ StepInv /\ [Next]_vars => Inv' /\ StepInv'
  BY StepTyped, StreamStep, PromptStep DEF Inv
<1>3. Inv /\ StepInv /\ [Next]_vars => [stored' # stored => lastSeq' > lastSeq]_vars
  BY PromptStep
<1>4. QED
  BY <1>1, <1>2, <1>3, PTL DEF Spec, SequenceIncreases
=============================================================================
