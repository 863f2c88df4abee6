--------------------------- MODULE SequenceProofs ---------------------------
(***************************************************************************)
(* Proofs about the batch sequence: what sync_sequence, flush and the      *)
(* server make of it, in any network and in one that delivers in time.     *)
(***************************************************************************)
EXTENDS StreamProofs

\* What the flush thread's answer says of its sequence: the batch on the wire
\* carries it, and a stored batch has raised the server's.
AnswerSeq ==
  /\ Alive /\ flush = "await" /\ reply[epoch] = "none" =>
       \A b \in wire : b.epoch = epoch => b.sequence = sequence
  /\ Alive /\ flush = "await" /\ reply[epoch] = "ok" => sequence <= lastSeq

\* Neither the agent nor a batch is ahead of the server's next sequence.
SeqInv ==
  /\ sequence <= lastSeq + 1
  /\ \A b \in wire : b.sequence <= lastSeq + 1
  /\ AnswerSeq

\* The types of the sequences.
LEMMA SequenceTypes ==
  ASSUME Inv
  PROVE  /\ sequence \in Nat /\ lastSeq \in Nat
         /\ epoch \in Epochs /\ reply \in [Epochs -> {"none", "ok", "error"}]
         /\ \A b \in wire : b.sequence \in Nat /\ b.epoch \in Epochs
BY DEF Inv, TypeInv, TypeOK, ThreadTypeOK, BackendTypeOK, ProcessTypeOK,
       AgentEventBatch

\* What start() adopts is the server's next sequence.
LEMMA AdoptedIsNext ==
  ASSUME Inv, AdoptSequence
  PROVE  sequence' = lastSeq + 1
BY SequenceTypes DEF AdoptSequence, NextSequence, Adopted

\* Steps of the main thread, signals and crashes.
LEMMA MainAnswer ==
  ASSUME Inv, MainStep \/ Signal \/ Crash
  PROVE  /\ UNCHANGED <<lastSeq, stored, epoch, reply>>
         /\ wire' \subseteq wire
         /\ Alive' => Alive /\ wire' = wire
         /\ flush' = flush \/ (flush \in {"none", "created"} /\ flush' # "await")
         /\ sequence' = sequence \/ (AdoptSequence /\ flush = "none")
<1>1. /\ UNCHANGED <<lastSeq, stored, epoch, reply>> /\ wire' \subseteq wire
      /\ Alive' => Alive /\ wire' = wire
  BY MainFrame
<1>2. \/ UNCHANGED flush
      \/ main = "create" /\ flush' = "created"
      \/ main = "startFlush" /\ flush' = "top"
  BY MainFrame
<1>3. \/ UNCHANGED sequence
      \/ main \in {"sync", "resync"} /\ AdoptSequence
  BY DEF MainStep, Register, SyncSequence, StartCollector, StartCollectorThreads,
     StartThreads, StopSet, StopCollector, JoinThreads, Signal, Crash, flushVars
<1>4. StartInv
  BY DEF Inv, StreamInv
<1>5. flush' = flush \/ (flush \in {"none", "created"} /\ flush' # "await")
  BY <1>2, <1>4 DEF StartInv, Starting
<1>6. sequence' = sequence \/ (AdoptSequence /\ flush = "none")
  BY <1>3, <1>4 DEF StartInv, Starting
<1>7. QED
  BY <1>1, <1>5, <1>6

\* Steps that concern neither the sequence nor a request.
LEMMA QuietSequence ==
  ASSUME Inv, [Next]_vars,
         ~(MainStep \/ Signal \/ Crash), ~Restart, ~FlushSend,
         ~FlushAcknowledged, ~FlushFails, ~ServerStep
  PROVE  /\ UNCHANGED <<main, epoch, sequence, lastSeq, stored, wire, reply>>
         /\ \/ flush' = flush
            \/ flush \in {"top", "get", "decide"}
               /\ flush' \notin {"await", "none", "created"}
<1>1. CASE UNCHANGED vars
  BY <1>1 DEF vars, processVars, flushVars, backendVars, netVars
<1>2. CASE HeartbeatStep
  BY <1>2 DEF HeartbeatStep, HeartbeatTop, HeartbeatPost, HeartbeatSleep,
     processVars, flushVars, backendVars, netVars
<1>3. CASE DispatchStep
  BY <1>3 DEF DispatchStep, DispatchTop, DispatchEmpty, DispatchGet, EnqueueEvent,
     processVars, flushVars, backendVars, netVars
<1>4. CASE FlushTop \/ FlushGet \/ FlushDecide
  BY <1>4 DEF FlushTop, FlushGet, FlushDecide, processVars, backendVars, netVars
<1>5. QED
  BY <1>1, <1>2, <1>3, <1>4 DEF Next, FlushStep, Finished

\* What the server makes of a batch: it is the running process's only if the
\* flush thread waits for its answer, or has given up on it.
LEMMA AcceptedBatch ==
  ASSUME Inv, NEW b \in wire, Alive, b.epoch = epoch, flush # "dead"
  PROVE  flush = "await" /\ reply[epoch] = "none"
BY DEF Inv, StreamInv, AwaitInv, NoneOnWire

-----------------------------------------------------------------------------
\* No step takes the agent or a batch ahead of the server.
LEMMA SequenceStep ==
  ASSUME Inv, SeqInv, [Next]_vars
  PROVE  SeqInv' /\ lastSeq' <= lastSeq + 1
<1>0. /\ sequence \in Nat /\ lastSeq \in Nat
      /\ epoch \in Epochs /\ reply \in [Epochs -> {"none", "ok", "error"}]
      /\ \A b \in wire : b.sequence \in Nat /\ b.epoch \in Epochs
  BY SequenceTypes
<1>1. CASE MainStep \/ Signal \/ Crash
  <2>1. /\ UNCHANGED <<lastSeq, stored, epoch, reply>>
        /\ wire' \subseteq wire
        /\ Alive' => Alive /\ wire' = wire
        /\ flush' = flush \/ flush' # "await"
        /\ sequence' = sequence \/ (sequence' = lastSeq + 1 /\ flush = "none")
        /\ flush \in {"none", "created"} => flush' # "await"
    BY <1>1, MainAnswer, AdoptedIsNext
  <2>2. AnswerSeq'
    BY <2>1 DEF SeqInv, AnswerSeq
  <2>3. sequence' <= lastSeq' + 1 /\ \A b \in wire' : b.sequence <= lastSeq' + 1
    BY <1>0, <2>1 DEF SeqInv
  <2>4. QED
    BY <1>0, <2>1, <2>2, <2>3 DEF SeqInv
<1>2. CASE Restart
  <2>1. sequence' = 0 /\ flush' = "none" /\ UNCHANGED <<wire, lastSeq>>
    BY <1>2 DEF Restart, backendVars, netVars
  <2>2. QED
    BY <1>0, <2>1 DEF SeqInv, AnswerSeq
<1>3. CASE FlushSend
  <2> DEFINE b == [epoch |-> epoch, sequence |-> sequence, events |-> buffer]
  <2>1. /\ UNCHANGED <<sequence, lastSeq, epoch, main>>
        /\ wire' = wire \cup {b} /\ reply' = [reply EXCEPT ![epoch] = "none"]
        /\ NoneOnWire
    BY <1>3 DEF FlushSend, SendEvents, processVars, backendVars, Inv, StreamInv,
                AwaitInv
  <2>2. b.epoch = epoch /\ b.sequence = sequence
    OBVIOUS
  <2> HIDE DEF b
  <2>3. reply'[epoch'] = "none"
    BY <1>0, <2>1
  <2>4. AnswerSeq'
    BY <2>1, <2>2, <2>3 DEF AnswerSeq, NoneOnWire
  <2>5. QED
    BY <1>0, <2>1, <2>2, <2>4 DEF SeqInv
<1>4. CASE FlushAcknowledged
  <2>1. /\ sequence' = sequence + 1 /\ flush' = "top"
        /\ UNCHANGED <<lastSeq, wire>>
        /\ sequence <= lastSeq
    BY <1>4 DEF FlushAcknowledged, SequenceAfter, backendVars, netVars, SeqInv,
                AnswerSeq
  <2>2. QED
    BY <1>0, <2>1 DEF SeqInv, AnswerSeq
<1>5. CASE FlushFails
  <2>1. flush' = "dead" /\ UNCHANGED <<sequence, lastSeq>> /\ wire' \subseteq wire
    BY <1>5 DEF FlushFails, Abandoned, backendVars
  <2>2. QED
    BY <1>0, <2>1 DEF SeqInv, AnswerSeq
<1>6. CASE ServerStep
  <2>1. UNCHANGED <<sequence, epoch, main, flush>>
    BY <1>6 DEF ServerStep, processVars, flushVars
  <2>2. CASE ForgetAgent
    BY <1>0, <2>1, <2>2 DEF ForgetAgent, SeqInv, AnswerSeq, Alive
  <2>3. ASSUME NEW b \in wire, AcceptBatch(b)
        PROVE  SeqInv' /\ lastSeq' <= lastSeq + 1
    <3>1. /\ wire' = wire \ {b}
          /\ lastSeq' = IF b.sequence > lastSeq THEN b.sequence ELSE lastSeq
          /\ reply' = [reply EXCEPT ![b.epoch] = "ok"]
      BY <2>3 DEF AcceptBatch
    <3>2. /\ lastSeq' \in Nat /\ lastSeq <= lastSeq' /\ b.sequence <= lastSeq'
          /\ lastSeq' <= lastSeq + 1
      BY <1>0, <3>1 DEF SeqInv
    <3>3. sequence' <= lastSeq' + 1 /\ \A c \in wire' : c.sequence <= lastSeq' + 1
      BY <1>0, <2>1, <3>1, <3>2 DEF SeqInv
    <3>4. AnswerSeq'
      <4>1. CASE b.epoch # epoch
        <5>1. reply'[epoch'] = reply[epoch]
          BY <1>0, <2>1, <3>1, <4>1
        <5>2. Alive /\ flush = "await" /\ reply[epoch] = "ok" => sequence <= lastSeq'
          BY <1>0, <3>2 DEF SeqInv, AnswerSeq
        <5>3. QED
          BY <2>1, <3>1, <5>1, <5>2 DEF SeqInv, AnswerSeq, Alive
      <4>2. CASE b.epoch = epoch
        <5>1. reply'[epoch'] = "ok"
          BY <1>0, <2>1, <3>1, <4>2
        <5>2. Alive /\ flush = "await" => sequence <= lastSeq'
          BY <3>2, <4>2, AcceptedBatch DEF SeqInv, AnswerSeq
        <5>3. QED
          BY <2>1, <5>1, <5>2 DEF AnswerSeq, Alive
      <4>3. QED
        BY <4>1, <4>2
    <3>5. QED
      BY <3>2, <3>3, <3>4 DEF SeqInv
  <2>4. ASSUME NEW b \in wire, RejectBatch(b)
        PROVE  SeqInv' /\ lastSeq' <= lastSeq + 1
    <3>1. /\ wire' = wire \ {b} /\ UNCHANGED lastSeq
          /\ reply' = [reply EXCEPT ![b.epoch] = "error"]
      BY <2>4 DEF RejectBatch, backendVars
    <3>2. reply'[epoch'] = reply[epoch] \/ reply'[epoch'] = "error"
      BY <1>0, <2>1, <3>1
    <3>3. AnswerSeq'
      BY <2>1, <3>1, <3>2 DEF SeqInv, AnswerSeq, Alive
    <3>4. QED
      BY <1>0, <2>1, <3>1, <3>3 DEF SeqInv
  <2>5. QED
    BY <1>6, <2>2, <2>3, <2>4 DEF ServerStep, BackendNext
<1>7. CASE ~(MainStep \/ Signal \/ Crash) /\ ~Restart /\ ~FlushSend
           /\ ~FlushAcknowledged /\ ~FlushFails /\ ~ServerStep
  <2>1. /\ UNCHANGED <<main, epoch, sequence, lastSeq, stored, wire, reply>>
        /\ flush' = flush \/ flush' # "await"
    BY <1>7, QuietSequence
  <2>2. QED
    BY <1>0, <2>1 DEF SeqInv, AnswerSeq, Alive
<1>8. QED
  BY <1>1, <1>2, <1>3, <1>4, <1>5, <1>6, <1>7

(***************************************************************************)
(* Whatever fails, and however often the agent is restarted: the server    *)
(* never stores a batch whose sequence leaves out a number.                *)
(***************************************************************************)
THEOREM SequenceWithoutGap == Spec => NoSequenceGap
<1>1. Init => Inv /\ SeqInv
  <2>1. Init => SeqInv
    BY DEF Init, BackendInit, SeqInv, AnswerSeq
  <2>2. QED
    BY <2>1, InitTyped, InitStream DEF Inv
<1>2. Inv /\ SeqInv /\ [Next]_vars => Inv' /\ SeqInv'
  BY StepTyped, StreamStep, SequenceStep DEF Inv
<1>3. Inv /\ SeqInv /\ [Next]_vars => [lastSeq' <= lastSeq + 1]_vars
  BY SequenceStep
<1>4. QED
  BY <1>1, <1>2, <1>3, PTL DEF Spec, NoSequenceGap
=============================================================================
