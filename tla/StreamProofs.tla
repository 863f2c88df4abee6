---------------------------- MODULE StreamProofs ----------------------------
(***************************************************************************)
(* Proof that the agent and the server implement the upload channel, by    *)
(* the invariant StreamInv.                                                *)
(***************************************************************************)
EXTENDS AgentProofs

Inv == TypeInv /\ StreamInv

\* What the assumptions say of the bounds, whatever the batch size.
LEMMA Bounds ==
  /\ MaxBatch \in Nat \ {0}
  /\ MaxEvents \in Nat
  /\ BatchSize \in Int
  /\ BatchSize <= MaxBatch
  /\ Epochs = 1..MaxEpochs /\ MaxEpochs \in Nat
BY BackendAssumption, AgentAssumption
   DEF BackendAssumption, AgentAssumption, MaxBatch, Epochs

\* The types the arithmetic of the stream needs.
LEMMA StreamTypes ==
  ASSUME TypeInv
  PROVE  /\ buffer \in Seq(Event) /\ Len(buffer) \in Nat /\ DOMAIN buffer = 1..Len(buffer)
         /\ queue \in Seq(Event) /\ Len(queue) \in Nat /\ DOMAIN queue = 1..Len(queue)
         /\ stored \in Seq(Event) /\ Len(stored) \in Nat /\ DOMAIN stored = 1..Len(stored)
         /\ epoch \in Epochs
         /\ produced \in [Epochs -> 0..MaxEvents]
         /\ produced[epoch] \in 0..MaxEvents /\ produced[epoch] \in Nat
         /\ InHand \in {0, 1}
         /\ Base \in Int
<1>1. buffer \in Seq(Event) /\ queue \in Seq(Event)
  BY DEF TypeInv, TypeOK, QueueTypeOK
<1>2. stored \in Seq(Event)
  BY DEF TypeInv, TypeOK, BackendTypeOK
<1>3. /\ Len(buffer) \in Nat /\ DOMAIN buffer = 1..Len(buffer)
      /\ Len(queue) \in Nat /\ DOMAIN queue = 1..Len(queue)
      /\ Len(stored) \in Nat /\ DOMAIN stored = 1..Len(stored)
  BY <1>1, <1>2, LenProperties
<1>4. epoch \in Epochs /\ produced \in [Epochs -> 0..MaxEvents]
  BY DEF TypeInv, TypeOK, ProcessTypeOK, CollectTypeOK, SourceTypeOK
<1>5. produced[epoch] \in 0..MaxEvents /\ produced[epoch] \in Nat
  BY <1>4, Bounds
<1>6. InHand \in {0, 1}
  BY DEF InHand
<1>7. Base \in Int
  BY <1>3, <1>5, <1>6 DEF Base
<1>8. QED
  BY <1>1, <1>2, <1>3, <1>4, <1>5, <1>6, <1>7

\* The types of a batch on the wire.
LEMMA BatchTypes ==
  ASSUME TypeInv, NEW b \in wire
  PROVE  /\ b.epoch \in Epochs /\ b.epoch \in Nat
         /\ b.events \in Seq(Event) /\ Len(b.events) \in Nat
         /\ DOMAIN b.events = 1..Len(b.events)
<1>1. b.epoch \in Epochs /\ b.events \in Seq(Event)
  BY DEF TypeInv, TypeOK, BackendTypeOK, AgentEventBatch
<1>2. QED
  BY <1>1, Bounds, LenProperties

\* The types of a stored event.
LEMMA StoredTypes ==
  ASSUME TypeInv, NEW i \in DOMAIN stored
  PROVE  stored[i].epoch \in Nat /\ stored[i].n \in Nat
<1>1. stored[i] \in Event
  BY StreamTypes, ElementOfSeq
<1>2. QED
  BY <1>1, Bounds DEF Event

-----------------------------------------------------------------------------
(* Parts of the invariant that a step leaves alone. *)

\* The pipe is as it was unless one of its ends moves.
LEMMA PipeFrame ==
  ASSUME PipeInv, UNCHANGED <<epoch, produced, queue, buffer, dispatch>>
  PROVE  PipeInv' /\ Base' = Base
BY DEF PipeInv, Base, InHand, Continues

\* What is all but stored depends on nothing else than these.
LEMMA AlmostFrame ==
  ASSUME UNCHANGED <<epoch, stored>>, Base' = Base
  PROVE  AlmostStored' <=> AlmostStored
BY DEF AlmostStored, Channel!LastStored

\* Batches may leave the wire; what was produced may grow.
LEMMA WireFrame ==
  ASSUME TypeInv, WireInv, wire' \subseteq wire, UNCHANGED stored,
         epoch' \in Nat, epoch <= epoch',
         produced' \in [Epochs -> 0..MaxEvents],
         \A e \in Epochs : produced[e] <= produced'[e]
  PROVE  WireInv'
<1> SUFFICES ASSUME NEW b \in wire'
             PROVE  /\ b.epoch <= epoch'
                    /\ Len(b.events) \in 1..MaxBatch
                    /\ \A c \in wire' : c.epoch = b.epoch => c = b
                    /\ \E m \in 0..MaxEvents :
                         /\ Channel!LastStored(b.epoch, m)'
                         /\ Continues(b.events, b.epoch, m)
                         /\ m + Len(b.events) <= produced'[b.epoch]
  BY DEF WireInv, Continues
<1>1. b \in wire
  OBVIOUS
<1>2. b.epoch <= epoch'
  BY <1>1, BatchTypes, StreamTypes, Bounds DEF WireInv
<1>3. PICK m \in 0..MaxEvents : /\ Channel!LastStored(b.epoch, m)
                               /\ Continues(b.events, b.epoch, m)
                               /\ m + Len(b.events) <= produced[b.epoch]
  BY <1>1 DEF WireInv
<1>4. Channel!LastStored(b.epoch, m)'
  BY <1>3 DEF Channel!LastStored
<1>5. m + Len(b.events) <= produced'[b.epoch]
  <2>1. /\ m \in Nat /\ Len(b.events) \in Nat /\ b.epoch \in Epochs
        /\ produced[b.epoch] \in Nat /\ produced'[b.epoch] \in Nat
        /\ produced[b.epoch] <= produced'[b.epoch]
    BY <1>1, BatchTypes, StreamTypes, Bounds
  <2>2. QED
    BY <2>1, <1>3
<1>6. QED
  BY <1>1, <1>2, <1>3, <1>4, <1>5 DEF WireInv

-----------------------------------------------------------------------------
\* Before anything is collected every event is where it should be: nowhere.
LEMMA InitStream == Init => StreamInv
<1> SUFFICES ASSUME Init
             PROVE  StreamInv
  OBVIOUS
<1>1. /\ queue = <<>> /\ buffer = <<>> /\ stored = <<>> /\ wire = {}
      /\ flush = "none" /\ dispatch = "top" /\ main = "register"
      /\ epoch \in Epochs /\ epoch \in Nat
      /\ \A e \in Epochs : produced[e] = 0
  BY Bounds, BackendAssumption DEF Init, BackendInit, SourceInit, BackendAssumption
<1>2. /\ Len(queue) = 0 /\ Len(buffer) = 0
      /\ DOMAIN queue = {} /\ DOMAIN buffer = {} /\ DOMAIN stored = {}
  BY <1>1
<1>3. Base = 0 /\ Base + Len(buffer) = 0
  BY <1>1, <1>2 DEF Base, InHand
<1>4. PipeInv
  BY <1>2, <1>3 DEF PipeInv, Continues
<1>5. BatchInv
  BY <1>1, <1>2, Bounds DEF BatchInv
<1>6. WireInv
  BY <1>1 DEF WireInv
<1>7. AwaitInv
  BY <1>1, <1>2, <1>3 DEF AwaitInv, NoneOnWire, Channel!LastStored
<1>8. StartInv /\ FutureInv
  BY <1>1, <1>2 DEF StartInv, Starting, FutureInv
<1>9. QED
  BY <1>4, <1>5, <1>6, <1>7, <1>8 DEF StreamInv

\* What the steps of the main thread leave alone: they start the flush thread,
\* and they end the process.
LEMMA MainFrame ==
  ASSUME MainStep \/ Signal \/ Crash
  PROVE  /\ UNCHANGED <<epoch, produced, queue, buffer, dispatch, lastSeq, stored, reply>>
         /\ wire' \subseteq wire
         /\ Alive' => Alive /\ wire' = wire
         /\ ~Alive' => wire' = Abandoned(epoch)
         /\ stop' \in {stop, TRUE}
         /\ \/ UNCHANGED flush
            \/ main = "create" /\ flush' = "created"
            \/ main = "startFlush" /\ flush' = "top"
<1> USE DEF collectVars, sourceVars, flushVars, backendVars, netVars, Alive, Ended
<1>1. CASE Register("register", "sync") \/ Register("reregister", "resync")
  BY <1>1 DEF Register, RegisterOk, RegisterFails, End, Abandoned
<1>2. CASE SyncSequence
  BY <1>2 DEF SyncSequence, AdoptSequence, End, Abandoned
<1>3. CASE StartCollector \/ StartCollectorThreads \/ StartThreads
  BY <1>3 DEF StartCollector, CreateThreads, StartCollectorThreads, RunThreads,
              StartThreads, End, Abandoned
<1>4. CASE StopSet \/ StopCollector \/ JoinThreads
  BY <1>4 DEF StopSet, StopCollector, Stop, JoinThreads, End, Abandoned
<1>5. CASE Signal \/ Crash
  BY <1>5 DEF Signal, InsideSet, Crash, End, Abandoned
<1>6. QED
  BY <1>1, <1>2, <1>3, <1>4, <1>5 DEF MainStep

\* The main thread only ever starts the flush thread, and ends the process.
LEMMA MainStream ==
  ASSUME Inv, MainStep \/ Signal \/ Crash
  PROVE  StreamInv'
<1> USE DEF Inv, StreamInv
<1>1. /\ UNCHANGED <<epoch, produced, queue, buffer, dispatch, stored>>
      /\ wire' \subseteq wire /\ (Alive' => wire' = wire)
      /\ UNCHANGED reply
  BY MainFrame
<1>2. \/ UNCHANGED flush
      \/ main = "create" /\ flush' = "created"
      \/ main = "startFlush" /\ flush' = "top"
  BY MainFrame
<1>3. flush' = flush \/ (flush = "none" /\ flush' = "created")
                     \/ (flush = "created" /\ flush' = "top")
  BY <1>2 DEF StartInv, Starting
<1>4. PipeInv' /\ Base' = Base
  BY <1>1, PipeFrame
<1>5. BatchInv'
  BY <1>1, <1>3 DEF BatchInv
<1>6. WireInv'
  BY <1>1, WireFrame, StreamTypes, Bounds
<1>7. AwaitInv'
  <2>1. Alive' => Alive
    BY MainFrame
  <2>2. /\ Channel!LastStored(epoch, Base)' <=> Channel!LastStored(epoch, Base)
        /\ Channel!LastStored(epoch, Base + Len(buffer))'
             <=> Channel!LastStored(epoch, Base + Len(buffer))
    BY <1>1, <1>4 DEF Channel!LastStored
  <2>3. CASE Alive'
    <3>1. Alive /\ UNCHANGED <<wire, reply, epoch, buffer>>
      BY <2>1, <2>3, <1>1
    <3>2. (NoneOnWire' <=> NoneOnWire)
      BY <3>1 DEF NoneOnWire
    <3>3. QED
      BY <3>1, <3>2, <2>2, <1>1, <1>3, <1>4, AlmostFrame DEF AwaitInv
  <2>4. CASE ~Alive'
    BY <2>4 DEF AwaitInv
  <2>5. QED
    BY <2>3, <2>4
<1>8. StartInv'
  BY DEF StartInv, Starting, Ended, MainStep, Register, SyncSequence,
         AdoptSequence, StartCollector, CreateThreads, StartCollectorThreads,
         RunThreads, StartThreads, StopSet, StopCollector, Stop, End,
         JoinThreads, Signal, Crash, End, flushVars
<1>9. FutureInv'
  BY <1>1 DEF FutureInv
<1>10. QED
  BY <1>4, <1>5, <1>6, <1>7, <1>8, <1>9

\* A new epoch starts with an empty pipe, and has left no trace before.
LEMMA RestartStream ==
  ASSUME Inv, Restart
  PROVE  StreamInv'
<1> USE DEF Inv, StreamInv
<1>1. /\ epoch' = epoch + 1 /\ main' = "register" /\ flush' = "none"
      /\ queue' = <<>> /\ buffer' = <<>> /\ dispatch' = "top"
      /\ UNCHANGED <<produced, stored, wire>>
  BY DEF Restart, backendVars, netVars
<1>2. epoch \in Nat /\ epoch' \in Epochs /\ epoch' > epoch
  BY StreamTypes, Bounds DEF Restart
<1>3. produced'[epoch'] = 0
  BY <1>1, <1>2 DEF FutureInv
<1>4. PipeInv' /\ Base' = 0
  <2>1. /\ Len(queue') = 0 /\ Len(buffer') = 0
        /\ DOMAIN queue' = {} /\ DOMAIN buffer' = {} /\ dispatch' # "put"
    BY <1>1
  <2>2. Base' = 0
    <3>1. InHand' = 0
      BY <2>1 DEF InHand
    <3>2. Base' = 0 - 0 - 0 - 0
      BY <2>1, <3>1, <1>3 DEF Base
    <3>3. QED
      BY <3>2
  <2>3. QED
    BY <2>1, <2>2 DEF PipeInv, Continues
<1>5. BatchInv'
  BY <1>1, Bounds DEF BatchInv
<1>6. WireInv'
  BY <1>1, <1>2, WireFrame, StreamTypes, Bounds
<1>7. NoneOnWire'
  BY <1>1, <1>2, BatchTypes DEF WireInv, NoneOnWire
<1>8. Channel!LastStored(epoch, 0)'
  <2>1. \A i \in DOMAIN stored : stored[i].epoch # epoch'
    BY <1>2, StoredTypes DEF FutureInv
  <2>2. QED
    BY <1>1, <2>1 DEF Channel!LastStored
<1>9. AwaitInv'
  BY <1>1, <1>4, <1>7, <1>8 DEF AwaitInv, Channel!LastStored
<1>10. StartInv'
  BY <1>1 DEF StartInv, Starting
<1>11. FutureInv'
  <2>1. \A i \in DOMAIN stored : stored[i].epoch <= epoch'
    <3>1. \A i \in DOMAIN stored : stored[i].epoch \in Nat /\ stored[i].epoch <= epoch
      BY StoredTypes DEF FutureInv
    <3>2. QED
      BY <3>1, <1>2, Bounds
  <2>2. \A e \in Epochs : e > epoch' => produced[e] = 0
    BY <1>1, <1>2, Bounds DEF FutureInv
  <2>3. QED
    BY <1>1, <2>1, <2>2 DEF FutureInv
<1>12. QED
  BY <1>4, <1>5, <1>6, <1>9, <1>10, <1>11
-----------------------------------------------------------------------------
\* A step that leaves the flush thread and the wire alone.
LEMMA RestFrame ==
  ASSUME Inv, PipeInv', Base' = Base,
         UNCHANGED <<epoch, main, flush, buffer, stored, wire, reply>>,
         produced' \in [Epochs -> 0..MaxEvents],
         \A e \in Epochs : produced[e] <= produced'[e],
         \A e \in Epochs : e > epoch => produced'[e] = produced[e]
  PROVE  StreamInv'
<1> USE DEF Inv, StreamInv
<1>1. epoch' \in Nat /\ epoch <= epoch'
  BY StreamTypes, Bounds
<1>2. WireInv'
  <2>1. WireInv /\ TypeInv /\ wire' \subseteq wire
    OBVIOUS
  <2>2. QED
    BY <1>1, <2>1, WireFrame
<1>3. BatchInv'
  BY DEF BatchInv
<1>4. AwaitInv'
  BY AlmostFrame DEF AwaitInv, NoneOnWire, Channel!LastStored, Alive
<1>5. StartInv' /\ FutureInv'
  BY DEF StartInv, FutureInv
<1>6. QED
  BY <1>2, <1>3, <1>4, <1>5

\* The dispatch thread takes up an event and appends it to the queue.
LEMMA DispatchStream ==
  ASSUME Inv, DispatchStep
  PROVE  StreamInv'
<1>1. /\ UNCHANGED <<epoch, main, flush, buffer, stored, wire, reply>>
      /\ TypeInv /\ PipeInv
  BY DEF DispatchStep, DispatchTop, Poll, DispatchEmpty, PollEmpty, DispatchGet,
         Call, DemoCall, EnqueueEvent, Return, processVars,
         flushVars, backendVars, netVars, Inv, StreamInv
<1>2. CASE DispatchTop \/ DispatchEmpty
  <2>1. UNCHANGED <<produced, queue>> /\ InHand' = InHand
    BY <1>2 DEF DispatchTop, Poll, DispatchEmpty, PollEmpty, InHand
  <2>2. PipeInv' /\ Base' = Base
    BY <1>1, <2>1 DEF PipeInv, Base, Continues
  <2>3. \A e \in Epochs : produced[e] <= produced'[e]
    BY <2>1, <1>1, StreamTypes, Bounds
  <2>4. QED
    BY <1>1, <2>1, <2>2, <2>3, RestFrame, StreamTypes
<1>3. CASE DispatchGet
  <2>1. /\ UNCHANGED queue
        /\ dispatch # "put" /\ dispatch' = "put"
        /\ produced[epoch] < MaxEvents
        /\ produced' = [produced EXCEPT ![epoch] = @ + 1]
    BY <1>3 DEF DispatchGet, Call, DemoCall
  <2>2. InHand = 0 /\ InHand' = 1
    BY <2>1 DEF InHand
  <2>3. /\ produced'[epoch'] = produced[epoch] + 1
        /\ produced' \in [Epochs -> 0..MaxEvents]
        /\ \A e \in Epochs : produced[e] <= produced'[e]
        /\ \A e \in Epochs : e > epoch => produced'[e] = produced[e]
    BY <1>1, <2>1, StreamTypes, Bounds
  <2>4. Base' = Base
    <3>1. Base = produced[epoch] - 0 - Len(queue) - Len(buffer)
      BY <2>2 DEF Base
    <3>2. Base' = (produced[epoch] + 1) - 1 - Len(queue) - Len(buffer)
      BY <1>1, <2>1, <2>2, <2>3 DEF Base
    <3>3. /\ produced[epoch] \in Nat /\ Len(queue) \in Nat /\ Len(buffer) \in Nat
      BY <1>1, StreamTypes
    <3>4. QED
      BY <3>1, <3>2, <3>3
  <2>5. PipeInv'
    BY <1>1, <2>1, <2>4 DEF PipeInv, Continues
  <2>6. QED
    BY <1>1, <2>3, <2>4, <2>5, RestFrame
<1>4. CASE EnqueueEvent
  <2> DEFINE event == [epoch |-> epoch, n |-> produced[epoch]]
  <2>1. /\ dispatch = "put" /\ dispatch' = "top"
        /\ UNCHANGED produced
        /\ queue' = Append(queue, event)
    BY <1>4 DEF EnqueueEvent, Return
  <2>2. InHand = 1 /\ InHand' = 0
    BY <2>1 DEF InHand
  <2>3. /\ queue \in Seq(Event) /\ event \in Event
        /\ produced[epoch] \in Nat
        /\ Len(queue) \in Nat /\ Len(buffer) \in Nat
        /\ DOMAIN queue = 1..Len(queue)
    <3>1. produced[epoch] \in 1..MaxEvents
      BY <1>1, <2>1, StreamTypes, Bounds DEF TypeInv, HandInv
    <3>2. event \in Event
      BY <1>1, <3>1, StreamTypes DEF Event
    <3>3. QED
      BY <1>1, <3>2, StreamTypes
  <2> HIDE DEF event
  <2>4. /\ Len(queue') = Len(queue) + 1
        /\ DOMAIN queue' = 1..Len(queue) + 1
        /\ \A i \in 1..Len(queue) : queue'[i] = queue[i]
        /\ queue'[Len(queue) + 1] = event
    BY <2>1, <2>3, AppendProperties, LenProperties
  <2>5. /\ Base = produced[epoch] - 1 - Len(queue) - Len(buffer)
        /\ Base' = produced[epoch] - 0 - (Len(queue) + 1) - Len(buffer)
    BY <1>1, <2>1, <2>2, <2>4 DEF Base
  <2>6. /\ Base' = Base /\ Base \in Int
        /\ produced[epoch] = Base + Len(buffer) + (Len(queue) + 1)
    BY <2>3, <2>5
  <2>7. Continues(queue', epoch, Base + Len(buffer))
    <3> SUFFICES ASSUME NEW i \in 1..Len(queue) + 1
                 PROVE  queue'[i] = [epoch |-> epoch, n |-> Base + Len(buffer) + i]
      BY <2>4 DEF Continues
    <3>1. CASE i = Len(queue) + 1
      BY <3>1, <2>4, <2>6 DEF event
    <3>2. CASE i # Len(queue) + 1
      <4>1. i \in 1..Len(queue)
        BY <3>2, <2>3
      <4>2. QED
        BY <4>1, <1>1, <2>3, <2>4 DEF PipeInv, Continues
    <3>3. QED
      BY <3>1, <3>2
  <2>8. PipeInv'
    <3>1. /\ Continues(queue', epoch', Base' + Len(buffer'))
          /\ Continues(buffer', epoch', Base') /\ Base' >= 0
      BY <1>1, <2>6, <2>7 DEF PipeInv
    <3>2. QED
      BY <3>1 DEF PipeInv, Continues
  <2>9. \A e \in Epochs : produced[e] <= produced'[e]
    BY <2>1, <1>1, StreamTypes, Bounds
  <2>10. QED
    BY <1>1, <2>1, <2>6, <2>8, <2>9, RestFrame, StreamTypes
<1>5. QED
  BY <1>2, <1>3, <1>4 DEF DispatchStep
-----------------------------------------------------------------------------
\* A step of the flush thread that neither begins nor ends a request.
LEMMA FlushFrame ==
  ASSUME Inv, PipeInv', BatchInv', Base' = Base,
         UNCHANGED <<epoch, main, produced, stored, wire, reply>>,
         flush \notin {"await", "dead", "none", "created", "ended"},
         flush' \notin {"await", "ended"}
  PROVE  StreamInv'
<1> USE DEF Inv, StreamInv
<1>1. WireInv' /\ FutureInv'
  BY DEF WireInv, FutureInv, Continues, Channel!LastStored
<1>2. AwaitInv'
  BY DEF AwaitInv, NoneOnWire, Channel!LastStored, Alive
<1>3. StartInv'
  BY DEF StartInv, Starting
<1>4. QED
  BY <1>1, <1>2, <1>3

\* The first event of the queue becomes the last of the buffer.
LEMMA GetStream ==
  ASSUME Inv, Alive, flush = "get", flush' = "decide", queue # <<>>,
         buffer' = Append(buffer, Head(queue)), queue' = Tail(queue),
         UNCHANGED <<epoch, main, produced, dispatch, stored, wire, reply>>
  PROVE  StreamInv'
<1>1. TypeInv /\ PipeInv /\ BatchInv
  BY DEF Inv, StreamInv
<1>2. /\ queue \in Seq(Event) /\ buffer \in Seq(Event)
      /\ Len(queue) \in Nat /\ Len(buffer) \in Nat
      /\ DOMAIN queue = 1..Len(queue) /\ DOMAIN buffer = 1..Len(buffer)
      /\ Base \in Int
  BY <1>1, StreamTypes
<1>3. /\ Head(queue) = queue[1] /\ Head(queue) \in Event
      /\ queue' \in Seq(Event) /\ Len(queue') = Len(queue) - 1
      /\ \A i \in 1..Len(queue') : queue'[i] = queue[i + 1]
  BY <1>2, HeadTailProperties
<1>4. /\ buffer' \in Seq(Event) /\ Len(buffer') = Len(buffer) + 1
      /\ \A i \in 1..Len(buffer) : buffer'[i] = buffer[i]
      /\ buffer'[Len(buffer) + 1] = queue[1]
  BY <1>2, <1>3, AppendProperties
<1>5. DOMAIN queue' = 1..Len(queue') /\ DOMAIN buffer' = 1..Len(buffer')
      /\ Len(queue') \in Nat
  BY <1>3, <1>4, LenProperties
<1>6. Base' = Base
  <2>1. /\ Base = produced[epoch] - InHand - Len(queue) - Len(buffer)
        /\ Base' = produced[epoch] - InHand - (Len(queue) - 1) - (Len(buffer) + 1)
    BY <1>3, <1>4 DEF Base, InHand
  <2>2. produced[epoch] \in Nat /\ InHand \in {0, 1}
    BY <1>1, StreamTypes
  <2>3. QED
    BY <2>1, <2>2, <1>2
<1>7. \A i \in 1..Len(queue) : queue[i] = [epoch |-> epoch, n |-> Base + Len(buffer) + i]
  BY <1>1, <1>2 DEF PipeInv, Continues
<1>8. Continues(buffer', epoch, Base)
  <2> SUFFICES ASSUME NEW i \in 1..Len(buffer) + 1
               PROVE  buffer'[i] = [epoch |-> epoch, n |-> Base + i]
    BY <1>4, <1>5 DEF Continues
  <2>1. CASE i = Len(buffer) + 1
    <3>1. 1 \in 1..Len(queue)
      BY <1>2, <1>3, <1>5
    <3>2. queue[1] = [epoch |-> epoch, n |-> Base + Len(buffer) + 1]
      BY <3>1, <1>7
    <3>3. Base + Len(buffer) + 1 = Base + i
      BY <2>1, <1>2
    <3>4. QED
      BY <2>1, <3>2, <3>3, <1>4
  <2>2. CASE i # Len(buffer) + 1
    <3>1. i \in 1..Len(buffer)
      BY <2>2, <1>2
    <3>2. QED
      BY <3>1, <1>1, <1>2, <1>4 DEF PipeInv, Continues
  <2>3. QED
    BY <2>1, <2>2
<1>9. Continues(queue', epoch, Base + Len(buffer'))
  <2> SUFFICES ASSUME NEW i \in 1..Len(queue')
               PROVE  queue'[i] = [epoch |-> epoch, n |-> Base + Len(buffer') + i]
    BY <1>5 DEF Continues
  <2>1. i + 1 \in 1..Len(queue)
    BY <1>2, <1>3
  <2>2. queue[i + 1] = [epoch |-> epoch, n |-> Base + Len(buffer) + (i + 1)]
    BY <2>1, <1>7
  <2>3. Base + Len(buffer) + (i + 1) = Base + Len(buffer') + i
    BY <1>2, <1>4
  <2>4. QED
    BY <2>2, <2>3, <1>3
<1>10. PipeInv'
  <2>1. /\ Continues(queue', epoch', Base' + Len(buffer'))
        /\ Continues(buffer', epoch', Base') /\ Base' >= 0
    BY <1>1, <1>6, <1>8, <1>9 DEF PipeInv
  <2>2. QED
    BY <2>1 DEF PipeInv, Continues
<1>11. BatchInv'
  BY <1>1, <1>2, <1>4, Bounds DEF BatchInv
<1>12. QED
  BY <1>6, <1>10, <1>11, FlushFrame

\* flush() puts the buffer on the wire: the next batch of its epoch.
LEMMA SendStream ==
  ASSUME Inv, FlushSend
  PROVE  StreamInv'
<1> DEFINE b == [epoch |-> epoch, sequence |-> sequence, events |-> buffer]
<1>1. TypeInv /\ StreamInv /\ NoneOnWire /\ Channel!LastStored(epoch, Base)
  BY DEF Inv, StreamInv, AwaitInv, FlushSend
<1>2. /\ flush = "send" /\ flush' = "await"
      /\ wire' = wire \cup {b}
      /\ reply' = [reply EXCEPT ![epoch] = "none"]
      /\ UNCHANGED <<epoch, main, produced, dispatch, queue, buffer, stored>>
  BY DEF FlushSend, SendEvents, processVars, collectVars, sourceVars, backendVars
<1>3. b.epoch = epoch /\ b.events = buffer
  OBVIOUS
<1> HIDE DEF b
<1>4. PipeInv' /\ Base' = Base
  BY <1>1, <1>2, PipeFrame DEF StreamInv
<1>5. BatchInv' /\ StartInv' /\ FutureInv'
  BY <1>1, <1>2 DEF StreamInv, BatchInv, StartInv, FutureInv, Starting
<1>6. reply'[epoch'] = "none"
  <2>1. epoch \in Epochs /\ reply \in [Epochs -> {"none", "ok", "error"}]
    BY <1>1, StreamTypes DEF TypeInv, TypeOK, BackendTypeOK
  <2>2. QED
    BY <2>1, <1>2
<1>7. WireInv'
  <2> SUFFICES ASSUME NEW c \in wire'
               PROVE  /\ c.epoch <= epoch'
                      /\ Len(c.events) \in 1..MaxBatch
                      /\ \A d \in wire' : d.epoch = c.epoch => d = c
                      /\ \E m \in 0..MaxEvents :
                           /\ Channel!LastStored(c.epoch, m)'
                           /\ Continues(c.events, c.epoch, m)
                           /\ m + Len(c.events) <= produced'[c.epoch]
    BY DEF WireInv, Continues
  <2>1. CASE c \in wire
    <3>1. /\ c.epoch <= epoch
          /\ Len(c.events) \in 1..MaxBatch
          /\ \A d \in wire : d.epoch = c.epoch => d = c
          /\ \E m \in 0..MaxEvents :
               /\ Channel!LastStored(c.epoch, m)
               /\ Continues(c.events, c.epoch, m)
               /\ m + Len(c.events) <= produced[c.epoch]
      BY <1>1, <2>1 DEF StreamInv, WireInv
    <3>2. c.epoch # b.epoch
      BY <1>1, <1>3, <2>1 DEF NoneOnWire
    <3>3. QED
      BY <3>1, <3>2, <1>2 DEF Channel!LastStored
  <2>2. CASE c = b
    <3>1. c.epoch <= epoch'
      BY <2>2, <1>1, <1>2, <1>3, StreamTypes, Bounds
    <3>2. \A d \in wire' : d.epoch = c.epoch => d = c
      BY <2>2, <1>1, <1>2, <1>3 DEF NoneOnWire
    <3>3. /\ Len(buffer) \in Nat /\ Len(queue) \in Nat /\ InHand \in {0, 1}
          /\ Base \in Int /\ produced[epoch] \in 0..MaxEvents
          /\ MaxEvents \in Nat /\ Base >= 0
          /\ Base = produced[epoch] - InHand - Len(queue) - Len(buffer)
      BY <1>1, StreamTypes, Bounds DEF Base, StreamInv, PipeInv
    <3>4. Base \in 0..MaxEvents /\ Base + Len(buffer) <= produced[epoch]
      BY <3>3
    <3>5. Len(buffer) \in 1..MaxBatch
      BY <1>1, <1>2, <3>3, Bounds DEF StreamInv, BatchInv
    <3>6. Channel!LastStored(epoch, Base)'
      BY <1>1, <1>2, <1>4 DEF Channel!LastStored
    <3>7. Continues(buffer, epoch, Base)
      BY <1>1 DEF StreamInv, PipeInv
    <3>8. \E m \in 0..MaxEvents :
            /\ Channel!LastStored(c.epoch, m)'
            /\ Continues(c.events, c.epoch, m)
            /\ m + Len(c.events) <= produced'[c.epoch]
      <4>1. Channel!LastStored(c.epoch, Base)'
        BY <2>2, <1>2, <1>3, <1>4, <3>6 DEF Channel!LastStored
      <4>2. Continues(c.events, c.epoch, Base)
        BY <2>2, <1>3, <3>7
      <4>3. Base + Len(c.events) <= produced'[c.epoch]
        BY <2>2, <1>2, <1>3, <3>4
      <4>4. QED
        BY <4>1, <4>2, <4>3, <3>4, <1>4 DEF Channel!LastStored
    <3>9. QED
      BY <2>2, <1>3, <3>1, <3>2, <3>5, <3>8
  <2>3. QED
    BY <1>2, <2>1, <2>2
<1>8. AwaitInv'
  <2>1. Channel!LastStored(epoch, Base)'
    BY <1>1, <1>2, <1>4 DEF Channel!LastStored
  <2>2. \A c \in wire' : c.epoch = epoch' => c.events = buffer'
    BY <1>1, <1>2, <1>3 DEF NoneOnWire
  <2>3. QED
    BY <2>1, <2>2, <1>2, <1>6 DEF AwaitInv
<1>9. QED
  BY <1>4, <1>5, <1>7, <1>8 DEF StreamInv

\* The answer: the buffer is stored, and the next batch starts after it; or
\* the buffer is given up and the flush thread is over.
LEMMA AnswerStream ==
  ASSUME Inv, FlushAcknowledged \/ FlushFails
  PROVE  StreamInv'
<1>1. /\ TypeInv /\ StreamInv /\ Alive /\ flush = "await"
      /\ buffer' = <<>> /\ wire' \subseteq wire
      /\ UNCHANGED <<epoch, main, produced, dispatch, queue, stored, reply>>
      /\ \/ flush' = "dead"
         \/ flush' = "top" /\ reply[epoch] = "ok" /\ wire' = wire
  BY DEF Inv, FlushAcknowledged, FlushFails, processVars, collectVars, sourceVars,
         backendVars, netVars, Abandoned
<1>2. DOMAIN buffer' = {} /\ Len(buffer') = 0
  BY <1>1
<1>3. /\ Len(buffer) \in Nat /\ Len(queue) \in Nat /\ InHand \in {0, 1}
      /\ Base \in Int /\ produced[epoch] \in Nat /\ Base >= 0
      /\ Base = produced[epoch] - InHand - Len(queue) - Len(buffer)
  BY <1>1, StreamTypes DEF Base, StreamInv, PipeInv
<1>4. Base' = Base + Len(buffer)
  <2>1. InHand' = InHand
    BY <1>1 DEF InHand
  <2>2. Base' = produced[epoch] - InHand - Len(queue) - 0
    BY <1>1, <1>2, <2>1 DEF Base
  <2>3. QED
    BY <2>2, <1>3
<1>5. PipeInv'
  <2>1. Base' >= 0 /\ Base' + Len(buffer') = Base + Len(buffer)
    BY <1>2, <1>3, <1>4
  <2>2. Continues(queue, epoch, Base + Len(buffer))
    BY <1>1 DEF StreamInv, PipeInv
  <2>3. QED
    BY <1>1, <1>2, <2>1, <2>2 DEF PipeInv, Continues
<1>6. BatchInv'
  BY <1>1, <1>2, Bounds DEF BatchInv
<1>7. WireInv'
  <2>1. \A e \in Epochs : produced[e] <= produced'[e]
    BY <1>1, StreamTypes, Bounds
  <2>2. /\ epoch' \in Nat /\ epoch <= epoch' /\ produced' \in [Epochs -> 0..MaxEvents]
    BY <1>1, StreamTypes, Bounds
  <2>3. WireInv
    BY <1>1 DEF StreamInv
  <2>4. QED
    BY <1>1, <2>1, <2>2, <2>3, WireFrame
<1>8. AwaitInv'
  <2>1. CASE flush' = "dead"
    BY <2>1 DEF AwaitInv
  <2>2. CASE flush' = "top" /\ reply[epoch] = "ok" /\ wire' = wire
    <3>1. NoneOnWire /\ Channel!LastStored(epoch, Base + Len(buffer))
      BY <1>1, <2>2 DEF StreamInv, AwaitInv
    <3>2. NoneOnWire' /\ Channel!LastStored(epoch, Base)'
      BY <3>1, <2>2, <1>1, <1>4 DEF NoneOnWire, Channel!LastStored
    <3>3. QED
      BY <3>2, <2>2 DEF AwaitInv
  <2>3. QED
    BY <1>1, <2>1, <2>2
<1>9. StartInv' /\ FutureInv'
  BY <1>1 DEF StreamInv, StartInv, FutureInv, Starting
<1>10. QED
  BY <1>5, <1>6, <1>7, <1>8, <1>9 DEF StreamInv

\* The loop ends on _stop, and less than a batch with it.
LEMMA EndStream ==
  ASSUME Inv, Alive, flush = "top", flush' = "ended", buffer' = <<>>,
         UNCHANGED <<epoch, main, produced, dispatch, queue, stored, wire, reply>>
  PROVE  StreamInv'
<1>1. /\ TypeInv /\ StreamInv /\ NoneOnWire /\ Channel!LastStored(epoch, Base)
  BY DEF Inv, StreamInv, AwaitInv
<1>2. DOMAIN buffer' = {} /\ Len(buffer') = 0
  OBVIOUS
<1>3. /\ Len(buffer) \in Nat /\ Len(queue) \in Nat /\ InHand \in {0, 1}
      /\ Base \in Int /\ produced[epoch] \in Nat /\ Base >= 0
      /\ Base = produced[epoch] - InHand - Len(queue) - Len(buffer)
  BY <1>1, StreamTypes DEF Base, StreamInv, PipeInv
<1>4. Base' = Base + Len(buffer)
  <2>1. InHand' = InHand
    BY DEF InHand
  <2>2. Base' = produced[epoch] - InHand - Len(queue) - 0
    BY <1>2, <2>1 DEF Base
  <2>3. QED
    BY <2>2, <1>3
<1>5. PipeInv'
  <2>1. Base' >= 0 /\ Base' + Len(buffer') = Base + Len(buffer)
    BY <1>2, <1>3, <1>4
  <2>2. Continues(queue, epoch, Base + Len(buffer))
    BY <1>1 DEF StreamInv, PipeInv
  <2>3. QED
    BY <1>2, <2>1, <2>2 DEF PipeInv, Continues
<1>6. BatchInv'
  BY <1>2, Bounds DEF BatchInv
<1>7. WireInv'
  BY <1>1 DEF StreamInv, WireInv, Continues, Channel!LastStored
<1>8. AlmostStored'
  <2>1. Len(buffer) < MaxBatch
    BY <1>1 DEF StreamInv, BatchInv
  <2>2. Base' \in Int /\ Base \in 0..Base' /\ Base' - Base < MaxBatch
    <3>1. MaxBatch \in Nat
      BY Bounds
    <3>2. Base' \in Int
      BY <1>3, <1>4
    <3>3. Base \in 0..Base'
      BY <3>2, <1>3, <1>4
    <3>4. Base' - Base = Len(buffer)
      <4>1. \A i \in Int, j \in Nat : (i + j) - i = j
        OBVIOUS
      <4>2. Base \in Int /\ Len(buffer) \in Nat
        BY <1>3
      <4>3. QED
        BY ONLY <4>1, <4>2, <1>4
    <3>5. QED
      BY <3>1, <3>2, <3>3, <3>4, <2>1
  <2>3. PICK m \in 0..Base' : m = Base
    BY <2>2
  <2>4. Channel!LastStored(epoch, m)' /\ Base' - m < MaxBatch
    BY <1>1, <2>2, <2>3 DEF Channel!LastStored
  <2>5. QED
    BY <2>4 DEF AlmostStored, Channel!LastStored
<1>9. AwaitInv'
  BY <1>1, <1>8 DEF AwaitInv, NoneOnWire
<1>10. StartInv' /\ FutureInv'
  BY <1>1 DEF StreamInv, StartInv, FutureInv, Starting
<1>11. QED
  BY <1>5, <1>6, <1>7, <1>9, <1>10 DEF StreamInv

\* Every step of _flush_loop and flush.
LEMMA FlushStream ==
  ASSUME Inv, FlushStep
  PROVE  StreamInv'
<1>1. CASE (FlushTop /\ ~stop) \/ FlushDecide \/ (FlushGet /\ queue = <<>>)
  <2>1. /\ TypeInv /\ StreamInv
        /\ UNCHANGED <<epoch, main, produced, dispatch, queue, buffer, stored,
                       wire, reply>>
        /\ flush \in {"top", "decide", "get"}
        /\ flush' \in {"get", "decide", "send", "top"}
        /\ \/ flush \in {"top", "get"} /\ flush' # "send"
           \/ flush' = "send" /\ buffer # <<>>
           \/ flush' = "top" /\ ~(FlushDue /\ buffer # <<>>)
    BY <1>1 DEF Inv, FlushTop, FlushDecide, FlushGet, processVars, collectVars,
                sourceVars,
                backendVars, netVars
  <2>2. PipeInv' /\ Base' = Base
    BY <2>1, PipeFrame DEF StreamInv
  <2>3. BatchInv'
    <3>1. Len(buffer) \in Nat /\ (buffer # <<>> => Len(buffer) > 0)
      <4>1. buffer \in Seq(Event)
        BY <2>1, StreamTypes
      <4>2. QED
        BY <4>1, EmptySeq, LenProperties
    <3>2. flush' = "send" => Len(buffer) > 0
      BY <2>1, <3>1
    <3>3. flush' \in {"top", "get"} => Len(buffer) < MaxBatch
      <4>1. CASE flush \in {"top", "get"}
        BY <4>1, <2>1 DEF StreamInv, BatchInv
      <4>2. CASE flush' = "top" /\ ~(FlushDue /\ buffer # <<>>)
        <5>1. CASE buffer = <<>>
          BY <5>1, Bounds
        <5>2. CASE Len(buffer) < BatchSize
          BY <5>2, <3>1, Bounds
        <5>3. QED
          BY <4>2, <5>1, <5>2, <3>1, Bounds DEF FlushDue
      <4>3. QED
        BY <2>1, <4>1, <4>2
    <3>4. QED
      BY <2>1, <3>2, <3>3 DEF StreamInv, BatchInv
  <2>4. QED
    BY <2>1, <2>2, <2>3, FlushFrame
<1>2. CASE FlushGet /\ queue # <<>>
  BY <1>2, GetStream DEF FlushGet, processVars, collectVars, sourceVars,
       backendVars, netVars
<1>3. CASE FlushTop /\ stop
  BY <1>3, EndStream DEF FlushTop, processVars, collectVars, sourceVars,
       backendVars, netVars
<1>4. QED
  BY <1>1, <1>2, <1>3, SendStream, AnswerStream DEF FlushStep
-----------------------------------------------------------------------------
(* The server *)

\* The elements of a concatenation.
LEMMA Concatenation ==
  ASSUME NEW s \in Seq(Event), NEW t \in Seq(Event)
  PROVE  /\ Len(s) \in Nat /\ Len(t) \in Nat
         /\ DOMAIN s = 1..Len(s) /\ DOMAIN t = 1..Len(t)
         /\ \A i \in DOMAIN s : i \in DOMAIN (s \o t) /\ (s \o t)[i] = s[i]
         /\ \A i \in DOMAIN t : /\ Len(s) + i \in DOMAIN (s \o t)
                                /\ (s \o t)[Len(s) + i] = t[i]
         /\ \A i \in DOMAIN (s \o t) :
              \/ i \in DOMAIN s
              \/ \E j \in DOMAIN t : i = Len(s) + j
<1>1. /\ Len(s) \in Nat /\ Len(t) \in Nat
      /\ DOMAIN s = 1..Len(s) /\ DOMAIN t = 1..Len(t)
  BY LenProperties
<1>2. /\ s \o t \in Seq(Event)
      /\ Len(s \o t) = Len(s) + Len(t)
      /\ \A i \in 1..Len(s) + Len(t) :
           (s \o t)[i] = IF i <= Len(s) THEN s[i] ELSE t[i - Len(s)]
  BY ConcatProperties
<1>3. DOMAIN (s \o t) = 1..Len(s) + Len(t)
  BY <1>2, LenProperties
<1>4. \A i \in 1..Len(s) : i \in 1..Len(s) + Len(t) /\ (s \o t)[i] = s[i]
  BY <1>1, <1>2
<1>5. ASSUME NEW i \in 1..Len(t)
      PROVE  Len(s) + i \in 1..Len(s) + Len(t) /\ (s \o t)[Len(s) + i] = t[i]
  <2>1. /\ Len(s) + i \in 1..Len(s) + Len(t)
        /\ ~(Len(s) + i <= Len(s)) /\ (Len(s) + i) - Len(s) = i
    BY <1>1
  <2>2. QED
    BY <2>1, <1>2
<1>6. ASSUME NEW i \in 1..Len(s) + Len(t)
      PROVE  i \in 1..Len(s) \/ \E j \in 1..Len(t) : i = Len(s) + j
  <2>1. CASE i <= Len(s)
    BY <2>1, <1>1
  <2>2. CASE i > Len(s)
    <3>1. i - Len(s) \in 1..Len(t) /\ i = Len(s) + (i - Len(s))
      BY <2>2, <1>1
    <3>2. QED
      BY <3>1
  <2>3. QED
    BY <2>1, <2>2, <1>1
<1>7. QED
  BY <1>1, <1>3, <1>4, <1>5, <1>6

\* What storing a batch changes of LastStored: its own epoch moves on, the
\* others stay where they are.
LEMMA StoreBatch ==
  ASSUME TypeInv, NEW b \in wire, stored' = stored \o b.events,
         NEW m \in Nat, Channel!LastStored(b.epoch, m),
         Continues(b.events, b.epoch, m), Len(b.events) > 0
  PROVE  /\ Channel!LastStored(b.epoch, m + Len(b.events))'
         /\ \A e \in Epochs, k \in Int :
              e # b.epoch /\ Channel!LastStored(e, k) => Channel!LastStored(e, k)'
         /\ \A i \in DOMAIN stored' :
              \/ stored'[i].epoch = b.epoch
              \/ i \in DOMAIN stored /\ stored'[i] = stored[i]
<1> DEFINE L == Len(stored)
           K == Len(b.events)
<1>1. stored \in Seq(Event) /\ b.events \in Seq(Event)
  BY StreamTypes, BatchTypes
<1>2. /\ L \in Nat /\ K \in Nat
      /\ DOMAIN stored = 1..L /\ DOMAIN b.events = 1..K
      /\ \A i \in DOMAIN stored : i \in DOMAIN stored' /\ stored'[i] = stored[i]
      /\ \A j \in DOMAIN b.events : L + j \in DOMAIN stored'
                                    /\ stored'[L + j] = b.events[j]
      /\ \A i \in DOMAIN stored' :
           i \in DOMAIN stored \/ \E j \in DOMAIN b.events : i = L + j
  BY <1>1, Concatenation
<1>3. K \in 1..K /\ K > 0
  BY <1>2
<1> HIDE DEF L, K
<1>4. \A j \in DOMAIN b.events : b.events[j] = [epoch |-> b.epoch, n |-> m + j]
  BY DEF Continues
<1>5. \A i \in DOMAIN stored : stored[i].epoch \in Nat /\ stored[i].n \in Nat
  BY StoredTypes
<1>6. ASSUME NEW i \in DOMAIN stored'
      PROVE  \/ i \in DOMAIN stored /\ stored'[i] = stored[i]
             \/ \E j \in 1..K : stored'[i] = [epoch |-> b.epoch, n |-> m + j]
  <2>1. CASE i \in DOMAIN stored
    BY <2>1, <1>2
  <2>2. CASE \E j \in DOMAIN b.events : i = L + j
    <3>1. PICK j \in DOMAIN b.events : i = L + j
      BY <2>2
    <3>2. stored'[i] = [epoch |-> b.epoch, n |-> m + j]
      BY <3>1, <1>2, <1>4
    <3>3. j \in 1..K
      BY <1>2
    <3>4. QED
      BY <3>2, <3>3
  <2>3. QED
    BY <1>2, <2>1, <2>2
<1>7. \E i \in DOMAIN stored' : stored'[i] = [epoch |-> b.epoch, n |-> m + K]
  <2>1. L + K \in DOMAIN stored' /\ stored'[L + K] = [epoch |-> b.epoch, n |-> m + K]
    BY <1>2, <1>3, <1>4
  <2>2. QED
    BY <2>1
<1>8. ASSUME NEW i \in DOMAIN stored', stored'[i].epoch = b.epoch
      PROVE  stored'[i].n <= m + K
  <2>1. CASE i \in DOMAIN stored /\ stored'[i] = stored[i]
    <3>1. stored[i].n <= m /\ stored[i].n \in Nat
      BY <2>1, <1>5, <1>8 DEF Channel!LastStored
    <3>2. QED
      BY <2>1, <3>1, <1>2
  <2>2. CASE \E j \in 1..K : stored'[i] = [epoch |-> b.epoch, n |-> m + j]
    <3>1. PICK j \in 1..K : stored'[i] = [epoch |-> b.epoch, n |-> m + j]
      BY <2>2
    <3>2. stored'[i].n = m + j
      BY <3>1
    <3>3. QED
      BY <3>2, <1>2
  <2>3. QED
    BY <1>6, <2>1, <2>2
<1>9. Channel!LastStored(b.epoch, m + Len(b.events))'
  BY <1>7, <1>8 DEF Channel!LastStored, K
<1>10. ASSUME NEW i \in DOMAIN stored'
       PROVE  \/ stored'[i].epoch = b.epoch
              \/ i \in DOMAIN stored /\ stored'[i] = stored[i]
  <2>1. CASE i \in DOMAIN stored /\ stored'[i] = stored[i]
    BY <2>1
  <2>2. CASE \E j \in 1..K : stored'[i] = [epoch |-> b.epoch, n |-> m + j]
    <3>1. PICK j \in 1..K : stored'[i] = [epoch |-> b.epoch, n |-> m + j]
      BY <2>2
    <3>2. QED
      BY <3>1
  <2>3. QED
    BY <1>6, <2>1, <2>2
<1>11. ASSUME NEW e \in Epochs, NEW k \in Int, e # b.epoch, Channel!LastStored(e, k)
       PROVE  Channel!LastStored(e, k)'
  <2>1. k = 0 \/ \E i \in DOMAIN stored' : stored'[i] = [epoch |-> e, n |-> k]
    BY <1>2, <1>11 DEF Channel!LastStored
  <2>2. \A i \in DOMAIN stored' : stored'[i].epoch = e => stored'[i].n <= k
    BY <1>10, <1>11 DEF Channel!LastStored
  <2>3. QED
    BY <2>1, <2>2 DEF Channel!LastStored
<1>12. QED
  BY <1>9, <1>10, <1>11
\* The server stores the one batch of its epoch.
LEMMA AcceptStream ==
  ASSUME Inv, NEW b \in wire, AcceptBatch(b),
         UNCHANGED <<processVars, collectVars, queue, flushVars, beat>>
  PROVE  StreamInv'
<1>1. TypeInv /\ StreamInv
  BY DEF Inv
<1>2. /\ UNCHANGED <<epoch, main, flush, produced, dispatch, queue, buffer>>
      /\ wire' = wire \ {b} /\ stored' = stored \o b.events
      /\ reply' = [reply EXCEPT ![b.epoch] = "ok"]
  BY DEF AcceptBatch, processVars, collectVars, sourceVars, flushVars
<1>3. /\ b.epoch <= epoch /\ Len(b.events) \in 1..MaxBatch
      /\ \A c \in wire : c.epoch = b.epoch => c = b
  BY <1>1 DEF StreamInv, WireInv
<1>4. PICK m \in 0..MaxEvents :
        /\ Channel!LastStored(b.epoch, m)
        /\ Continues(b.events, b.epoch, m)
        /\ m + Len(b.events) <= produced[b.epoch]
  BY <1>1 DEF StreamInv, WireInv
<1>5. m \in Nat /\ Len(b.events) \in Nat /\ Len(b.events) > 0
  BY <1>3, <1>4, Bounds
<1>6. /\ Channel!LastStored(b.epoch, m + Len(b.events))'
      /\ \A e \in Epochs, k \in Int :
           e # b.epoch /\ Channel!LastStored(e, k) => Channel!LastStored(e, k)'
      /\ \A i \in DOMAIN stored' :
           \/ stored'[i].epoch = b.epoch
           \/ i \in DOMAIN stored /\ stored'[i] = stored[i]
  BY <1>1, <1>2, <1>4, <1>5, StoreBatch
<1>7. PipeInv' /\ Base' = Base
  BY <1>1, <1>2, PipeFrame DEF StreamInv
<1>8. BatchInv' /\ StartInv'
  BY <1>1, <1>2 DEF StreamInv, BatchInv, StartInv
<1>9. WireInv'
  <2> SUFFICES ASSUME NEW c \in wire'
               PROVE  /\ c.epoch <= epoch'
                      /\ Len(c.events) \in 1..MaxBatch
                      /\ \A d \in wire' : d.epoch = c.epoch => d = c
                      /\ \E k \in 0..MaxEvents :
                           /\ Channel!LastStored(c.epoch, k)'
                           /\ Continues(c.events, c.epoch, k)
                           /\ k + Len(c.events) <= produced'[c.epoch]
    BY DEF WireInv, Continues
  <2>1. c \in wire /\ c # b
    BY <1>2
  <2>2. /\ c.epoch <= epoch
        /\ Len(c.events) \in 1..MaxBatch
        /\ \A d \in wire : d.epoch = c.epoch => d = c
    BY <1>1, <2>1 DEF StreamInv, WireInv
  <2>3. c.epoch # b.epoch /\ c.epoch \in Epochs
    BY <2>1, <1>1, <1>3, BatchTypes
  <2>4. PICK k \in 0..MaxEvents :
          /\ Channel!LastStored(c.epoch, k)
          /\ Continues(c.events, c.epoch, k)
          /\ k + Len(c.events) <= produced[c.epoch]
    BY <1>1, <2>1 DEF StreamInv, WireInv
  <2>5. Channel!LastStored(c.epoch, k)'
    BY <2>3, <2>4, <1>6
  <2>6. k + Len(c.events) <= produced'[c.epoch]
    BY <2>4, <1>2
  <2>7. QED
    BY <1>2, <2>2, <2>4, <2>5, <2>6
<1>10. AwaitInv'
  <2> DEFINE last == Base + Len(buffer)
  <2>1. /\ epoch \in Epochs /\ b.epoch \in Epochs
        /\ Base \in Int /\ last \in Int /\ Len(buffer) \in Nat
        /\ reply \in [Epochs -> {"none", "ok", "error"}]
    BY <1>1, StreamTypes, BatchTypes DEF TypeInv, TypeOK, BackendTypeOK
  <2>2. NoneOnWire => NoneOnWire'
    BY <1>2 DEF NoneOnWire
  <2>3. CASE b.epoch # epoch
    <3>1. reply'[epoch] = reply[epoch]
      BY <2>1, <2>3, <1>2
    <3>2. /\ Channel!LastStored(epoch, Base) => Channel!LastStored(epoch, Base)'
          /\ Channel!LastStored(epoch, last) => Channel!LastStored(epoch, last)'
      <4>1. PICK e \in Epochs, k \in Int, l \in Int : e = epoch /\ k = Base /\ l = last
        BY <2>1
      <4>2. /\ Channel!LastStored(e, k) => Channel!LastStored(e, k)'
            /\ Channel!LastStored(e, l) => Channel!LastStored(e, l)'
        BY <4>1, <2>3, <1>6
      <4>3. epoch' = e /\ Base' = k /\ last' = l
        BY <4>1, <1>2, <1>7
      <4>4. QED
        BY <4>1, <4>2, <4>3 DEF Channel!LastStored
    <3>3. AlmostStored => AlmostStored'
      <4>1. ASSUME NEW k \in 0..Base, Channel!LastStored(epoch, k)
            PROVE  Channel!LastStored(epoch, k)'
        <5>1. PICK e \in Epochs, l \in Int : e = epoch /\ l = k
          BY <2>1
        <5>2. Channel!LastStored(e, l)'
          BY <5>1, <4>1, <2>3, <1>6
        <5>3. QED
          BY <5>1, <5>2, <1>2 DEF Channel!LastStored
      <4>2. QED
        BY <4>1, <1>2, <1>7 DEF AlmostStored, Channel!LastStored
    <3>4. QED
      BY <3>1, <3>2, <3>3, <2>2, <1>1, <1>2 DEF StreamInv, AwaitInv, Alive
  <2>4. CASE b.epoch = epoch /\ Alive /\ flush # "dead"
    <3>1. flush = "await" /\ reply[epoch] = "none" /\ b.events = buffer
      BY <2>4, <1>1 DEF StreamInv, AwaitInv, NoneOnWire
    <3>2. m = Base
      <4>1. 1 \in DOMAIN b.events
        BY <1>1, <1>5, BatchTypes
      <4>2. /\ b.events[1] = [epoch |-> epoch, n |-> m + 1]
            /\ b.events[1] = [epoch |-> epoch, n |-> Base + 1]
        BY <4>1, <3>1, <2>4, <1>1, <1>4 DEF Continues, StreamInv, PipeInv
      <4>3. m + 1 = Base + 1
        BY <4>2
      <4>4. QED
        BY <4>3, <1>5, <2>1
    <3>3. Channel!LastStored(epoch, Base + Len(buffer))'
      BY <3>1, <3>2, <2>4, <1>2, <1>6, <1>7 DEF Channel!LastStored
    <3>4. NoneOnWire'
      BY <2>4, <1>2, <1>3 DEF NoneOnWire
    <3>5. reply'[epoch'] = "ok"
      BY <2>1, <2>4, <1>2
    <3>6. QED
      BY <3>1, <3>3, <3>4, <3>5, <1>2 DEF AwaitInv
  <2>5. CASE ~Alive \/ flush = "dead"
    BY <2>5, <1>2 DEF AwaitInv, Alive
  <2>6. QED
    BY <2>3, <2>4, <2>5
<1>11. FutureInv'
  <2>1. \A i \in DOMAIN stored' : stored'[i].epoch <= epoch
    BY <1>1, <1>3, <1>6 DEF StreamInv, FutureInv
  <2>2. QED
    BY <2>1, <1>1, <1>2 DEF StreamInv, FutureInv
<1>12. QED
  BY <1>7, <1>8, <1>9, <1>10, <1>11 DEF StreamInv

\* The server drops the one batch of its epoch.
LEMMA RejectStream ==
  ASSUME Inv, NEW b \in wire, RejectBatch(b),
         UNCHANGED <<processVars, collectVars, queue, flushVars, beat>>
  PROVE  StreamInv'
<1>1. TypeInv /\ StreamInv
  BY DEF Inv
<1>2. /\ UNCHANGED <<epoch, main, flush, produced, dispatch, queue, buffer, stored>>
      /\ wire' = wire \ {b}
      /\ reply' = [reply EXCEPT ![b.epoch] = "error"]
  BY DEF RejectBatch, processVars, collectVars, sourceVars, flushVars, backendVars
<1>3. PipeInv' /\ Base' = Base
  BY <1>1, <1>2, PipeFrame DEF StreamInv
<1>4. BatchInv' /\ StartInv' /\ FutureInv'
  BY <1>1, <1>2 DEF StreamInv, BatchInv, StartInv, FutureInv
<1>5. WireInv'
  <2>1. /\ wire' \subseteq wire /\ epoch' \in Nat /\ epoch <= epoch'
        /\ produced' \in [Epochs -> 0..MaxEvents] /\ stored' = stored
        /\ \A e \in Epochs : produced[e] <= produced'[e]
    BY <1>1, <1>2, StreamTypes, Bounds
  <2>2. WireInv
    BY <1>1 DEF StreamInv
  <2>3. QED
    BY <1>1, <2>1, <2>2, WireFrame
<1>6. AwaitInv'
  <2>1. /\ epoch \in Epochs /\ b.epoch \in Epochs
        /\ reply \in [Epochs -> {"none", "ok", "error"}]
    BY <1>1, StreamTypes, BatchTypes DEF TypeInv, TypeOK, BackendTypeOK
  <2>2. NoneOnWire => NoneOnWire'
    BY <1>2 DEF NoneOnWire
  <2>3. /\ Channel!LastStored(epoch, Base) => Channel!LastStored(epoch, Base)'
        /\ Channel!LastStored(epoch, Base + Len(buffer)) =>
             Channel!LastStored(epoch, Base + Len(buffer))'
    BY <1>2, <1>3 DEF Channel!LastStored
  <2>4. CASE b.epoch # epoch
    <3>1. reply'[epoch] = reply[epoch]
      BY <2>1, <2>4, <1>2
    <3>2. AlmostStored => AlmostStored'
      BY <1>2, <1>3, AlmostFrame
    <3>3. QED
      BY <3>1, <3>2, <2>2, <2>3, <1>1, <1>2 DEF StreamInv, AwaitInv, Alive
  <2>5. CASE b.epoch = epoch /\ Alive /\ flush # "dead"
    <3>1. flush = "await"
      BY <2>5, <1>1 DEF StreamInv, AwaitInv, NoneOnWire
    <3>2. NoneOnWire'
      BY <2>5, <1>1, <1>2 DEF NoneOnWire, StreamInv, WireInv
    <3>3. reply'[epoch'] = "error"
      BY <2>1, <2>5, <1>2
    <3>4. Channel!LastStored(epoch, Base)'
      <4>1. reply[epoch] = "none"
        BY <3>1, <2>5, <1>1 DEF StreamInv, AwaitInv, NoneOnWire
      <4>2. Channel!LastStored(epoch, Base)
        BY <3>1, <4>1, <2>5, <1>1 DEF StreamInv, AwaitInv
      <4>3. QED
        BY <4>2, <2>3
    <3>5. QED
      BY <3>1, <3>2, <3>3, <3>4, <1>2 DEF AwaitInv
  <2>6. CASE ~Alive \/ flush = "dead"
    BY <2>6, <1>2 DEF AwaitInv, Alive
  <2>7. QED
    BY <2>4, <2>5, <2>6
<1>7. QED
  BY <1>3, <1>4, <1>5, <1>6 DEF StreamInv

\* Steps that touch nothing the stream depends on.
LEMMA QuietStream ==
  ASSUME Inv,
         UNCHANGED <<epoch, main, produced, dispatch, queue, flush, buffer,
                     stored, wire, reply>>
  PROVE  StreamInv'
<1>1. PipeInv' /\ Base' = Base
  BY PipeFrame DEF Inv, StreamInv
<1>2. BatchInv' /\ StartInv' /\ FutureInv' /\ WireInv'
  BY DEF Inv, StreamInv, BatchInv, StartInv, FutureInv, WireInv, Continues,
         Channel!LastStored
<1>3. AwaitInv'
  BY <1>1, AlmostFrame DEF Inv, StreamInv, AwaitInv, NoneOnWire, Channel!LastStored, Alive
<1>4. QED
  BY <1>1, <1>2, <1>3 DEF StreamInv

\* Every step of the server.
LEMMA ServerStream ==
  ASSUME Inv, ServerStep
  PROVE  StreamInv'
<1>1. CASE ForgetAgent
  BY <1>1, QuietStream DEF ServerStep, ForgetAgent, processVars, collectVars,
       sourceVars, flushVars
<1>2. QED
  BY <1>1, AcceptStream, RejectStream DEF ServerStep, BackendNext

\* Every step of the agent and its server preserves the invariant.
LEMMA StreamStep == Inv /\ [Next]_vars => StreamInv'
<1> SUFFICES ASSUME Inv, [Next]_vars
             PROVE  StreamInv'
  OBVIOUS
<1>1. CASE UNCHANGED vars
  BY <1>1, QuietStream DEF vars, processVars, collectVars, sourceVars, flushVars,
       backendVars, netVars
<1>2. CASE HeartbeatStep
  BY <1>2, QuietStream DEF HeartbeatStep, HeartbeatTop, HeartbeatPost,
       HeartbeatSleep,
     processVars, collectVars, sourceVars, flushVars, backendVars, netVars
<1>3. QED
  BY <1>1, <1>2, MainStream, RestartStream, DispatchStream, FlushStream,
     ServerStream DEF Next, Finished

(***************************************************************************)
(* Whatever the threads, the server and the network do, the events of the  *)
(* running process are, without gap or overlap, stored, in the batch on    *)
(* the wire or in the buffer, in the queue, in the dispatch thread's hand. *)
(***************************************************************************)
THEOREM StreamCorrect == Spec => []StreamInv
<1>1. Init => Inv
  BY InitTyped, InitStream DEF Inv
<1>2. Inv /\ [Next]_vars => Inv'
  BY StepTyped, StreamStep DEF Inv
<1>3. Inv => StreamInv
  BY DEF Inv
<1>4. QED
  BY <1>1, <1>2, <1>3, PTL DEF Spec
-----------------------------------------------------------------------------
(* The refinement: the identity on what was produced and what is stored. *)

\* Nothing is offered and nothing is stored at the start.
LEMMA InitImplements == Init => Channel!Init
BY DEF Init, BackendInit, Channel!Init

\* Storing a batch delivers it.
LEMMA AcceptDelivers ==
  ASSUME Inv, NEW b \in wire, AcceptBatch(b), UNCHANGED produced
  PROVE  Channel!Next
<1>1. TypeInv /\ WireInv
  BY DEF Inv, StreamInv
<1>2. PICK m \in 0..MaxEvents :
        /\ Channel!LastStored(b.epoch, m)
        /\ Continues(b.events, b.epoch, m)
        /\ m + Len(b.events) <= produced[b.epoch]
  BY <1>1 DEF WireInv
<1>3. b.epoch \in Epochs /\ Len(b.events) \in 1..MaxBatch
  BY <1>1, BatchTypes DEF WireInv
<1>4. b.events = [i \in 1..Len(b.events) |-> [epoch |-> b.epoch, n |-> m + i]]
  <2>1. /\ b.events \in [1..Len(b.events) -> Event]
        /\ DOMAIN b.events = 1..Len(b.events)
    BY <1>1, BatchTypes, LenProperties
  <2>2. \A i \in 1..Len(b.events) : b.events[i] = [epoch |-> b.epoch, n |-> m + i]
    BY <1>2, <2>1 DEF Continues
  <2>3. QED
    BY <2>1, <2>2
<1>5. Channel!Deliver(b.epoch, m, Len(b.events))
  BY <1>2, <1>4 DEF Channel!Deliver, AcceptBatch
<1>6. QED
  BY <1>3, <1>5 DEF Channel!Next

\* DispatchGet offers an event, AcceptBatch delivers, all else is a stutter.
LEMMA StepImplements == Inv /\ [Next]_vars => [Channel!Next]_(Channel!vars)
<1> SUFFICES ASSUME Inv, [Next]_vars
             PROVE  Channel!Next \/ UNCHANGED <<produced, stored>>
  BY DEF Channel!vars
<1>1. CASE DispatchGet
  <2>1. epoch \in Epochs
    BY StreamTypes DEF Inv
  <2>2. Channel!Offer(epoch)
    BY <1>1 DEF DispatchGet, Call, DemoCall, Channel!Offer, backendVars
  <2>3. QED
    BY <2>1, <2>2 DEF Channel!Next
<1>2. CASE ServerStep
  <2>1. UNCHANGED produced
    BY <1>2 DEF ServerStep, collectVars, sourceVars
  <2>2. CASE \E b \in wire : AcceptBatch(b)
    BY <2>1, <2>2, AcceptDelivers
  <2>3. CASE ForgetAgent \/ \E b \in wire : RejectBatch(b)
    BY <2>1, <2>3 DEF ForgetAgent, RejectBatch, backendVars
  <2>4. QED
    BY <1>2, <2>2, <2>3 DEF ServerStep, BackendNext
<1>3. CASE MainStep \/ Signal \/ Crash
  BY <1>3, MainFrame
<1>4. CASE Restart
  BY <1>4 DEF Restart, backendVars
<1>5. CASE DispatchTop \/ DispatchEmpty \/ EnqueueEvent
  BY <1>5 DEF DispatchTop, Poll, DispatchEmpty, PollEmpty, EnqueueEvent, Return,
              backendVars
<1>6. CASE FlushStep
  BY <1>6 DEF FlushStep, FlushTop, FlushGet, FlushDecide, FlushSend,
     FlushAcknowledged, FlushFails, collectVars, sourceVars, backendVars
<1>7. CASE HeartbeatStep
  BY <1>7 DEF HeartbeatStep, HeartbeatTop, HeartbeatPost, HeartbeatSleep,
     collectVars, sourceVars, backendVars
<1>8. CASE UNCHANGED vars
  BY <1>8 DEF vars, collectVars, sourceVars, backendVars
<1>9. QED
  BY <1>1, <1>2, <1>3, <1>4, <1>5, <1>6, <1>7, <1>8
     DEF Next, DispatchStep, Finished

(***************************************************************************)
(* The agent and the server implement the upload channel: each step takes  *)
(* up one event, stores the next batch of its epoch, or is invisible.      *)
(***************************************************************************)
THEOREM AgentImplementsChannel == Spec => ImplementsChannel
<1>1. Init => Inv
  BY InitTyped, InitStream DEF Inv
<1>2. Inv /\ [Next]_vars => Inv'
  BY StepTyped, StreamStep DEF Inv
<1>3. QED
  BY <1>1, <1>2, InitImplements, StepImplements, PTL
     DEF Spec, ImplementsChannel, Channel!Spec

ChannelProofs == INSTANCE UploadChannelProofs

(***************************************************************************)
(* Whatever fails, and whatever is late: no event is stored twice, and the *)
(* events of an epoch are stored in order and without a gap.               *)
(***************************************************************************)
THEOREM AgentStoresPrefixes == Spec => []PrefixStored
<1>1. ChannelProofs!ChannelAssumption
  BY Bounds DEF ChannelProofs!ChannelAssumption
<1>2. ChannelProofs!Spec => []ChannelProofs!PrefixStored
  BY <1>1, ChannelProofs!ChannelStoresPrefixes
<1>3. Spec => ChannelProofs!Spec
  <2>1. Channel!Init => ChannelProofs!Init
    BY DEF Channel!Init, ChannelProofs!Init
  <2>2. [Channel!Next]_(Channel!vars) => [ChannelProofs!Next]_(ChannelProofs!vars)
    BY DEF Channel!Next, ChannelProofs!Next, Channel!vars, ChannelProofs!vars,
       Channel!Offer, ChannelProofs!Offer, Channel!Deliver,
       ChannelProofs!Deliver, Channel!LastStored, ChannelProofs!LastStored
  <2>3. QED
    BY <2>1, <2>2, AgentImplementsChannel, PTL
       DEF ImplementsChannel, Channel!Spec, ChannelProofs!Spec
<1>4. ChannelProofs!PrefixStored => PrefixStored
  BY DEF PrefixStored, Channel!PrefixStored, ChannelProofs!PrefixStored,
     Channel!InOrder, ChannelProofs!InOrder, Channel!NoGap,
     ChannelProofs!NoGap, Channel!OnlyOffered, ChannelProofs!OnlyOffered
<1>5. QED
  BY <1>2, <1>3, <1>4, PTL
-----------------------------------------------------------------------------
(* A held event does not wait for another one. *)

\* The flush thread starts with an empty buffer.
StrandInv ==
  /\ NoStrandedBuffer
  /\ flush \in {"none", "created"} => buffer = <<>>

\* No step strands an event: a get leaves the decision open, and a decision
\* against flushing has seen an event in the queue, where it stays.
LEMMA StrandStep ==
  ASSUME Inv, StrandInv, [Next]_vars
  PROVE  StrandInv'
<1> USE DEF StrandInv, NoStrandedBuffer
<1>1. CASE MainStep \/ Signal \/ Crash
  <2>1. UNCHANGED <<queue, buffer>>
    BY <1>1, MainFrame
  <2>2. \/ UNCHANGED flush
        \/ main = "create" /\ flush' = "created"
        \/ main = "startFlush" /\ flush' = "top"
    BY <1>1, MainFrame
  <2>3. flush' # flush => flush \in {"none", "created"}
    BY <2>2 DEF Inv, StreamInv, StartInv, Starting
  <2>4. QED
    BY <2>1, <2>3
<1>2. CASE DispatchStep
  <2>1. UNCHANGED <<flush, buffer>>
    BY <1>2 DEF DispatchStep, DispatchTop, Poll, DispatchEmpty, PollEmpty,
                DispatchGet, Call, DemoCall, EnqueueEvent, Return, flushVars
  <2>2. CASE EnqueueEvent
    <3>1. queue \in Seq(Event) /\ produced[epoch] \in 1..MaxEvents /\ epoch \in Epochs
      BY <2>2, StreamTypes, Bounds DEF Inv, TypeInv, HandInv, EnqueueEvent, Return
    <3>2. [epoch |-> epoch, n |-> produced[epoch]] \in Event
      BY <3>1 DEF Event
    <3>3. queue' # <<>>
      BY <2>2, <3>1, <3>2, AppendProperties DEF EnqueueEvent, Return
    <3>4. QED
      BY <2>1, <3>3
  <2>3. CASE DispatchTop \/ DispatchEmpty \/ DispatchGet
    BY <2>1, <2>3 DEF DispatchTop, Poll, DispatchEmpty, PollEmpty, DispatchGet,
                      Call, DemoCall
  <2>4. QED
    BY <1>2, <2>2, <2>3 DEF DispatchStep
<1>3. CASE FlushTop \/ FlushDecide
  BY <1>3 DEF FlushTop, FlushDecide, FlushDue
<1>4. CASE FlushGet \/ FlushSend \/ FlushAcknowledged \/ FlushFails
  BY <1>4 DEF FlushGet, FlushSend, FlushAcknowledged, FlushFails
<1>5. CASE Restart
  BY <1>5 DEF Restart
<1>6. CASE HeartbeatStep \/ ServerStep \/ UNCHANGED vars
  BY <1>6 DEF HeartbeatStep, HeartbeatTop, HeartbeatPost, HeartbeatSleep,
     ServerStep, vars, flushVars
<1>7. QED
  BY <1>1, <1>2, <1>3, <1>4, <1>5, <1>6 DEF Next, FlushStep, Finished

(***************************************************************************)
(* The flush thread never waits for an event while it holds some and the   *)
(* queue is empty, wherever the dispatch thread was when it looked.        *)
(***************************************************************************)
THEOREM NeverStranded == Spec => []NoStrandedBuffer
<1>1. Init => Inv /\ StrandInv
  BY InitTyped, InitStream DEF Inv, StrandInv, NoStrandedBuffer, Init
<1>2. Inv /\ StrandInv /\ [Next]_vars => Inv' /\ StrandInv'
  BY StepTyped, StreamStep, StrandStep DEF Inv
<1>3. QED
  BY <1>1, <1>2, PTL DEF Spec, StrandInv

-----------------------------------------------------------------------------
(* Every event is somewhere. *)

\* The last stored event, while the flush loop runs: what it is about to send,
\* or waits for, is stored or still in the buffer.
LEMMA StoredSoFar ==
  ASSUME Inv, Alive, flush \notin {"dead", "ended"}
  PROVE  \E m \in Nat : Channel!LastStored(epoch, m) /\ m >= Base
<1>1. Base \in Int /\ Base >= 0 /\ Len(buffer) \in Nat
  BY StreamTypes DEF Inv, StreamInv, PipeInv
<1>2. CASE flush = "await" /\ reply[epoch] = "ok"
  <2>1. Channel!LastStored(epoch, Base + Len(buffer))
    BY <1>2 DEF Inv, StreamInv, AwaitInv
  <2>2. Base + Len(buffer) \in Nat /\ Base + Len(buffer) >= Base
    BY <1>1
  <2>3. QED
    BY <2>1, <2>2
<1>3. CASE ~(flush = "await" /\ reply[epoch] = "ok")
  <2>1. Channel!LastStored(epoch, Base)
    BY <1>3 DEF Inv, StreamInv, AwaitInv
  <2>2. QED
    BY <1>1, <2>1
<1>4. QED
  BY <1>2, <1>3

\* The events up to the last stored one are stored.
LEMMA UpToLastStored ==
  ASSUME Inv, PrefixStored, NEW m \in Nat, Channel!LastStored(epoch, m),
         NEW n \in 1..m
  PROVE  IsStored(epoch, n)
<1>2. ChannelProofs!LastStored(epoch, m)
  BY DEF Channel!LastStored, ChannelProofs!LastStored
<1>3. ChannelProofs!NoGap
  BY DEF PrefixStored, Channel!PrefixStored, Channel!NoGap, ChannelProofs!NoGap
<1>4. ChannelProofs!TypeOK
  BY StreamTypes DEF Inv, ChannelProofs!TypeOK, ChannelProofs!Event, Event
<1>5. QED
  BY <1>2, <1>3, <1>4, ChannelProofs!StoredUpTo DEF IsStored

\* An event that has left the buffer of a loop that runs is stored.
LEMMA LeftIsStored ==
  ASSUME Inv, PrefixStored, Alive, flush \notin {"dead", "ended"}, NEW n \in 1..Base
  PROVE  IsStored(epoch, n)
<1>1. PICK m \in Nat : Channel!LastStored(epoch, m) /\ m >= Base
  BY StoredSoFar
<1>2. n \in 1..m
  BY <1>1, StreamTypes DEF Inv
<1>3. QED
  BY <1>1, <1>2, UpToLastStored

\* Of a loop that stop() ended the last ones may be lost, less than a batch.
LEMMA LeftByEnded ==
  ASSUME Inv, PrefixStored, Alive, flush = "ended", NEW n \in 1..Base
  PROVE  IsStored(epoch, n) \/ n \in Base - (MaxBatch - 2) .. Base
<1>1. PICK m \in 0..Base : Base - m < MaxBatch /\ Channel!LastStored(epoch, m)
  BY DEF Inv, StreamInv, AwaitInv, AlmostStored
<1>2. Base \in Int /\ MaxBatch \in Nat /\ m \in Nat
  BY StreamTypes, Bounds DEF Inv
<1>3. CASE n <= m
  BY <1>1, <1>2, <1>3, UpToLastStored
<1>4. CASE n > m
  BY <1>1, <1>2, <1>4
<1>5. QED
  BY <1>2, <1>3, <1>4

\* An event that the buffer or the queue holds is found there.
LEMMA HeldInPipe ==
  ASSUME Inv, NEW n \in Base + 1 .. Base + Len(buffer) + Len(queue)
  PROVE  InPipe(n)
<1>1. /\ buffer \in Seq(Event) /\ queue \in Seq(Event) /\ Base \in Int
      /\ Len(buffer) \in Nat /\ Len(queue) \in Nat
      /\ DOMAIN buffer = 1..Len(buffer) /\ DOMAIN queue = 1..Len(queue)
  BY StreamTypes DEF Inv
<1>2. /\ \A i \in DOMAIN buffer : buffer[i] = [epoch |-> epoch, n |-> Base + i]
      /\ \A i \in DOMAIN queue :
           queue[i] = [epoch |-> epoch, n |-> Base + Len(buffer) + i]
  BY DEF Inv, StreamInv, PipeInv, Continues
<1>3. /\ \A i \in DOMAIN buffer : i \in DOMAIN (buffer \o queue)
                                   /\ (buffer \o queue)[i] = buffer[i]
      /\ \A i \in DOMAIN queue : /\ Len(buffer) + i \in DOMAIN (buffer \o queue)
                                 /\ (buffer \o queue)[Len(buffer) + i] = queue[i]
  BY <1>1, Concatenation
<1> DEFINE both == buffer \o queue
<1> HIDE DEF both
<1>4. CASE n <= Base + Len(buffer)
  <2>1. n - Base \in DOMAIN buffer /\ Base + (n - Base) = n
    BY <1>1, <1>4
  <2>2. n - Base \in DOMAIN both /\ both[n - Base].n = n
    BY <1>2, <1>3, <2>1 DEF both
  <2>3. QED
    BY <2>2 DEF InPipe, both
<1>5. CASE n > Base + Len(buffer)
  <2> DEFINE j == n - (Base + Len(buffer))
  <2>1. j \in DOMAIN queue /\ Base + Len(buffer) + j = n
    BY <1>1, <1>5
  <2> HIDE DEF j
  <2>2. Len(buffer) + j \in DOMAIN both /\ both[Len(buffer) + j].n = n
    BY <1>2, <1>3, <2>1 DEF both
  <2>3. QED
    BY <2>2 DEF InPipe, both
<1>6. QED
  BY <1>1, <1>4, <1>5

LEMMA Accounted == Inv /\ PrefixStored => NoSilentLoss
<1> SUFFICES ASSUME Inv, PrefixStored, Alive, flush # "dead",
                    NEW n \in 1..produced[epoch]
             PROVE  \/ Kept(n)
                    \/ flush = "ended" /\ n \in Base - (MaxBatch - 2) .. Base
  BY DEF NoSilentLoss
<1>1. /\ Base \in Int /\ Len(buffer) \in Nat /\ Len(queue) \in Nat
      /\ produced[epoch] \in Nat /\ InHand \in {0, 1}
  BY StreamTypes DEF Inv
<1>2. produced[epoch] = Base + Len(buffer) + Len(queue) + InHand
  BY <1>1 DEF Base
<1>3. \/ n \in 1..Base
      \/ n \in Base + 1 .. Base + Len(buffer) + Len(queue)
      \/ InHand = 1 /\ n = produced[epoch]
  BY <1>1, <1>2
<1>4. InHand = 1 => dispatch = "put"
  BY DEF InHand
<1>5. QED
  BY <1>3, <1>4, LeftIsStored, LeftByEnded, HeldInPipe DEF Kept

(***************************************************************************)
(* While the process lives and its flush loop runs, every event the        *)
(* collector has handed over is stored or still held.  A loop that stop()  *)
(* ended has dropped less than a batch, the events next to be sent.        *)
(***************************************************************************)
THEOREM NothingLostInSilence == Spec => []NoSilentLoss
<1>1. Spec => []Inv
  <2>1. Init => Inv
    BY InitTyped, InitStream DEF Inv
  <2>2. Inv /\ [Next]_vars => Inv'
    BY StepTyped, StreamStep DEF Inv
  <2>3. QED
    BY <2>1, <2>2, PTL DEF Spec
<1>2. QED
  BY <1>1, AgentStoresPrefixes, Accounted, PTL

\* The flush thread dies of nothing but a batch refused or not answered in
\* time, and leaves its loop only on _stop.
UploadFault == Faults \cap {"reject", "timeout"} # {}

FlushLives ==
  /\ flush = "dead" => UploadFault
  /\ flush = "ended" => stop
  /\ \A e \in Epochs : reply[e] = "error" => UploadFault

LEMMA FlushLivesStep ==
  ASSUME Inv, FlushLives, [Next]_vars
  PROVE  FlushLives'
<1> USE DEF FlushLives
<1>1. CASE MainStep \/ Signal \/ Crash
  BY <1>1, MainFrame
<1>2. CASE DispatchStep \/ HeartbeatStep \/ Restart \/ UNCHANGED vars
  <2>1. /\ UNCHANGED reply
        /\ flush' = "dead" => flush = "dead"
        /\ flush' = "ended" => flush = "ended" /\ UNCHANGED stop
    BY <1>2 DEF DispatchStep, DispatchTop, DispatchEmpty, DispatchGet, EnqueueEvent,
                HeartbeatStep, HeartbeatTop, HeartbeatPost, HeartbeatSleep, Restart,
                vars, flushVars, netVars, processVars
  <2>2. QED
    BY <2>1
<1>3. CASE FlushTop \/ FlushGet \/ FlushDecide \/ FlushAcknowledged
  BY <1>3 DEF FlushTop, FlushGet, FlushDecide, FlushAcknowledged, netVars, processVars
<1>4. CASE FlushSend
  <2>1. flush' = "await" /\ reply' = [reply EXCEPT ![epoch] = "none"]
    BY <1>4 DEF FlushSend, SendEvents
  <2>2. reply \in [Epochs -> {"none", "ok", "error"}] /\ epoch \in Epochs
    BY StreamTypes DEF Inv, TypeInv, TypeOK, BackendTypeOK
  <2>3. \A e \in Epochs : reply'[e] = reply[e] \/ reply'[e] = "none"
    BY <2>1, <2>2
  <2>4. QED
    BY <2>1, <2>3
<1>5. CASE FlushFails
  <2>1. reply[epoch] = "error" \/ "timeout" \in Faults
    BY <1>5 DEF FlushFails, BatchFails
  <2>2. epoch \in Epochs /\ UNCHANGED reply
    BY <1>5, StreamTypes DEF FlushFails, Inv
  <2>3. UploadFault
    BY <2>1, <2>2 DEF UploadFault
  <2>4. flush' = "dead"
    BY <1>5 DEF FlushFails
  <2>5. QED
    BY <2>3, <2>4 DEF UploadFault
<1>6. CASE ServerStep
  <2>1. flush' = flush /\ stop' = stop /\ BackendNext
    BY <1>6 DEF ServerStep, flushVars, processVars
  <2>2. reply \in [Epochs -> {"none", "ok", "error"}]
    BY DEF Inv, TypeInv, TypeOK, BackendTypeOK
  <2>3. CASE ForgetAgent
    BY <2>1, <2>3 DEF ForgetAgent
  <2>4. ASSUME NEW b \in wire, AcceptBatch(b) PROVE FlushLives'
    <3>1. \A e \in Epochs : reply'[e] = reply[e] \/ reply'[e] = "ok"
      BY <2>2, <2>4 DEF AcceptBatch
    <3>2. QED
      BY <2>1, <3>1
  <2>5. ASSUME NEW b \in wire, RejectBatch(b) PROVE FlushLives'
    BY <2>1, <2>5 DEF RejectBatch, UploadFault
  <2>6. QED
    BY <2>1, <2>3, <2>4, <2>5 DEF BackendNext
<1>7. QED
  BY <1>1, <1>2, <1>3, <1>4, <1>5, <1>6 DEF Next, FlushStep, Finished

(***************************************************************************)
(* Without such a fault nothing is lost until stop(), whatever else goes   *)
(* wrong: the collector, a heartbeat, a late batch of an earlier run.      *)
(***************************************************************************)
THEOREM NoFaultNoLoss ==
  ASSUME Faults \cap {"reject", "timeout"} = {}
  PROVE  Spec => [](Alive /\ ~stop => \A n \in 1..produced[epoch] : Kept(n))
<1>1. Init => Inv /\ FlushLives
  BY InitTyped, InitStream DEF Inv, Init, BackendInit, FlushLives
<1>2. Inv /\ FlushLives /\ [Next]_vars => Inv' /\ FlushLives'
  BY StepTyped, StreamStep, FlushLivesStep DEF Inv
<1>3. FlushLives => flush # "dead" /\ (flush = "ended" => stop)
  BY DEF FlushLives, UploadFault
<1>4. NoSilentLoss /\ flush # "dead" /\ (flush = "ended" => stop) =>
        (Alive /\ ~stop => \A n \in 1..produced[epoch] : Kept(n))
  BY DEF NoSilentLoss
<1>5. QED
  BY <1>1, <1>2, <1>3, <1>4, NothingLostInSilence, PTL DEF Spec
=============================================================================
