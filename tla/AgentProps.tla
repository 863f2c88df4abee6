----------------------------- MODULE AgentProps -----------------------------
(***************************************************************************)
(* What the agent and the server together must guarantee.                  *)
(***************************************************************************)
EXTENDS Agent

\* A batch has at most BatchSize events, and one if BatchSize is below 1.
MaxBatch == IF BatchSize > 1 THEN BatchSize ELSE 1

Channel == INSTANCE UploadChannel

(***************************************************************************)
(* Whatever fails, and whatever is late: no event is stored twice, and the *)
(* events of one run of the process reach the event table in order and     *)
(* without a gap (flush, flush loop, queue).                               *)
(***************************************************************************)
PrefixStored == Channel!PrefixStored

(***************************************************************************)
(* The agent and the server are an upload channel: the event table grows   *)
(* by whole batches, each the next one of its epoch, whichever request     *)
(* fails or is late and whenever the process ends.                         *)
(***************************************************************************)
ImplementsChannel == Channel!Spec

(***************************************************************************)
(* The flush thread never goes back to waiting for an event while it holds *)
(* some and the queue is empty: a held event is not delayed by the absence *)
(* of further ones (line 106, read while the dispatch thread may put).     *)
(***************************************************************************)
NoStrandedBuffer ==
  flush \in {"top", "get"} /\ buffer # <<>> => queue # <<>>

(***************************************************************************)
(* The server never stores a batch whose sequence leaves out a number,     *)
(* across failures and restarts.                                           *)
(***************************************************************************)
NoSequenceGap == [][lastSeq' <= lastSeq + 1]_vars

(***************************************************************************)
(* A stored batch has a higher sequence than every batch stored before it, *)
(* across restarts of the agent (API.md: the sequence increases            *)
(* monotonically).                                                         *)
(***************************************************************************)
SequenceIncreases == [][stored' # stored => lastSeq' > lastSeq]_vars

(***************************************************************************)
(* Once the flush thread runs, and while no batch is outstanding, the      *)
(* agent's next sequence is the one the server would hand out.             *)
(***************************************************************************)
InStepWithServer ==
  Alive /\ flush \in {"top", "get", "decide", "send"} => sequence = lastSeq + 1

-----------------------------------------------------------------------------
(* Why the agent implements the channel: where every event of the current  *)
(* epoch is, from the event table to the dispatch thread's hand.           *)

\* s holds the events of epoch e that follow its event m.
Continues(s, e, m) == \A i \in DOMAIN s : s[i] = [epoch |-> e, n |-> m + i]

InHand == IF dispatch = "put" THEN 1 ELSE 0

\* The number of the last event that has left the buffer, sent or lost.
Base == produced[epoch] - InHand - Len(queue) - Len(buffer)

PipeInv ==
  /\ Base >= 0
  /\ Continues(buffer, epoch, Base)
  /\ Continues(queue, epoch, Base + Len(buffer))

BatchInv ==
  /\ Len(buffer) <= MaxBatch
  /\ flush \in {"none", "created", "top", "get"} => Len(buffer) < MaxBatch
  /\ flush \in {"send", "await"} => Len(buffer) > 0

\* A batch on the wire is the next one of its epoch, and the only one.
WireInv ==
  \A b \in wire :
    /\ b.epoch <= epoch
    /\ Len(b.events) \in 1..MaxBatch
    /\ \A c \in wire : c.epoch = b.epoch => c = b
    /\ \E m \in 0..MaxEvents :
         /\ Channel!LastStored(b.epoch, m)
         /\ Continues(b.events, b.epoch, m)
         /\ m + Len(b.events) <= produced[b.epoch]

NoneOnWire == \A b \in wire : b.epoch # epoch

\* What a loop that stop() ended had still in its buffer, less than a batch, is
\* all that is not stored of what has left the buffer.
AlmostStored == \E m \in 0..Base : Base - m < MaxBatch /\ Channel!LastStored(epoch, m)

\* What the flush thread can tell about the wire and the table.
AwaitInv ==
  /\ Alive /\ flush \notin {"await", "dead", "ended"} =>
       NoneOnWire /\ Channel!LastStored(epoch, Base)
  /\ Alive /\ flush = "ended" => NoneOnWire /\ AlmostStored
  /\ Alive /\ flush = "await" /\ reply[epoch] # "ok" =>
       Channel!LastStored(epoch, Base)
  /\ Alive /\ flush = "await" /\ reply[epoch] = "none" =>
       \A b \in wire : b.epoch = epoch => b.events = buffer
  /\ Alive /\ flush = "await" /\ reply[epoch] # "none" => NoneOnWire
  /\ Alive /\ flush = "await" /\ reply[epoch] = "ok" =>
       Channel!LastStored(epoch, Base + Len(buffer))

\* The flush thread is where start() has put it.
StartInv ==
  /\ main \in Starting \ {"startFlush", "startBeat"} => flush = "none"
  /\ main = "startFlush" => flush = "created"

\* Epochs to come have left no trace yet.
FutureInv ==
  /\ \A i \in DOMAIN stored : stored[i].epoch <= epoch
  /\ \A e \in Epochs : e > epoch => produced[e] = 0

(***************************************************************************)
(* The events of the running process are, without gap or overlap: stored,  *)
(* in the one batch on the wire or in the buffer, in the queue, in the     *)
(* dispatch thread's hand.  The inductive invariant behind PrefixStored.   *)
(***************************************************************************)
StreamInv == PipeInv /\ BatchInv /\ WireInv /\ AwaitInv /\ StartInv /\ FutureInv

-----------------------------------------------------------------------------
\* The flush thread is over, or never started and never will be.
UploaderGone ==
  \/ flush \in {"ended", "dead"} \/ ~Alive
  \/ main = "stuck" /\ flush \in {"none", "created"}

InPipe(n) == \E i \in DOMAIN (buffer \o queue) : (buffer \o queue)[i].n = n

IsStored(e, n) == \E i \in DOMAIN stored : stored[i] = [epoch |-> e, n |-> n]

\* Where the event still is.
Kept(n) == IsStored(epoch, n) \/ InPipe(n) \/ (dispatch = "put" /\ n = produced[epoch])

(***************************************************************************)
(* Nothing is lost in silence: as long as the process lives and its flush  *)
(* loop has not been left, every event the collector has handed over is in *)
(* the event table, in the buffer, in the queue or in the dispatch         *)
(* thread's hand, also while a request is out.  A loop that stop() ends    *)
(* drops its buffer, which is less than a batch, and nothing behind it.    *)
(***************************************************************************)
NoSilentLoss ==
  /\ Alive /\ flush \notin {"dead", "ended"} => \A n \in 1..produced[epoch] : Kept(n)
  /\ Alive /\ flush = "ended" =>
       \A n \in 1..produced[epoch] : Kept(n) \/ n \in Base - (MaxBatch - 2) .. Base

(***************************************************************************)
(* An event in the queue or in the buffer is stored, unless the flush      *)
(* thread ends first: by an upload that fails, a signal or a crash.        *)
(***************************************************************************)
EventuallyStored ==
  \A e \in Epochs, n \in 1..MaxEvents :
    (epoch = e /\ InPipe(n)) ~> (IsStored(e, n) \/ UploaderGone \/ stop)

(***************************************************************************)
(* enqueue_event blocks the collector only for as long as the flush thread *)
(* is still draining the queue.                                            *)
(***************************************************************************)
EnqueueReturns == dispatch = "put" ~> (dispatch # "put" \/ UploaderGone \/ stop)

(***************************************************************************)
(* A signal ends the process, whatever its threads are blocked on: a full  *)
(* queue, an unanswered request, a thread not yet started.  The exception  *)
(* is a second signal inside the Event.set() of the first one's stop().    *)
(***************************************************************************)
SignalEndsProcess == signals > 0 ~> (~Alive \/ (main = "stuck" /\ signals > 1))

-----------------------------------------------------------------------------
(* Statements of the documents that the code does not keep. *)

\* API.md: the agent sends heartbeats at fixed intervals, to show that it is
\* alive; here, as long as it runs and no signal has come, again and again.
HeartbeatsGoOn == []<>(beat = "post" \/ stop \/ ~Alive \/ main = "stuck")

\* server.py: the test server has the endpoints the agent expects.
StartSucceeds == main # "raised"
=============================================================================
