--------------------------- MODULE UploadChannel ---------------------------
(***************************************************************************)
(* What uploading promises, seen from the collector at one end and the     *)
(* event table of the backend at the other.  Every run of the agent        *)
(* process (an epoch) offers events numbered 1, 2, 3, ...; the table grows *)
(* by whole batches, and a batch continues its epoch exactly where the     *)
(* last stored batch of that epoch ended.  Events may be lost, but only as *)
(* a suffix of their epoch.                                                *)
(***************************************************************************)
EXTENDS Naturals, Sequences

CONSTANTS Epochs,     \* the runs of the agent process
          MaxEvents,  \* bound: events offered in one epoch
          MaxBatch    \* events in one batch

\* What every use of the channel has to show of its bounds.
ChannelAssumption == MaxEvents \in Nat /\ MaxBatch \in Nat \ {0}

VARIABLES produced,   \* produced[e]: how many events epoch e has offered
          stored      \* the backend's event table, in arrival order

vars == <<produced, stored>>

Event == [epoch: Epochs, n: 1..MaxEvents]

\* m is the number of the last stored event of epoch e, 0 if there is none.
LastStored(e, m) ==
  /\ m = 0 \/ \E i \in DOMAIN stored : stored[i] = [epoch |-> e, n |-> m]
  /\ \A i \in DOMAIN stored : stored[i].epoch = e => stored[i].n <= m

Init == produced = [e \in Epochs |-> 0] /\ stored = <<>>

Offer(e) ==
  /\ produced[e] < MaxEvents
  /\ produced' = [produced EXCEPT ![e] = @ + 1]
  /\ UNCHANGED stored

Deliver(e, m, k) ==
  /\ LastStored(e, m)
  /\ m + k <= produced[e]
  /\ stored' = stored \o [i \in 1..k |-> [epoch |-> e, n |-> m + i]]
  /\ UNCHANGED produced

Next == \E e \in Epochs :
          \/ Offer(e)
          \/ \E m \in 0..MaxEvents, k \in 1..MaxBatch : Deliver(e, m, k)

Spec == Init /\ [][Next]_vars

TypeOK == produced \in [Epochs -> 0..MaxEvents] /\ stored \in Seq(Event)

(***************************************************************************)
(* An event is stored at most once, and the events of an epoch are stored  *)
(* in the order in which they were offered, without a gap and never before *)
(* they were offered.                                                      *)
(***************************************************************************)
InOrder ==
  \A i, j \in DOMAIN stored :
    i < j /\ stored[i].epoch = stored[j].epoch => stored[i].n < stored[j].n

NoGap ==
  \A i \in DOMAIN stored :
    stored[i].n > 1 =>
      \E j \in DOMAIN stored :
        j < i /\ stored[j] = [epoch |-> stored[i].epoch, n |-> stored[i].n - 1]

OnlyOffered == \A i \in DOMAIN stored : stored[i].n <= produced[stored[i].epoch]

PrefixStored == InOrder /\ NoGap /\ OnlyOffered
=============================================================================
