------------------------------ MODULE Backend ------------------------------
(***************************************************************************)
(* The server an agent reports to, and the HTTP requests that carry event  *)
(* batches to it.  The server is external: it is modelled from what        *)
(* client.py sends and agent.py expects back.  A request stays on the wire *)
(* until the server handles it or the connection is gone; the client reads *)
(* the outcome from reply, and may give up before there is one.            *)
(***************************************************************************)
EXTENDS Naturals, Sequences

CONSTANTS MaxEpochs,  \* bound: runs of the agent process
          MaxEvents,  \* bound: events collected in one run
          Endpoints,  \* the endpoints the server has
          Faults      \* what may go wrong

AllEndpoints == {"register", "heartbeat", "events", "sequence"}

\* Those of the repository's test server, which keeps no state.
TestServer == {"register", "heartbeat", "events"}

AllFaults == {"startup",     \* a request of start() fails
              "reject",      \* a batch is answered with an error status
              "timeout",     \* the client gives up on a batch
              "late",        \* ... and the server handles it all the same
              "heartbeat",   \* a heartbeat fails
              "forget",      \* the server loses the agent's record
              "collector",   \* the collector cannot start
              "crash"}       \* the agent process is killed

ASSUME BackendAssumption ==
  /\ MaxEpochs \in Nat \ {0}
  /\ MaxEvents \in Nat
  /\ Endpoints \subseteq AllEndpoints
  /\ Faults \subseteq AllFaults

Epochs == 1..MaxEpochs
Event == [epoch: Epochs, n: 1..MaxEvents]
AgentEventBatch == [epoch: Epochs, sequence: Nat, events: Seq(Event)]

VARIABLES known,    \* the server has a record of the agent
          lastSeq,  \* the highest batch sequence stored, 0 before the first
          stored,   \* the event table, in arrival order
          wire,     \* event batches sent and not yet handled
          reply     \* reply[e]: the answer to epoch e's outstanding batch

backendVars == <<known, lastSeq, stored>>
netVars == <<wire, reply>>

BackendInit ==
  /\ known = FALSE
  /\ lastSeq = 0
  /\ stored = <<>>
  /\ wire = {}
  /\ reply = [e \in Epochs |-> "none"]

BackendTypeOK ==
  /\ known \in BOOLEAN
  /\ lastSeq \in Nat
  /\ stored \in Seq(Event)
  /\ wire \subseteq AgentEventBatch
  /\ reply \in [Epochs -> {"none", "ok", "error"}]

-----------------------------------------------------------------------------
(* Requests, as client.py makes them. *)

\* POST register: the record is made unless the request fails before that.
RegisterOk == "register" \in Endpoints /\ known' = TRUE
RegisterFails == "startup" \in Faults /\ known' \in {known, TRUE}

\* GET sequence: 404 without the endpoint or without the record.
SequenceServed == "sequence" \in Endpoints /\ known

\* next_sequence: a server without batches may answer 0 or leave it out.
NextSequence == IF lastSeq = 0 THEN {0, 1} ELSE {lastSeq + 1}

\* POST events.
SendEvents(b) ==
  /\ wire' = wire \cup {b}
  /\ reply' = [reply EXCEPT ![b.epoch] = "none"]

\* Nobody waits for epoch e's request any more.
Abandoned(e) ==
  IF "late" \in Faults THEN wire ELSE {b \in wire : b.epoch # e}

-----------------------------------------------------------------------------
(* The server's side. *)

AcceptBatch(b) ==
  /\ "events" \in Endpoints
  /\ b \in wire
  /\ wire' = wire \ {b}
  /\ stored' = stored \o b.events
  /\ lastSeq' = IF b.sequence > lastSeq THEN b.sequence ELSE lastSeq
  /\ reply' = [reply EXCEPT ![b.epoch] = "ok"]
  /\ UNCHANGED known

RejectBatch(b) ==
  /\ "reject" \in Faults
  /\ b \in wire
  /\ wire' = wire \ {b}
  /\ reply' = [reply EXCEPT ![b.epoch] = "error"]
  /\ UNCHANGED backendVars

ForgetAgent ==
  /\ "forget" \in Faults
  /\ known
  /\ known' = FALSE
  /\ UNCHANGED <<lastSeq, stored, wire, reply>>

BackendNext == ForgetAgent \/ \E b \in wire : AcceptBatch(b) \/ RejectBatch(b)
=============================================================================
