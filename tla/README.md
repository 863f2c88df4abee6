# A TLA+ model of the eBPF observatory agent

This directory models the agent of this repository: the Python process that
runs on a monitored host, the C helper it starts, the BPF programs the helper
loads, and what of the server the agent depends on. TLC checks the models on
small instances, and TLAPS proves the most important properties of the agent
for every value of the constants.

Paths below are relative to `src/agent/src/ebpf_observatory_agent/` unless
they start with `src/`.

## 1. The system

```
 kernel                helper process         agent process                     server
 BPF programs --ring--> ringbuf_helper --pipe--> reader --queue--> dispatch
 (drops if full)        filter, print           (unbounded)          |
                                                               enqueue_event
                                                                     | queue (10000)
                                                                     v
                                                                   flush --POST events--> event table
                                                         heartbeat thread --POST heartbeat-->
                                             main thread: start, signals, stop
```

| Component | Source | State | Operations |
|---|---|---|---|
| BPF programs | `bpf/collector.bpf.c`, `bpf/common.h` | the ring buffer | three programs that fire on `connect` and `accept` and emit an event; a full ring drops it |
| Ring buffer helper | `ringbuf_helper.c` | attached links, TC filters, `stop` flag | load, attach each program, poll, filter and print, tear down; signal handler |
| Kernel collector | `collector.py` | `_proc`, `_stop`, its queue, three threads | `start`, `stop`, `_read_loop`, `_dispatch_loop`, `_stderr_loop` |
| Demo collector | `collector.py` | `_stop`, one thread | `start`, `stop`, `_run`: an event it makes up every five seconds, without a helper |
| Event decoding | `loader.py` | none | `decode_event_payload`, `map_event_type`, `map_direction`, `map_protocol` |
| Agent runtime | `agent.py`, `cli.py`, `errors.py` | queue, buffer, `sequence`, `_stop`, threads | `start`, `register`, `sync_sequence`, `enqueue_event`, `_flush_loop`, `flush`, `_heartbeat_loop`, `stop`, the signal handler |
| HTTP client, payloads | `client.py`, `schema.py` | none | four requests with a timeout of five seconds |
| Server | external; `src/server.py` is a test server | agent record, highest sequence, event table | answers the four requests |

**Interactions.** The helper talks to the collector through a pipe, the
collector to the agent by the callback `on_event`, which is `enqueue_event`
and may block; the threads share two queues, `sequence` and the two `_stop`
events; the signal handler runs on the main thread, wherever that thread is,
and stops everything. The agent and the server meet in requests, any of which
may fail, and may be handled although the client has given up.

**What is hard about it, and what makes each component correct.**

- *Agent runtime.* Four threads, two of them ended for good by the first
  failed request; a bounded queue with a put that has no timeout; a decision
  taken on `queue.empty()` while another thread puts; a request that times out
  and is handled all the same; restarts, after which the sequence has to fit
  what the server has stored; a signal at any moment. Correct means: the event
  table holds of each run a prefix of its events, once each and in order;
  sequences leave out no number; no event waits for ever for another one; a
  signal ends the process.
- *Kernel collector.* A child process, a pipe and three threads that end in
  any order; threads that exist and are not started; a child not yet assigned.
  Correct means: while helper and reader live events are lost by the ring only,
  the child does not outlive `stop()`, threads notice its end, and a blocked callback does not stop the
  ring from being drained.
- *Helper.* A signal before, inside and after `epoll_wait`; a write that
  blocks for ever; a TC hook and filters that outlive the process. Correct
  means: it ends when told to, unless it is blocked, or when nobody holds its
  pipe, and can always be started again, with filters of its own.
- *BPF programs, filters, decoding.* Two programs fire for one `connect`, two
  filters in two languages must agree on numbers, and the agent's own uploads
  are `connect`s. Correct means: an operation is reported at most once and as
  what it was, the agent's own never, and everything else is.

`PROJECT.json` lists the hazards line by line under `hazards`, with the
properties that would catch each.

## 2. The modules

| Module | Models | Extends |
|---|---|---|
| `UploadChannel` | abstract: what uploading promises | |
| `EventSource` | abstract: what the agent relies on in a collector | |
| `Backend` | the server and the requests of `client.py` | |
| `Agent` | `agent.py` and `cli.py`, composed with the server and with a collector | `Backend`, `EventSource` |
| `AgentProps` | the agent's properties and its inductive invariant; the refinement of `UploadChannel` | `Agent` |
| `RingbufHelper` | `ringbuf_helper.c`, the ring, the pipe, the TC filters | |
| `KernelCollector` | `KernelCollector` of `collector.py`, composed with the helper | `RingbufHelper` |
| `CollectorProps` | the collector's properties; the refinement of `EventSource` | `KernelCollector` |
| `NetEvents` | the programs, the two filters and the decoder | |
| `MCAgent`, `MCHelper`, `MCCollector`, `MCNetEvents` | values for the constants | |
| `UploadChannelProofs`, `AgentProofs`, `StreamProofs`, `SequenceProofs`, `PromptProofs` | theorems about the agent | |
| `HelperProofs`, `CollectorProofs`, `NetEventsProofs` | theorems about the helper, the collector, the filters | |

**Agent.** Every thread has a program counter; a step is the code between two
points where another thread, the server or a signal can make a difference.

| Variable | In the code |
|---|---|
| `epoch` | which run of the process this is; every run has its own events |
| `main`, `signals`, `stop` | where the main thread is in `start()` or `stop()`, how many signals it got, `_stop` |
| `collector`, `dispatch` | where the collector's `start()` and `stop()` have got (`off`, threads `creating` and `starting`, then `kernel` or `demo`, `stopped`), and the thread that calls `on_event` |
| `produced` | events that thread has taken up in each epoch |
| `queue`, `buffer`, `sequence` | `self.queue`, the local `buffer` of `_flush_loop`, `self.sequence` |
| `flush`, `beat` | the flush and the heartbeat thread; `dead` after an exception |
| `known`, `lastSeq`, `stored` | the server's record of the agent, its highest sequence, its event table |
| `wire`, `reply` | batches sent and not yet handled, what the client has read for an epoch |

`Register`, `SyncSequence`, `StartCollector`, `StartCollectorThreads` and
`StartThreads` are `start()`,
`StopSet`, `StopCollector` and `JoinThreads` are `stop()`; `Signal` is the
handler taking over the main thread. A join returns at any time, because after
two seconds it does, and raises if the thread was created and not started.
`Event.set()` takes a lock that is not reentrant: a second signal inside it
leaves the main thread `stuck`, waiting for itself. `FlushTop` to `FlushFails`
are `_flush_loop` and `flush`: `queue.get` with a timeout may return nothing
only when the queue is empty, the flush condition is a step of its own because
the dispatch thread may put before it, and any failed upload ends the thread
and drops the buffer. A loop that ends on `_stop` drops it as well, since it is
a local variable (`FlushTop`). `_lock` never matters: no other thread writes
`sequence` while the flush thread runs. A batch remains on the wire after the
client has given up on it, or died, if `"late"` is among the faults.

**Helper and collector.** `RingbufHelper` is the helper with a reader of any
kind at the other end of the pipe, which may kill or signal it at any time;
`KernelCollector` extends it with the agent process in that place, using the
same actions, so that the safety properties of the helper alone hold of the
collector's helper (the lemma `CollectorRunsHelper`). A signal
interrupts `epoll_wait` or comes just before it. The event at the head of the
ring is freed only after the callback has returned, as `ring_buffer__poll`
does. A helper that is killed loses its links and its ring. `hook` says that
the interface has the TC hook, which nothing removes and which both directions
share, and `filters` for each direction which run's filter is on it: a killed
run leaves them, one that ends may (`Teardown` ignores the results of
`bpf_tc_detach`), and the next one meets `-EEXIST` for the hook (`CreateHook`,
`HookTolerated`) and replaces the filters (`TcAttach`).
`Popen` has a step between the exec of the child and the assignment of `_proc`.
`TerminateHelper` is `terminate()`, which does nothing for a child that is
over; `WaitForHelper` kills the child when it has not ended. `readline()` of a
text pipe decodes all that one read returns (`FetchChunk`) and keeps in `chunk`
what it has not yet returned; a line that is not UTF-8 ends the thread and
loses all of the chunk it was read with. `readline()` reports the end of the
pipe, `poll()` that of the helper, in this order: `over` says that the exit is
complete (`Exits`), and between the two `ReadEnd` goes round its loop. The pipe
may hold lines of a helper that is over. In `KernelCollector`, `received` and `accepted`
are history: what `on_event` got, and what found room in the ring.

An event of the helper's modules is a number and a kind that says how far it
gets (`noise` is filtered, `misread` discarded by the reader, `undecodable`
kills the reader); which real events are of which kind is the subject of
`NetEvents`.

**NetEvents.** One operation of one process, from the programs it fires to
what the reader passes on, with the fields the filters look at. `skipPid` is
what the agent has put into `EBPF_OBSERVATORY_SKIP_PID`: what `getpid()` told
it, which in a container is not the pid the programs report; `OwnPids` are the
values it may have. `Garbling` are process names that break the JSON of a line.

**What connects the two halves: a contract.** `EventSource` says what the agent
relies on in a collector: threads are created and then started; one thread
calls `on_event`, one call at a time; after `stop()` it makes at most the call
it was about to make. `Agent` is *built* from its actions: `DispatchGet` is
`Call` (the kernel collector's thread has taken an event from its queue) or
`DemoCall` (the demo collector has made one up), `EnqueueEvent` is `Return`,
`StopCollector` is `Stop`; the constant `Collectors` says which collectors are
in use. `KernelCollector` *implements* it under the refinement mapping of
`CollectorProps`, model-checked and proved (`ImplementsSource`). So the n-th
event of `Agent` is the n-th of `received \o hand` in `KernelCollector`, and
what is shown of the two in separate, small state spaces fits together:
what is stored is a prefix of what `on_event` got, which is what the ring
accepted, in order, up to the filters. Each half leaves the other free:
`Call` may happen at any time or never, and `OnEvent` has no fairness, so that
what is shown of the collector holds whatever the agent's queue does. A dead
flush thread fills the queue (`EnqueueReturns` names it) and blocks `on_event`,
and the collector still drains the ring (`RingDrains`).

## 3. The runs

A run that passes shows its properties for its instance; a run that expects a
violation shows that the code does something else than a document says.

| Run | Shows |
|---|---|
| `agent_faults` | Two epochs, three events each, queue of two, batches of two, a signal, every failure of a request, of the server and of the process, late deliveries included: the event table holds a prefix of each epoch (`PrefixStored`), the agent implements `UploadChannel` (`ImplementsChannel`), sequences leave out no number (`NoSequenceGap`), a held event never waits for another (`NoStrandedBuffer`), nothing is lost while the process and its flush loop go on, and less than a batch when `stop()` ends the loop (`NoSilentLoss`), and the inductive invariant of the proofs holds (`StreamInv`) |
| `agent_prompt` | Two epochs, either collector, with a signal, `--no-fail-open` and a batch size of 0, without late deliveries: the agent's sequence is the server's next one (`InStepWithServer`) and stored sequences increase across restarts (`SequenceIncreases`) |
| `agent_live` | Fair threads, queue of one, either collector: an event in the pipe is stored unless the flush thread ends (`EventuallyStored`), `enqueue_event` returns (`EnqueueReturns`), a signal ends the process (`SignalEndsProcess`) unless a second one comes inside `Event.set()` |
| `helper` | Three runs of the helper over four kinds of programs, killed or signalled anywhere by its other end, which need not read: the TC hook and filters of earlier runs are harmless (`LeftoversHarmless`), after a signal no loop goes round again (`SignalledRunsOut`) and it ends unless it is blocked for good on a full pipe (`SignalledHelperEnds`), it ends when nobody holds its pipe (`UnheardHelperEnds`) |
| `collector_faults` | Collector and helper under every fault and a signal: only the ring loses events while the helper and the reader live, and nothing is skipped, doubled or overtaken when one of them dies (`OnlyTheRingLoses`), no helper survives `stop()` (`StopEndsHelper`), the collector is one as the agent assumes it (`ImplementsSource`) |
| `collector_live` | `on_event` may block for ever: the ring is drained all the same (`RingDrains`), the reader ends with the helper, also when the pipe ends before `poll()` knows (`ReaderEnds`); and where it does return, what a helper has printed before it was killed gets to it (`PrintedArrives`) |
| `events` | Every connect and accept of six processes, in the initial or another pid namespace: reported at most once and as what it was (`ReportedOnce`), never the agent's own or the test server's (`OwnTrafficUnreported`), and every other TCP connection over IPv4 is (`OthersReported`) |

| Run (violation) | Document | Code |
|---|---|---|
| `late_sequence` | `src/API.md:159`: the sequence increases monotonically | a batch handled after its client gave up repeats a sequence of the next run |
| `heartbeat_stops` | `src/API.md:89`: heartbeats at fixed intervals show that the agent is alive | the first one that fails ends the heartbeat thread, while uploading goes on |
| `test_server` | `src/server.py:4-9`: has the endpoints the agent expects | no sequence endpoint: `start()` raises |
| `no_fail_open` | `cli.py:23`: exit if the kernel collector cannot start | a helper that cannot load its programs goes unnoticed |
| `feedback` | `src/README.md:230-233`: the filters avoid endless loops | only for a backend named `python` or `uvicorn` |

Every property of a passing run has a mutant in `PROJECT.json`: a change of
one definition, as a slip in the code would make it, that TLC must find.

**Bounds, and why they are enough.** `MaxEpochs = 2` is one restart, enough for
a batch of one run to meet the next run. `MaxEvents = 3` with batches of two is
a full batch and a rest, and a queue of two that fills while a batch is out;
with a batch size of 0 every event is a batch. `QueueMax` is 10000 in the code; at 1 or 2 it is full
in many more states. One signal reaches every step of
`stop()`; a second one (`agent_live`) adds only the stuck `Event.set()`. The
heartbeat thread shares nothing with the others but `stop`, so the two large
runs give it no endpoint (`NoHeartbeats`) and it dies of its first request;
`agent_live` and `heartbeat_stops` have it. Ring and pipe of one or two events
are full and empty in turn; a pipe of two puts good lines and one that cannot
be decoded into one chunk; `MaxEvents = 3` has one event on each side of a lost
one, and the four of `collector_live` with the placeholder would fill every
place between the ring and `on_event` if the collector's queue had a bound. In `helper` the four programs are a link, a skipped one and both TC
directions, so that `attach` can be left with one filter, both or none in
place; of three runs the last may find a filter of each of the others. Its
faults leave out a failing `ring_buffer__poll`, which ends the loop and would
hide a poll without a timeout; `collector_faults` has it. The repository's object has no
TC program; the code for them is modelled with the programs it expects.

The six processes of `events` are
one without a pid, one whose pid the agent may have in a namespace of its own,
the agent, the test server, any other server, and one whose name has a quote in
it; two addresses and two ports let a connection stay on the host or leave it,
and use port 8000 or not.

`events` and `feedback` check no deadlock: one operation is fired, and then
there is nothing to do. Everywhere else a state without a step would be
reported; the end of the last run is a step of its own (`Finished`), and so is
the stuck main thread of a second signal, since nothing can end that process
but SIGKILL.

**Fairness.** `FairSpec` of `Agent`: weak fairness of the main thread, the
flush thread, the heartbeat thread and of `enqueue_event` when there is room,
as the operating system schedules them and `queue.Queue` wakes a blocked
putter. Nothing is assumed of the collector's source of events, of signals,
or of the server: a request ends because its timeout is always possible. No
step needs strong fairness: joins, gets and the poll of the helper have
timeouts. `FairSpec` of `KernelCollector`: the main thread, the reader and the
dispatch thread, the helper and the end of its exit, never `on_event`, the
kernel or a signal. `HelperFairSpec`: the helper alone. Nobody has to read its
pipe, because `stop()` ends the reader before it terminates the helper.
`FairSpec` of
`NetEvents`: the programs, the helper and the reader, each of which the modules
above show to go on. `PrintedArrives` has the return of `on_event` as its
premise instead of assuming it.

## 4. What is proved

TLAPS proves the theorems below for every value of the constants, from the
named assumptions of the modules only. About the agent (natural numbers as
bounds, a positive queue size, *any* integer as the batch size, any set of
faults, of endpoints and of collectors):

1. `TypeCorrect` (`AgentProofs`): `Spec => []TypeOK`. The inductive invariant
   adds that an event in the dispatch thread's hand has been counted
   (`HandInv`): without it the number under which it is enqueued could be 0.
2. `ChannelStoresPrefixes` (`UploadChannelProofs`): the abstract channel
   stores of each epoch a prefix, in order and once each. `PrefixStored` is
   inductive together with the types: a batch starts after the last stored
   event of its epoch.
3. `StreamCorrect` (`StreamProofs`): `Spec => []StreamInv`, below.
4. `AgentImplementsChannel`: `Spec => Channel!Spec`, with the identity as the
   refinement mapping. `DispatchGet` is the channel's `Offer`, `AcceptBatch` is
   its `Deliver`, everything else a stutter.
5. `AgentStoresPrefixes`: `Spec => []PrefixStored`, from 2 and 4.
6. `NeverStranded` (`StreamProofs`): `Spec => []NoStrandedBuffer`. Inductive
   with `StreamInv` once it says that the buffer is empty before the flush
   thread runs: `FlushDecide` goes back to the queue with a buffer only when
   the queue is not empty, and nobody else takes from it.
7. `SequenceWithoutGap` (`SequenceProofs`): `Spec => NoSequenceGap`. The
   invariant `SeqInv` says that neither the agent nor any batch on the wire, an
   abandoned one included, is ahead of the server's next sequence. It needs
   `AnswerSeq`: the flush thread counts on only after the answer to a batch
   that carried its sequence.
8. `AgentInStep` and `SequencesIncrease` (`PromptProofs`): without late
   deliveries `Spec => []InStepWithServer` and `Spec => SequenceIncreases`. The
   premise `"late" \notin Faults` is needed: `late_sequence` is what happens
   without it. The invariant `StepInv` says that only the batch the flush
   thread waits for is on the wire, that between the sync and the start of the
   flush thread the sequence is the server's next one, and that once a batch is
   answered its sequence is the server's last.

9. `NothingLostInSilence` (`StreamProofs`): `Spec => []NoSilentLoss`. While the
   process lives and its flush loop has not been left, every event handed over
   is stored, in the buffer, in the queue or in the dispatch thread's hand; a
   loop that `stop()` ends loses its buffer, `MaxBatch - 1` events at most, and
   nothing behind it. `StreamInv` has the places; the lemma `StoredUpTo`, that
   a table without a gap holds every event up to its last one, is proved by a
   smallest counterexample. `NoFaultNoLoss`: the flush thread dies only of a
   batch that is refused or not answered in time, so that without these two
   faults nothing is lost while the process lives and until `stop()` is
   called, whatever else fails.
10. `SignalLeadsOut` (`AgentProofs`): the safety part of `SignalEndsProcess`. A
    signal takes the main thread into `stop()`, each step there makes the
    number of steps left smaller, and only a second signal can stick.

About the helper, the collector and the filters (any object file, positive
sizes of ring and pipe, any set of faults, processes, addresses and ports):

11. `HelperTypeCorrect` (`HelperProofs`): `HelperSpec => []HelperTypeOK`. What
    the types need beside themselves is that an event is printed while it is
    still in the ring (`ring_buffer__poll` frees it after the callback), and
    that a run has attached at most one link per program it has passed.
12. `LeftoversNeverMatter`: `HelperSpec => []LeftoversHarmless`. No run ends
    of the hook or of a filter that it finds, and the programs a run has passed
    have their filters from it, each under the handle of its direction.
13. `NoLoopOnceSignalled`: `HelperSpec => SignalledRunsOut`, the safety part of
    `SignalledHelperEnds`. Once `stop` is set each step of the helper, and each
    event that comes in, makes `StepsLeft` smaller: its place in the code, two
    steps for each event in the ring, three for each that may still come.
14. `CollectorTypeCorrect` (`CollectorProofs`): `Spec => []TypeOK` of
    `KernelCollector`, over the steps of 11 and with `StartInv` below.
15. `CollectorImplementsSource`: `Spec => Source!SourceSpec`, a refinement
    whose mapping computes the collector's state. `StartInv` says which threads
    exist at each point of `start()`, and that `_stop` is set only once
    `start()` has been left for good, so that a thread is never started after
    `stop()`.
16. `CollectorsHelperSound`: 12 and 13 of the helper inside the collector, over
    the lemma `CollectorRunsHelper` (`Spec => HelperSpec`). It uses `PipeHeld`:
    the reading end of the pipe is open as long as the agent lives.
17. `NoHelperLeft`: `Spec => []StopEndsHelper`. Nothing but a start brings a
    helper back, and a second start does not happen: `_proc` is assigned once.
18. `NothingElseLoses`: `Spec => []OnlyTheRingLoses`, exact while the helper
    and the reader live and up to what was decoded after that, and from it
    `NothingOvertaken`: what `on_event` has got is a prefix of what the ring
    accepted and the filters pass. The property is not inductive alone: a
    helper that is run again would lose what its predecessor has accepted.
    `RunInv` says that `start()` runs it once, and that nothing is accepted
    before. What passes of a concatenation is the concatenation of what passes
    of its parts, so that each step is one at the seam of two places.
19. `OwnTrafficSilent` and `EachReportedOnce` (`NetEventsProofs`):
    `OwnTrafficUnreported` and `ReportedOnce`. `NetInv` follows an event
    through the two filters; `OnlyTelling` is the reason for the second one: of
    the events of an operation the filter for zeros leaves one.
20. `FiltersExact` and `OnlyOthersReported`: the safety part of
    `OthersReported`, and its converse. An operation fires an event that gets
    through both filters *exactly if* it is `Reportable`, a TCP connection over
    IPv4 of somebody else's, and nothing else is ever reported.

**The invariant.** `PrefixStored` says nothing of what is still on its way,
and a server that stores whatever arrives could break it at any time.
`StreamInv` says where every event of the running process is. With `Base` the
number of the last event that has left the buffer,

- `PipeInv`: the buffer holds the events `Base + 1, ...`, the queue those
  after it, and the dispatch thread's hand the last one;
- `BatchInv`: the buffer is never longer than a batch, and not empty when it
  is sent (for any batch size: a batch has `MaxBatch` events at most);
- `WireInv`: of each epoch at most one batch is on the wire, and it continues
  what is stored of that epoch;
- `AwaitInv`: while no request is outstanding nothing of this epoch is on the
  wire and `Base` is stored last, or, once `stop()` has ended the loop and its
  buffer is gone, a number less than a batch below (`AlmostStored`); while one is, the batch on the wire is the
  buffer, and `Base` is stored last until it is answered with `ok`, also if it
  is refused; after that `Base + Len(buffer)` is;
- `StartInv`, `FutureInv`: the flush thread starts only in `start()`, and
  epochs to come have left no trace.

It rests on two facts of the code: the flush thread never sends a batch again
(it dies), and a process that ends takes its events with it. A retry of a
failed batch would break it: it is one of the mutants. The proof has one lemma
per group of actions (`MainStream`, `RestartStream`, `DispatchStream`,
`FlushStream` with `GetStream`, `SendStream` and `AnswerStream`,
`ServerStream` with `AcceptStream` and `RejectStream`) over frame lemmas that
say what a step leaves alone, and `StoreBatch`, which says what storing a batch
changes of the event table.

**Only model-checked.** Every invariant and every action property of the
passing runs is proved, and so are the refinements. What remains with TLC is
liveness: every `~>` and `[]<>` property, ENABLED and fairness are beyond the
prover. Of four of them the safety part is proved: of `SignalEndsProcess`
(`SignalLeadsOut`), `SignalledHelperEnds` (`NoLoopOnceSignalled`),
`OthersReported` (`FiltersExact`) and `EventuallyStored` (`NoSilentLoss`).
Induction over data is beyond it as well, since the library states it with an
operator for a parameter. The proofs do without: no definition is a RECURSIVE
operator, `Passing` is a recursive function on the indices of its sequence, and
a fact about all sequences or all numbers is proved by a smallest
counterexample, or by induction over a *set* of them.

## 5. What is not modelled

- `KernelCollector.emit` (nothing calls it) and the fields of the demo
  collector's event.
- `BPFLoader` and `BPFKernelBridge` in `loader.py`: nothing calls them, and
  the latter uses names the module does not import.
- The lookup of the host's external IP: it delays a call and changes nothing.
- The contents of requests beyond what the properties look at; JSON, and the
  conversion of addresses to text. A `comm` with a quote in it makes a line
  the reader discards (`misread`).
- Time: timeouts are choices, intervals are not kept. Of what a document says
  of fixed intervals only "again and again" can be stated (`HeartbeatsGoOn`).
- The fields of a heartbeat. `healthy` (`src/API.md:108`) is a default that
  nothing ever changes, so that a property of it would restate the default.
- An endless stream of events: `ring_buffer__poll` returns only when the ring
  is empty, so a helper under sustained load may never see its `stop` flag.
  With a bounded number of events it does (`SignalledRunsOut` counts three
  steps for each that may come); `stop()` kills it otherwise.
- A SIGINT to the whole process group reaches the helper as well as the
  agent: in `KernelCollector` that is `Terminate` from outside.
- `vmlinux.h` and the compiled object are generated. `vmlinux.h` has 131950
  lines, nearly all of the repository's; it declares the kernel's types and has
  no behaviour.

## 6. Plan

Done: the agent with its server, the abstract channel and the refinement; both
collectors, the contract between them and the agent and the refinement of it;
the helper, and the collector as a reader of it; the filters and the decoder;
a proof of every invariant and action property of the passing runs. Left:

1. A theorem across the two halves: what the agent stores is a prefix of what
   the ring accepted. It needs a module that composes `Agent` and
   `KernelCollector` over their shared contract; the theorems about each half
   (`NothingOvertaken`, `AgentStoresPrefixes`) are there.
2. The measure of `SignalLeadsOut` for the collector: that each step of
   `stop()` in `collector.py` leads to its end.
