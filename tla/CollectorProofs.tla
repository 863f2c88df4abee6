-------------------------- MODULE CollectorProofs --------------------------
(***************************************************************************)
(* Proofs about the kernel collector and its helper, for every object      *)
(* file, every size of ring and pipe, and every fault.                     *)
(***************************************************************************)
EXTENDS CollectorProps, HelperProofs, WellFoundedInduction

\* Where start() is tells which threads there are; _stop is set only once
\* start() has been left for good.
StartInv ==
  /\ main \in {"start", "popen", "create"} => dispatch = "none"
  /\ main \in {"startReader", "startDispatch"} =>
       dispatch = "created" /\ stderr = "created"
  /\ main = "startStderr" => dispatch \notin {"none", "created"} /\ stderr = "created"
  /\ main \in Starting \cup {"pause"} => stopping = FALSE

\* The variables StartInv and the view of the agent depend on.
startVars == <<main, stopping, dispatch, stderr>>

\* Steps of the helper, the kernel and the reader are out of the agent's view.
LEMMA HiddenSteps ==
  ASSUME ReaderStep \/ HelperEnvStep \/ Exits \/ Finished
  PROVE  UNCHANGED startVars
BY DEF ReaderStep, ReaderTop, FetchChunk, ReadEvent, ReadEnd, HelperEnvStep, Exits,
       Finished, agentVars, threadVars, vars, startVars

\* The steps of start() and stop() that only move the main thread on.
LEMMA MovingSteps ==
  ASSUME StartFails \/ Popen \/ PutPlaceholder \/ TerminateHelper
           \/ WaitForHelper \/ JoinThreads \/ Crash
  PROVE  /\ UNCHANGED <<stopping, dispatch, stderr>>
         /\ \/ main = "start" /\ main' \in {"popen", "pause"}
            \/ main = "placeholder" /\ main' = "pause"
            \/ main' \in Stopping \cup Ended
<1>1. CASE StartFails \/ Popen \/ PutPlaceholder
  BY <1>1 DEF StartFails, Popen, PutPlaceholder, End, Ended, threadVars
<1>2. CASE TerminateHelper \/ WaitForHelper
  BY <1>2 DEF TerminateHelper, WaitForHelper, Stopping, Joining, threadVars
<1>3. CASE JoinThreads \/ Crash
  BY <1>3 DEF JoinThreads, Join, Crash, End, Stopping, Joining, Ended, threadVars
<1>4. QED
  BY <1>1, <1>2, <1>3

\* Every step keeps the invariant.
LEMMA StartStep == StartInv /\ [Next]_vars => StartInv'
<1> SUFFICES ASSUME StartInv, [Next]_vars
             PROVE  StartInv'
  OBVIOUS
<1> USE DEF StartInv, Starting
<1>1. CASE StartFails \/ Popen \/ PutPlaceholder \/ TerminateHelper
             \/ WaitForHelper \/ JoinThreads \/ Crash
  <2>1. /\ UNCHANGED <<stopping, dispatch, stderr>>
        /\ \/ main = "start" /\ main' \in {"popen", "pause"}
           \/ main = "placeholder" /\ main' = "pause"
           \/ main' \in Stopping \cup Ended
    BY <1>1, MovingSteps
  <2>2. QED
    BY <2>1 DEF Stopping, Joining, Ended
<1>2. CASE Starts
  BY <1>2 DEF Starts
<1>3. CASE StopSet \/ Signal
  <2>1. main' \in {"stopSet", "terminate", "joinReader", "stuck"}
    BY <1>3 DEF StopSet, Signal
  <2>2. QED
    BY <2>1
<1>4. CASE DispatchStep \/ OnEvent \/ StderrStep
  <2>1. UNCHANGED <<main, stopping>>
    BY <1>4 DEF DispatchStep, DispatchTop, DispatchGet, OnEvent, StderrStep, agentVars
  <2>2. /\ dispatch \in {"none", "created"} => dispatch' = dispatch
        /\ dispatch \notin {"none", "created"} => dispatch' \notin {"none", "created"}
    BY <1>4 DEF DispatchStep, DispatchTop, DispatchGet, Continues, OnEvent, StderrStep
  <2>3. stderr = "created" => stderr' = "created"
    BY <1>4 DEF DispatchStep, DispatchTop, DispatchGet, OnEvent, StderrStep
  <2>4. QED
    BY <2>1, <2>2, <2>3
<1>5. CASE ReaderStep \/ HelperEnvStep \/ Exits \/ Finished \/ UNCHANGED vars
  <2>1. UNCHANGED startVars
    BY <1>5, HiddenSteps DEF vars, agentVars, threadVars, startVars
  <2>2. QED
    BY <2>1 DEF startVars
<1>6. QED
  BY <1>1, <1>2, <1>3, <1>4, <1>5 DEF Next, MainStep

-----------------------------------------------------------------------------
(* The collector as the agent sees it. *)

\* What the agent sees depends on these three.
LEMMA SameView ==
  ASSUME UNCHANGED <<stopping, dispatch>>,
         stderr' = stderr \/ (stderr # "created" /\ stderr' # "created")
  PROVE  UNCHANGED Source!sourceVars
BY DEF Source!sourceVars, CollectorState

\* Setting _stop.
LEMMA StopView ==
  ASSUME stopping' \in {stopping, TRUE}, UNCHANGED <<dispatch, stderr>>
  PROVE  Source!Stop \/ UNCHANGED Source!sourceVars
<1>1. CASE stopping' = stopping
  BY <1>1, SameView
<1>2. CASE stopping' = TRUE
  BY <1>2 DEF Source!Stop, Source!Stopped, Source!AllCollectors, CollectorState
<1>3. QED
  BY <1>1, <1>2

\* Every step is one of a collector's, or the agent does not see it.
LEMMA SourceStep ==
  StartInv /\ [Next]_vars => [Source!SourceNext]_(Source!sourceVars)
<1> SUFFICES ASSUME StartInv, [Next]_vars
             PROVE  Source!SourceNext \/ UNCHANGED Source!sourceVars
  OBVIOUS
<1>1. CASE StartFails \/ Popen \/ PutPlaceholder \/ TerminateHelper
             \/ WaitForHelper \/ JoinThreads \/ Crash
  BY <1>1, MovingSteps, SameView
<1>2. CASE Starts
  <2>1. CASE main = "popen" \/ main = "startReader"
    BY <1>2, <2>1, SameView DEF Starts
  <2>2. CASE main = "create"
    <3>1. Source!CreateThreads
      BY <1>2, <2>2 DEF Starts, StartInv, Source!CreateThreads, CollectorState
    <3>2. QED
      BY <3>1 DEF Source!SourceNext
  <2>3. CASE main \in {"startDispatch", "startStderr"}
    <3>1. stopping = FALSE /\ stopping' = FALSE
      BY <1>2, <2>3 DEF Starts, StartInv, Starting
    <3>2. Source!RunThreads
      BY <1>2, <2>3, <3>1 DEF Starts, StartInv, Source!RunThreads, CollectorState
    <3>3. QED
      BY <3>2 DEF Source!SourceNext
  <2>4. QED
    BY <1>2, <2>1, <2>2, <2>3 DEF Starts
<1>3. CASE StopSet \/ Signal
  <2>1. stopping' \in {stopping, TRUE} /\ UNCHANGED <<dispatch, stderr>>
    BY <1>3 DEF StopSet, Signal, threadVars
  <2>2. QED
    BY <2>1, StopView DEF Source!SourceNext
<1>4. CASE DispatchTop
  <2>1. CASE stopping
    BY <1>4, <2>1 DEF DispatchTop, agentVars, Source!sourceVars, CollectorState
  <2>2. CASE ~stopping
    <3>1. Source!Poll
      BY <1>4, <2>2 DEF DispatchTop, agentVars, Source!Poll, CollectorState
    <3>2. QED
      BY <3>1 DEF Source!SourceNext
  <2>3. QED
    BY <2>1, <2>2
<1>5. CASE DispatchGet
  <2>1. Source!Call \/ Source!PollEmpty
    BY <1>5 DEF DispatchGet, Continues, agentVars, Source!Call, Source!PollEmpty, CollectorState
  <2>2. QED
    BY <2>1 DEF Source!SourceNext
<1>6. CASE OnEvent
  <2>1. Source!Return
    BY <1>6 DEF OnEvent, agentVars, Source!Return, CollectorState
  <2>2. QED
    BY <2>1 DEF Source!SourceNext
<1>7. CASE StderrStep
  <2>1. /\ UNCHANGED <<stopping, dispatch>>
        /\ stderr # "created" /\ stderr' # "created"
    BY <1>7 DEF StderrStep, agentVars
  <2>2. QED
    BY <2>1, SameView
<1>8. CASE ReaderStep \/ HelperEnvStep \/ Exits \/ Finished \/ UNCHANGED vars
  <2>1. UNCHANGED startVars
    BY <1>8, HiddenSteps DEF vars, agentVars, threadVars, startVars
  <2>2. QED
    BY <2>1, SameView DEF startVars
<1>9. QED
  BY <1>1, <1>2, <1>3, <1>4, <1>5, <1>6, <1>7, <1>8 DEF Next, MainStep, DispatchStep

(***************************************************************************)
(* The kernel collector with its helper is a collector as the model of the *)
(* agent assumes it: what is proved of the agent with any such collector   *)
(* holds with this one.                                                    *)
(***************************************************************************)
THEOREM CollectorImplementsSource == Spec => ImplementsSource
<1>1. Init => StartInv
  BY DEF Init, StartInv, Starting
<1>2. Init => Source!SourceInit
  BY DEF Init, Source!SourceInit, CollectorState
<1>3. QED
  BY <1>1, <1>2, StartStep, SourceStep, PTL DEF Spec, ImplementsSource, Source!SourceSpec
-----------------------------------------------------------------------------
(* What stop() leaves behind. *)

\* Nothing but a start can run a helper that is over or was never run.
LEMMA EndedStays ==
  ASSUME helper \in {"none", "ended"}, HelperEnvStep
  PROVE  UNCHANGED <<main, owned, over, helper>>
<1>1. UNCHANGED <<main, owned, over>>
  BY DEF HelperEnvStep, agentVars
<1>2. CASE HelperStep
  BY <1>2 DEF HelperStep, SetUp, AttachProgram, AttachDone, CheckStop, Poll,
              HandleEvent, PrintEvent, Teardown
<1>3. CASE Emit
  BY <1>1, <1>3 DEF Emit
<1>4. CASE Kill \/ Terminate
  BY <1>4 DEF Kill, Terminate, Running, Setup, Polling
<1>5. QED
  BY <1>1, <1>2, <1>3, <1>4 DEF HelperEnvStep

\* Until Popen has returned stop() does not know of a helper; wait() returns
\* only when it is over.
StopInv ==
  /\ main \in {"start", "popen"} => owned = FALSE
  /\ main = "start" => helper = "none"
  /\ over => helper = "ended"
  /\ StopEndsHelper

\* The helper is waited for, or killed, before the first join.
LEMMA StopStep == StopInv /\ [Next]_vars => StopInv'
<1> SUFFICES ASSUME StopInv, [Next]_vars
             PROVE  StopInv'
  OBVIOUS
<1> USE DEF StopInv, StopEndsHelper, Joining
<1>1. CASE StartFails
  BY <1>1 DEF StartFails, End
<1>2. CASE Popen \/ Starts \/ PutPlaceholder
  BY <1>2 DEF Popen, RunHelper, Starts, PutPlaceholder, helperVars
<1>3. CASE StopSet \/ Signal
  <2>1. /\ UNCHANGED <<owned, over, helper>>
        /\ main' \in {"stopSet", "terminate", "joinReader", "stuck"}
        /\ main' = "joinReader" => ~owned
    BY <1>3 DEF StopSet, Signal, helperVars
  <2>2. QED
    BY <2>1
<1>4. CASE TerminateHelper
  BY <1>4 DEF TerminateHelper, helperVars
<1>5. CASE WaitForHelper
  <2>1. main' = "joinReader" /\ helper' = "ended"
    BY <1>5 DEF WaitForHelper, HelperOver, KillHelper, Kill, EndHelper, helperVars
  <2>2. QED
    BY <2>1
<1>6. CASE JoinThreads
  <2>1. /\ UNCHANGED <<owned, over, helper>> /\ main \in Joining
        /\ main' \notin {"start", "popen"}
    BY <1>6 DEF JoinThreads, Join, End, Ended
  <2>2. QED
    BY <2>1
<1>7. CASE Crash
  BY <1>7 DEF Crash, End
<1>8. CASE ReaderStep \/ DispatchStep \/ OnEvent \/ StderrStep
  <2>1. UNCHANGED <<main, owned, over, helper>>
    BY <1>8 DEF ReaderStep, ReaderTop, FetchChunk, ReadEvent, ReadEnd, DispatchStep,
                DispatchTop, DispatchGet, OnEvent, StderrStep, agentVars, helperVars
  <2>2. QED
    BY <2>1
<1>9. CASE HelperEnvStep
  <2>1. UNCHANGED <<main, owned, over>>
    BY <1>9 DEF HelperEnvStep, agentVars
  <2>2. QED
    BY <1>9, <2>1, EndedStays
<1>10. CASE Exits \/ Finished \/ UNCHANGED vars
  BY <1>10 DEF Exits, Finished, vars, agentVars, helperVars
<1>11. QED
  BY <1>1, <1>2, <1>3, <1>4, <1>5, <1>6, <1>7, <1>8, <1>9, <1>10 DEF Next, MainStep

(***************************************************************************)
(* stop() leaves no helper behind: once it has waited, and from then on,   *)
(* the helper is over, whatever it was blocked on and whatever stop() then *)
(* fails on.                                                               *)
(***************************************************************************)
THEOREM NoHelperLeft == Spec => []StopEndsHelper
<1>1. Init => StopInv
  BY DEF Init, HelperInit, StopInv, StopEndsHelper, Joining
<1>2. QED
  BY <1>1, StopStep, PTL DEF Spec, StopInv

-----------------------------------------------------------------------------
(* The collector runs its helper as the helper's model assumes *)

\* The agent holds its end of the pipe until its own end.
PipeHeld == Alive => readEnd

\* A step of the agent is a step of the helper, or of what is at the other end
\* of its pipe, or hidden from the helper.
LEMMA HelperSees == PipeHeld /\ [Next]_vars => PipeHeld' /\ [HelperNext]_helperVars
<1> SUFFICES ASSUME PipeHeld, [Next]_vars PROVE PipeHeld' /\ [HelperNext]_helperVars
  OBVIOUS
<1> USE DEF PipeHeld, Alive, Ended
<1>1. CASE Popen
  <2>1. RunHelper /\ readEnd'
    BY <1>1 DEF Popen, RunHelper
  <2>2. QED
    BY <2>1 DEF HelperNext
<1>2. CASE HelperEnvStep
  <2>1. (HelperStep \/ Emit \/ Terminate \/ Kill) /\ UNCHANGED main
    BY <1>2 DEF HelperEnvStep, agentVars
  <2>2. UNCHANGED readEnd
    <3>1. CASE HelperStep
      BY <3>1 DEF HelperStep, SetUp, AttachProgram, AttachDone, CheckStop, Poll,
                  HandleEvent, PrintEvent, Teardown
    <3>2. CASE Emit \/ Terminate \/ Kill
      BY <3>2 DEF Emit, Terminate, Kill
    <3>3. QED
      BY <2>1, <3>1, <3>2
  <2>3. QED
    BY <2>1, <2>2 DEF HelperNext
<1>3. CASE TerminateHelper \/ WaitForHelper
  <2>1. /\ main \in {"terminate", "wait"}
        /\ Terminate \/ Kill \/ UNCHANGED helperVars
    BY <1>3 DEF TerminateHelper, WaitForHelper, KillHelper
  <2>2. UNCHANGED readEnd
    BY <2>1 DEF Terminate, Kill, helperVars
  <2>3. QED
    BY <2>1, <2>2 DEF HelperNext
<1>4. ASSUME NEW how \in Ended, End(how), main \notin Ended,
             UNCHANGED <<helper, status, stop, setupVars, kernelVars, pipe>>
      PROVE  PipeHeld' /\ [HelperNext]_helperVars
  BY <1>4 DEF End, CloseReadEnd, HelperNext
<1>5. CASE StartFails
  <2>1. CASE End("raised")
    BY <1>4, <1>5, <2>1 DEF StartFails
  <2>2. CASE main' = "pause" /\ UNCHANGED readEnd
    BY <1>5, <2>2 DEF StartFails, helperVars
  <2>3. QED
    BY <1>5, <2>1, <2>2 DEF StartFails
<1>6. CASE JoinThreads
  <2>1. PICK pc \in Joining, thread \in {reader, dispatch, stderr},
             next \in {"joinDispatch", "joinStderr", "exited"} : Join(pc, thread, next)
    BY <1>6 DEF JoinThreads, Joining
  <2>2. main = pc /\ main \notin Ended
    BY <2>1 DEF Join, Joining
  <2>3. ASSUME NEW how \in Ended, End(how)
        PROVE  PipeHeld' /\ [HelperNext]_helperVars
    BY <1>4, <2>1, <2>2, <2>3 DEF Join
  <2>4. CASE next \in Joining /\ main' = next /\ UNCHANGED readEnd
    BY <2>1, <2>2, <2>4 DEF Join, helperVars
  <2>5. QED
    BY <2>1, <2>3, <2>4 DEF Join
<1>7. CASE Crash
  BY <1>4, <1>7 DEF Crash
<1>8. CASE FetchChunk
  <2>1. /\ readEnd /\ UNCHANGED main
        /\ \E k \in 1..Len(pipe) : pipe' = SubSeq(pipe, k + 1, Len(pipe))
        /\ UNCHANGED <<helper, status, stop, setupVars, kernelVars, readEnd>>
    BY <1>8 DEF FetchChunk, agentVars
  <2>2. QED
    BY <2>1 DEF ReadLines, HelperNext
<1>9. CASE \/ Starts \/ PutPlaceholder \/ StopSet \/ Signal \/ ReaderTop \/ ReadEvent
           \/ ReadEnd \/ DispatchStep \/ OnEvent \/ StderrStep \/ Exits \/ Finished
           \/ UNCHANGED vars
  <2>1. UNCHANGED helperVars /\ (main \in Ended => main' \in Ended)
    BY <1>9 DEF Starts, PutPlaceholder, StopSet, Signal, ReaderTop, ReadEvent, ReadEnd,
                DispatchStep, DispatchTop, DispatchGet, OnEvent, StderrStep, Exits,
                Finished, vars, agentVars
  <2>2. QED
    BY <2>1 DEF helperVars
<1>10. QED
  BY <1>1, <1>2, <1>3, <1>5, <1>6, <1>7, <1>8, <1>9 DEF Next, MainStep, ReaderStep

\* The collector is one of the readers the helper's model allows, so that
\* every theorem about HelperSpec is one about the collector's helper.
LEMMA CollectorRunsHelper == Spec => HelperSpec
<1>1. Init => HelperInit /\ PipeHeld
  BY DEF Init, HelperInit, PipeHeld
<1>2. QED
  BY <1>1, HelperSees, PTL DEF Spec, HelperSpec

\* What is left of earlier runs keeps no helper of the collector from starting
\* nor takes the place of its filters, and once it is signalled each of its
\* steps brings it nearer to its end.
THEOREM CollectorsHelperSound == Spec => []LeftoversHarmless /\ SignalledRunsOut
BY CollectorRunsHelper, LeftoversNeverMatter, NoLoopOnceSignalled

-----------------------------------------------------------------------------
(* Types *)

\* The dispatch thread has no event before start() has started it.
CollectorInv == HelperInv /\ TypeOK /\ StartInv

LEMMA CollectorTypesStart == Init => CollectorInv
<1> SUFFICES ASSUME Init PROVE CollectorInv
  OBVIOUS
<1>1. signals \in 0..MaxSignals
  BY CollectorAssumption DEF CollectorAssumption, Init
<1>2. <<>> \in Seq(QueuedEvent) /\ Len(<<>>) = 0
  OBVIOUS
<1>3. hand \in Seq(QueuedEvent) /\ Len(hand) = 0 /\ events \in Seq(QueuedEvent)
        /\ received \in Seq(QueuedEvent) /\ chunk \in Seq(Event)
  BY <1>2 DEF Init
<1>4. HelperInv
  BY HelperTypesStart DEF Init
<1>5. StartInv
  BY DEF Init, StartInv, Starting
<1>6. TypeOK
  <2>1. Len(hand) = IF dispatch = "put" THEN 1 ELSE 0
    BY <1>3 DEF Init
  <2>2. QED
    BY <1>1, <1>3, <2>1 DEF Init, TypeOK, Starting, ThreadStates
<1>7. QED
  BY <1>4, <1>5, <1>6 DEF CollectorInv

\* The main thread, signals and the end of the process; the helper may be run
\* and be signalled, and its reader goes away with the agent.
LEMMA MainTypes ==
  ASSUME CollectorInv, MainStep \/ Signal \/ Crash
  PROVE  HelperInv' /\ TypeOK'
<1> USE DEF Starting, Stopping, Joining, Ended, ThreadStates
<1>1. CASE StartFails \/ JoinThreads \/ Crash
  <2>1. /\ main' \in Joining \cup Ended \cup {"pause"}
        /\ readEnd' \in BOOLEAN
        /\ UNCHANGED <<signals, owned, stopping, over, threadVars, helper, status,
                      stop, setupVars, kernelVars, pipe>>
    BY <1>1 DEF StartFails, JoinThreads, Join, Crash, End, CollectorInv, HelperInv, HelperTypeOK
  <2>2. HelperInv'
    BY <2>1, ReaderTypes DEF CollectorInv
  <2>3. TypeOK'
    BY <2>1 DEF CollectorInv, TypeOK, threadVars
  <2>4. QED
    BY <2>2, <2>3
<1>2. CASE Popen \/ TerminateHelper \/ WaitForHelper
  <2>1. RunHelper \/ Terminate \/ Kill \/ UNCHANGED helperVars
    BY <1>2 DEF Popen, TerminateHelper, WaitForHelper, KillHelper
  <2>2. HelperInv'
    BY <2>1, RunTypes, SignalTypes, UnmovedTypes DEF CollectorInv
  <2>3. main' \in {"popen", "wait", "joinReader"}
        /\ UNCHANGED <<signals, owned, stopping, over, threadVars>>
    BY <1>2 DEF Popen, TerminateHelper, WaitForHelper
  <2>4. TypeOK'
    BY <2>3 DEF CollectorInv, TypeOK, threadVars
  <2>5. QED
    BY <2>2, <2>4
<1>3. CASE Starts
  <2>1. HelperInv'
    BY <1>3, UnmovedTypes DEF Starts, CollectorInv
  <2>2. /\ main' \in Starting /\ owned' \in BOOLEAN
        /\ {reader', dispatch', stderr'} \subseteq ThreadStates
        /\ (dispatch' = "put") <=> (dispatch = "put")
        /\ UNCHANGED <<signals, stopping, over, chunk, events, hand, received>>
    BY <1>3 DEF Starts, CollectorInv, TypeOK, StartInv
  <2>3. QED
    BY <2>1, <2>2 DEF CollectorInv, TypeOK
<1>4. CASE PutPlaceholder
  <2>1. HelperInv'
    BY <1>4, UnmovedTypes DEF PutPlaceholder, CollectorInv
  <2>2. /\ main' = "pause" /\ events' = Append(events, Placeholder)
        /\ UNCHANGED <<signals, owned, stopping, over, reader, chunk, dispatch, hand,
                      received, stderr>>
    BY <1>4 DEF PutPlaceholder
  <2>3. events' \in Seq(QueuedEvent)
    BY <2>2, AppendProperties DEF CollectorInv, TypeOK, QueuedEvent
  <2>4. QED
    BY <2>1, <2>2, <2>3 DEF CollectorInv, TypeOK
<1>5. CASE Signal \/ StopSet
  <2>1. HelperInv'
    BY <1>5, UnmovedTypes DEF Signal, StopSet, CollectorInv
  <2>2. /\ main' \in {"stopSet", "stuck", "terminate", "joinReader"}
        /\ stopping' \in BOOLEAN
        /\ UNCHANGED <<owned, over, threadVars>>
    BY <1>5 DEF Signal, StopSet, CollectorInv, TypeOK
  <2>3. signals' \in 0..MaxSignals
    <3>1. MaxSignals \in Nat /\ signals \in 0..MaxSignals
      BY CollectorAssumption DEF CollectorAssumption, CollectorInv, TypeOK
    <3>2. signals' = signals \/ (signals < MaxSignals /\ signals' = signals + 1)
      BY <1>5 DEF Signal, StopSet
    <3>3. QED
      BY <3>1, <3>2
  <2>4. QED
    BY <2>1, <2>2, <2>3 DEF CollectorInv, TypeOK, threadVars
<1>6. QED
  BY <1>1, <1>2, <1>3, <1>4, <1>5 DEF MainStep

\* A chunk off the pipe and what is left are the pipe.
LEMMA TakenAndLeft ==
  ASSUME NEW S, NEW t \in Seq(S), NEW k \in 1..Len(t)
  PROVE  /\ SubSeq(t, 1, k) \in Seq(S) /\ SubSeq(t, k + 1, Len(t)) \in Seq(S)
         /\ SubSeq(t, 1, k) \o SubSeq(t, k + 1, Len(t)) = t
<1> DEFINE n == Len(t)
           u == SubSeq(t, 1, k)
           v == SubSeq(t, k + 1, n)
<1>1. n \in Nat
  BY LenProperties
<1>2. 1 \in 1 .. n + 1 /\ k \in 0..n /\ k + 1 \in 1 .. n + 1 /\ n \in 0..n
  BY <1>1
<1>3. /\ u \in Seq(S) /\ Len(u) = k
      /\ \A i \in 1..k : u[i] = t[i]
  BY <1>1, <1>2, SubSeqProperties
<1>4. /\ v \in Seq(S) /\ Len(v) = n - k
      /\ \A i \in 1 .. n - k : v[i] = t[k + i]
  BY <1>1, <1>2, SubSeqProperties
<1>5. /\ u \o v \in Seq(S) /\ Len(u \o v) = n
      /\ \A i \in 1..n : (u \o v)[i] = IF i <= k THEN u[i] ELSE v[i - k]
  BY <1>1, <1>2, <1>3, <1>4, ConcatProperties
<1> HIDE DEF u, v
<1>6. \A i \in 1..n : (u \o v)[i] = t[i]
  <2> TAKE i \in 1..n
  <2>1. CASE i <= k
    BY <1>3, <1>5, <2>1
  <2>2. CASE ~(i <= k)
    <3>1. i - k \in 1 .. n - k /\ k + (i - k) = i
      BY <1>1, <1>2, <2>2
    <3>2. QED
      BY <1>4, <1>5, <2>2, <3>1
  <2>3. QED
    BY <2>1, <2>2
<1>7. u \o v = t
  BY <1>5, <1>6, SeqEqual
<1>8. QED
  BY <1>3, <1>4, <1>7 DEF u, v

\* The threads take events from the pipe to on_event, one at a time.
LEMMA ThreadTypes ==
  ASSUME CollectorInv, ReaderStep \/ DispatchStep \/ OnEvent \/ StderrStep
  PROVE  HelperInv' /\ TypeOK'
<1> USE DEF ThreadStates
<1>a. /\ pipe \in Seq(Event) /\ events \in Seq(QueuedEvent)
      /\ hand \in Seq(QueuedEvent) /\ received \in Seq(QueuedEvent)
      /\ Len(hand) = IF dispatch = "put" THEN 1 ELSE 0
      /\ chunk \in Seq(Event)
  BY DEF CollectorInv, TypeOK, HelperInv, HelperTypeOK
<1>1. CASE ReadEvent
  <2>1. /\ chunk # <<>> /\ chunk' = Tail(chunk)
        /\ events' = events \/ events' = Append(events, Head(chunk))
        /\ reader' = "top"
        /\ UNCHANGED <<agentVars, dispatch, hand, received, stderr, helperVars>>
    BY <1>1 DEF ReadEvent
  <2>2. HelperInv'
    BY <2>1, UnmovedTypes DEF CollectorInv
  <2>3. Head(chunk) \in QueuedEvent /\ chunk' \in Seq(Event)
    BY <1>a, <2>1, HeadTailProperties DEF QueuedEvent
  <2>a. Append(events, Head(chunk)) \in Seq(QueuedEvent)
    BY <1>a, <2>3, AppendProperties
  <2>4. events' \in Seq(QueuedEvent)
    BY <1>a, <2>1, <2>a
  <2>5. QED
    BY <2>1, <2>2, <2>3, <2>4 DEF CollectorInv, TypeOK, agentVars
<1>b. CASE FetchChunk
  <2>1. PICK k \in 1..Len(pipe) :
          /\ pipe' = SubSeq(pipe, k + 1, Len(pipe))
          /\ chunk' = SubSeq(pipe, 1, k) \/ chunk' = chunk
          /\ reader' \in {"read", "dead"}
    BY <1>b DEF FetchChunk
  <2>2. UNCHANGED <<agentVars, events, dispatch, hand, received, stderr, helper,
                   status, stop, setupVars, kernelVars, readEnd>>
    BY <1>b DEF FetchChunk
  <2>3. HelperInv'
    BY <2>1, <2>2, ReaderTypes DEF CollectorInv, HelperInv, HelperTypeOK
  <2>4. SubSeq(pipe, 1, k) \in Seq(Event)
    BY <1>a, TakenAndLeft
  <2>5. QED
    BY <1>a, <2>1, <2>2, <2>3, <2>4 DEF CollectorInv, TypeOK, agentVars
<1>2. CASE ReaderTop \/ ReadEnd \/ StderrStep \/ DispatchTop
  <2>1. /\ {reader', dispatch', stderr'} \subseteq ThreadStates
        /\ (dispatch' = "put") <=> (dispatch = "put")
        /\ UNCHANGED <<agentVars, chunk, events, hand, received, helperVars>>
    BY <1>2 DEF ReaderTop, ReadEnd, StderrStep, DispatchTop, CollectorInv, TypeOK
  <2>2. HelperInv'
    BY <2>1, UnmovedTypes DEF CollectorInv
  <2>3. QED
    BY <2>1, <2>2 DEF CollectorInv, TypeOK, agentVars
<1>3. CASE DispatchGet /\ events = <<>>
  <2>1. /\ dispatch = "get" /\ dispatch' = "top"
        /\ UNCHANGED <<agentVars, reader, chunk, received, stderr, helperVars, hand,
                      events>>
    BY <1>3 DEF DispatchGet, Continues
  <2>2. HelperInv'
    BY <2>1, UnmovedTypes DEF CollectorInv
  <2>3. QED
    BY <2>1, <2>2 DEF CollectorInv, TypeOK, agentVars
<1>4. CASE DispatchGet /\ events # <<>>
  <2>1. /\ hand' = <<Head(events)>> /\ events' = Tail(events) /\ dispatch' = "put"
        /\ UNCHANGED <<agentVars, reader, chunk, received, stderr, helperVars>>
    BY <1>4 DEF DispatchGet
  <2>2. HelperInv'
    BY <2>1, UnmovedTypes DEF CollectorInv
  <2>3. Head(events) \in QueuedEvent /\ Tail(events) \in Seq(QueuedEvent)
    BY <1>a, <1>4, HeadTailProperties
  <2>4. <<Head(events)>> \in Seq(QueuedEvent) /\ Len(<<Head(events)>>) = 1
    BY <2>3
  <2>5. QED
    BY <2>1, <2>2, <2>3, <2>4 DEF CollectorInv, TypeOK, agentVars
<1>5. CASE OnEvent
  <2>1. /\ received' = received \o hand /\ hand' = <<>> /\ dispatch' = "top"
        /\ UNCHANGED <<agentVars, reader, chunk, events, stderr, helperVars>>
    BY <1>5 DEF OnEvent
  <2>2. HelperInv'
    BY <2>1, UnmovedTypes DEF CollectorInv
  <2>3. received \o hand \in Seq(QueuedEvent)
    BY <1>a, ConcatProperties
  <2>4. <<>> \in Seq(QueuedEvent) /\ Len(<<>>) = 0
    OBVIOUS
  <2>5. hand' \in Seq(QueuedEvent) /\ Len(hand') = 0
    BY <2>1, <2>4
  <2>6. QED
    BY <2>1, <2>2, <2>3, <2>5 DEF CollectorInv, TypeOK, agentVars
<1>6. QED
  BY <1>1, <1>b, <1>2, <1>3, <1>4, <1>5 DEF ReaderStep, DispatchStep

\* Every step keeps the types and where start() is.
LEMMA CollectorStep == CollectorInv /\ [Next]_vars => CollectorInv'
<1> SUFFICES ASSUME CollectorInv, [Next]_vars PROVE CollectorInv'
  OBVIOUS
<1>1. StartInv'
  BY StartStep DEF CollectorInv
<1>2. CASE HelperEnvStep
  <2>1. /\ HelperStep \/ Emit \/ Kill \/ Terminate
        /\ UNCHANGED <<agentVars, threadVars>>
    BY <1>2 DEF HelperEnvStep
  <2>2. HelperInv'
    BY <2>1, HelperStepTypes, SignalTypes DEF CollectorInv
  <2>3. QED
    BY <1>1, <2>1, <2>2 DEF CollectorInv, TypeOK, agentVars, threadVars
<1>3. CASE Finished \/ UNCHANGED vars
  <2>1. UNCHANGED vars
    BY <1>3 DEF Finished
  <2>2. HelperInv'
    BY <2>1, UnmovedTypes DEF CollectorInv, vars
  <2>3. QED
    BY <1>1, <2>1, <2>2 DEF CollectorInv, TypeOK, vars, agentVars, threadVars
<1>4. CASE Exits
  <2>1. HelperInv'
    BY <1>4, UnmovedTypes DEF Exits, CollectorInv
  <2>2. QED
    BY <1>1, <1>4, <2>1 DEF Exits, CollectorInv, TypeOK, threadVars
<1>5. QED
  BY <1>1, <1>2, <1>3, <1>4, MainTypes, ThreadTypes DEF Next, CollectorInv

\* Types of the collector composed with its helper; the dispatch thread holds
\* an event exactly while it is in on_event: the property TypeOK.
THEOREM CollectorTypeCorrect == Spec => []TypeOK
<1>1. CollectorInv => TypeOK
  BY DEF CollectorInv
<1>2. QED
  BY <1>1, CollectorTypesStart, CollectorStep, PTL DEF Spec

-----------------------------------------------------------------------------
(* The events that pass.  Induction over a sequence is by its smallest      *)
(* counterexample, so that no step needs a rule with an operator argument. *)

\* A set of numbers has a smallest one: what induction comes down to here.
LEMMA Smallest ==
  ASSUME NEW T \in SUBSET Nat, T # {}
  PROVE  \E n \in T : \A m \in T : n <= m
<1>1. \E x \in T : \A y \in T : ~ (<<y, x>> \in OpToRel(<, Nat))
  BY WFMin, NatLessThanWellFounded, Zenon
<1>2. \A x, y \in Nat : <<y, x>> \in OpToRel(<, Nat) <=> y < x
  BY DEF OpToRel
<1>3. \E x \in T : \A y \in T : ~ (y < x)
  BY <1>1, <1>2, Zenon
<1>4. QED
  BY <1>3

\* f holds what Passing makes of the first events of s, up to n.
Selects(f, s, n) ==
  f = [i \in 0..n |->
         IF i = 0 THEN <<>>
         ELSE IF Passes(s[i]) THEN Append(f[i - 1], s[i]) ELSE f[i - 1]]

\* That is: nothing at first, and every event that passes is appended.
LEMMA SelectsStep ==
  ASSUME NEW s, NEW n \in Nat, NEW f
  PROVE  Selects(f, s, n) <=>
           /\ f = [i \in 0..n |-> f[i]]
           /\ f[0] = <<>>
           /\ \A i \in 1..n :
                f[i] = IF Passes(s[i]) THEN Append(f[i - 1], s[i]) ELSE f[i - 1]
<1> DEFINE body(i) == IF i = 0 THEN <<>>
         ELSE IF Passes(s[i]) THEN Append(f[i - 1], s[i]) ELSE f[i - 1]
<1>1. Selects(f, s, n) => f = [i \in 0..n |-> body(i)]
  BY DEF Selects
<1>2. f = [i \in 0..n |-> body(i)] => Selects(f, s, n)
  BY DEF Selects
<1>3. body(0) = <<>>
  OBVIOUS
<1>4. \A i \in 1..n : body(i) = IF Passes(s[i]) THEN Append(f[i - 1], s[i]) ELSE f[i - 1]
  OBVIOUS
<1> HIDE DEF body
<1>5. ASSUME f = [i \in 0..n |-> body(i)]
      PROVE  f = [i \in 0..n |-> f[i]] /\ \A i \in 0..n : f[i] = body(i)
  BY <1>5
<1>6. ASSUME f = [i \in 0..n |-> f[i]], \A i \in 0..n : f[i] = body(i)
      PROVE  f = [i \in 0..n |-> body(i)]
  BY <1>6
<1>7. (\A i \in 0..n : f[i] = body(i)) <=> f[0] = body(0) /\ \A i \in 1..n : f[i] = body(i)
  OBVIOUS
<1>8. QED
  BY <1>1, <1>2, <1>3, <1>4, <1>5, <1>6, <1>7

\* There is such an f, of any length: the smallest length without one would
\* have one, made from the f of the length before it.
LEMMA SelectsExists ==
  ASSUME NEW s, NEW n \in Nat
  PROVE  \E f : Selects(f, s, n)
<1> DEFINE T == {m \in Nat : ~ \E f : Selects(f, s, m)}
<1>1. SUFFICES ASSUME T # {} PROVE FALSE
  OBVIOUS
<1>2. PICK m \in T : \A k \in T : m <= k
  BY <1>1, Smallest
<1>3. CASE m = 0
  <2> DEFINE f == [i \in 0..0 |-> <<>>]
  <2>a. f = [i \in 0..0 |-> f[i]] /\ f[0] = <<>> /\ 1..0 = {}
    OBVIOUS
  <2> HIDE DEF f
  <2>1. Selects(f, s, 0)
    BY <2>a, SelectsStep
  <2>2. QED
    BY <1>3, <2>1
<1>4. CASE m # 0
  <2>1. m \in Nat /\ m - 1 \in Nat /\ m - 1 \notin T
    BY <1>2, <1>4
  <2>2. PICK f : Selects(f, s, m - 1)
    BY <2>1
  <2> DEFINE last == IF Passes(s[m]) THEN Append(f[m - 1], s[m]) ELSE f[m - 1]
             g == [i \in 0..m |-> IF i < m THEN f[i] ELSE last]
  <2>3. /\ f[0] = <<>>
        /\ \A i \in 1 .. m - 1 :
             f[i] = IF Passes(s[i]) THEN Append(f[i - 1], s[i]) ELSE f[i - 1]
    BY <2>1, <2>2, SelectsStep
  <2> HIDE DEF last
  <2>4. g = [i \in 0..m |-> g[i]] /\ g[0] = <<>> /\ g[m] = last /\ \A i \in 0 .. m - 1 : g[i] = f[i]
    BY <1>4, <2>1, <2>3
  <2> HIDE DEF g
  <2>5. ASSUME NEW i \in 1..m
        PROVE  g[i] = IF Passes(s[i]) THEN Append(g[i - 1], s[i]) ELSE g[i - 1]
    <3>1. CASE i = m
      <4>1. m - 1 \in 0 .. m - 1
        BY <2>1
      <4>2. g[i - 1] = f[m - 1] /\ s[i] = s[m] /\ g[i] = last
        BY <2>4, <3>1, <4>1
      <4>3. QED
        BY <4>2 DEF last
    <3>2. CASE i # m
      <4>1. i \in 1 .. m - 1 /\ i \in 0 .. m - 1 /\ i - 1 \in 0 .. m - 1
        BY <2>1, <3>2
      <4>2. g[i] = f[i] /\ g[i - 1] = f[i - 1]
        BY <2>4, <4>1
      <4>3. QED
        BY <2>3, <4>1, <4>2
    <3>3. QED
      BY <3>1, <3>2
  <2>6. Selects(g, s, m)
    BY <2>1, <2>4, <2>5, SelectsStep
  <2>7. QED
    BY <2>6
<1>5. QED
  BY <1>3, <1>4

\* s and t begin with the same n events.
SameUpTo(s, t, n) == \A i \in 1..n : s[i] = t[i]

\* It depends on those events only.
LEMMA SelectsAgree ==
  ASSUME NEW s, NEW t, NEW n \in Nat, NEW m \in Nat, n <= m,
         SameUpTo(s, t, n),
         NEW f, NEW g, Selects(f, s, n), Selects(g, t, m)
  PROVE  f[n] = g[n]
<1> DEFINE T == {i \in 0..n : f[i] # g[i]}
<1>1. SUFFICES ASSUME T # {} PROVE FALSE
  <2>1. n \in 0..n
    OBVIOUS
  <2>2. QED
    BY <2>1
<1>2. PICK i \in T : \A j \in T : i <= j
  <2>1. T \in SUBSET Nat
    OBVIOUS
  <2>2. QED
    BY <1>1, <2>1, Smallest
<1>3. i # 0
  <2>1. f[0] = <<>>
    BY SelectsStep
  <2>2. g[0] = <<>>
    BY SelectsStep
  <2>3. QED
    BY <2>1, <2>2
<1>4. i \in 1..n /\ i \in 1..m /\ i - 1 \in 0..n /\ i - 1 \notin T
  BY <1>2, <1>3
<1>5. f[i - 1] = g[i - 1]
  BY <1>4
<1>6. /\ f[i] = IF Passes(s[i]) THEN Append(f[i - 1], s[i]) ELSE f[i - 1]
      /\ g[i] = IF Passes(t[i]) THEN Append(g[i - 1], t[i]) ELSE g[i - 1]
  BY <1>4, SelectsStep
<1>7. s[i] = t[i]
  BY <1>4 DEF SameUpTo
<1>8. f[i] = g[i]
  BY <1>5, <1>6, <1>7
<1>9. QED
  BY <1>8

\* Passing is the last value of such an f: the CHOOSE in it chooses.
LEMMA PassingIs ==
  ASSUME NEW S, NEW s \in Seq(S)
  PROVE  \E f : Selects(f, s, Len(s)) /\ Passing(s) = f[Len(s)]
<1> DEFINE f == CHOOSE f : Selects(f, s, Len(s))
<1>1. Passing(s) = f[Len(s)]
  BY DEF Passing, Selects
<1>2. Selects(f, s, Len(s))
  BY SelectsExists, LenProperties
<1>3. QED
  BY <1>1, <1>2

\* Of nothing, nothing passes.
LEMMA PassingEmpty == Passing(<<>>) = <<>>
<1>1. <<>> \in Seq({}) /\ Len(<<>>) = 0
  OBVIOUS
<1>2. PICK f : Selects(f, <<>>, 0) /\ Passing(<<>>) = f[0]
  BY <1>1, PassingIs
<1>3. QED
  BY <1>2, SelectsStep

\* One event more at the end of s, and what becomes of it.
LEMMA PassingAppend ==
  ASSUME NEW S, NEW s \in Seq(S), NEW e \in S
  PROVE  Passing(Append(s, e)) = IF Passes(e) THEN Append(Passing(s), e) ELSE Passing(s)
<1> DEFINE t == Append(s, e)
           n == Len(s)
           m == Len(t)
<1>1. /\ t \in Seq(S) /\ n \in Nat /\ m = n + 1 /\ t[n + 1] = e
      /\ \A i \in 1..n : s[i] = t[i]
  BY AppendProperties, LenProperties
<1>2. PICK f : Selects(f, s, n) /\ Passing(s) = f[n]
  BY PassingIs
<1>3. PICK g : Selects(g, t, m) /\ Passing(t) = g[m]
  BY <1>1, PassingIs
<1> HIDE DEF t, n, m
<1>4. m \in Nat /\ n <= m /\ n \in 0..n /\ m \in 1..m /\ m - 1 = n
  BY <1>1
<1>5. f[n] = g[n]
  <2>1. SameUpTo(s, t, n)
    BY <1>1 DEF SameUpTo
  <2>2. QED
    BY <1>1, <1>2, <1>3, <1>4, <2>1, SelectsAgree
<1>6. g[m] = IF Passes(t[m]) THEN Append(g[m - 1], t[m]) ELSE g[m - 1]
  BY <1>3, <1>4, SelectsStep
<1>7. t[m] = e
  BY <1>1
<1>8. QED
  BY <1>2, <1>3, <1>4, <1>5, <1>6, <1>7 DEF t

\* A set of sequences that begins with the empty one and is closed under
\* Append is all of them: a shortest sequence outside it is an Append of one
\* inside it.
LEMMA AppendInduction ==
  ASSUME NEW S, NEW T \in SUBSET Seq(S), <<>> \in T,
         \A s \in T, e \in S : Append(s, e) \in T
  PROVE  T = Seq(S)
<1> DEFINE Missing == {n \in Nat : \E t \in Seq(S) \ T : Len(t) = n}
<1>1. SUFFICES ASSUME NEW t \in Seq(S) \ T PROVE FALSE
  OBVIOUS
<1>2. Len(t) \in Missing
  BY LenProperties
<1>3. PICK n \in Missing : \A m \in Missing : n <= m
  BY <1>2, Smallest
<1>4. PICK u \in Seq(S) \ T : Len(u) = n
  BY <1>3
<1>5. PICK s \in Seq(S), e \in S : u = Append(s, e)
  <2>1. u # <<>>
    OBVIOUS
  <2>2. QED
    BY <2>1, SequenceEmptyOrAppend
<1>6. Len(s) \in Nat /\ n = Len(s) + 1
  BY <1>4, <1>5, AppendProperties, LenProperties
<1>a. n \in Nat
  OBVIOUS
<1>b. Len(s) \notin Missing
  <2> HIDE DEF Missing
  <2>1. QED
    BY <1>3, <1>6, <1>a
<1>7. s \notin T
  <2>1. s \in T => u \in T
    BY <1>5
  <2>2. QED
    BY <1>4, <2>1
<1>8. Len(s) \in Missing
  BY <1>6, <1>7
<1>9. QED
  BY <1>b, <1>8

\* What passes are events of s.
LEMMA PassingType ==
  ASSUME NEW S, NEW s \in Seq(S)
  PROVE  Passing(s) \in Seq(S)
<1> DEFINE T == {t \in Seq(S) : Passing(t) \in Seq(S)}
<1>1. <<>> \in T
  BY PassingEmpty, EmptySeq
<1>2. ASSUME NEW t \in T, NEW e \in S PROVE Append(t, e) \in T
  BY PassingAppend, AppendProperties
<1>3. T = Seq(S)
  BY <1>1, <1>2, AppendInduction
<1>4. QED
  BY <1>3

\* Append works on the right part of a concatenation.
LEMMA AppendToConcat ==
  ASSUME NEW S, NEW s \in Seq(S), NEW t \in Seq(S), NEW e \in S
  PROVE  s \o Append(t, e) = Append(s \o t, e)
<1>1. <<e>> \in Seq(S) /\ s \o t \in Seq(S)
  BY ConcatProperties
<1>2. s \o Append(t, e) = s \o (t \o <<e>>)
  BY AppendIsConcat
<1>3. Append(s \o t, e) = (s \o t) \o <<e>>
  BY <1>1, AppendIsConcat
<1>4. QED
  BY <1>1, <1>2, <1>3, ConcatAssociative

\* Passing works part by part.
LEMMA PassingConcat ==
  ASSUME NEW S, NEW s \in Seq(S), NEW t \in Seq(S)
  PROVE  Passing(s \o t) = Passing(s) \o Passing(t)
<1>1. ASSUME NEW u \in Seq(S), Passing(s \o u) = Passing(s) \o Passing(u), NEW e \in S
      PROVE  Passing(s \o Append(u, e)) = Passing(s) \o Passing(Append(u, e))
  <2>1. /\ s \o u \in Seq(S) /\ Append(u, e) \in Seq(S)
        /\ Passing(s) \in Seq(S) /\ Passing(u) \in Seq(S)
    BY ConcatProperties, AppendProperties, PassingType
  <2>2. s \o Append(u, e) = Append(s \o u, e)
    BY AppendToConcat
  <2>3. Passing(s) \o Append(Passing(u), e) = Append(Passing(s) \o Passing(u), e)
    BY <2>1, AppendToConcat
  <2>4. Passing(Append(s \o u, e)) =
          IF Passes(e) THEN Append(Passing(s \o u), e) ELSE Passing(s \o u)
    BY <2>1, PassingAppend
  <2>5. Passing(Append(u, e)) = IF Passes(e) THEN Append(Passing(u), e) ELSE Passing(u)
    BY PassingAppend
  <2>6. QED
    BY <1>1, <2>2, <2>3, <2>4, <2>5
<1> DEFINE T == {u \in Seq(S) : Passing(s \o u) = Passing(s) \o Passing(u)}
<1>2. <<>> \in T
  BY PassingEmpty, PassingType, ConcatEmptySeq, EmptySeq
<1>3. ASSUME NEW u \in T, NEW e \in S PROVE Append(u, e) \in T
  BY <1>1, AppendProperties
<1>4. T = Seq(S)
  BY <1>2, <1>3, AppendInduction
<1>5. QED
  BY <1>4

\* A sequence is its head and its tail.
LEMMA HeadThenTail ==
  ASSUME NEW S, NEW t \in Seq(S), t # <<>>
  PROVE  t = <<Head(t)>> \o Tail(t)
<1>1. Len(t) \in Nat \ {0} /\ Head(t) \in S /\ Tail(t) \in Seq(S)
  BY EmptySeq, HeadTailProperties
<1>2. <<Head(t)>> \in Seq(S) /\ Len(<<Head(t)>>) = 1 /\ <<Head(t)>>[1] = t[1]
  BY <1>1
<1> DEFINE u == <<Head(t)>> \o Tail(t)
<1>3. /\ u \in Seq(S) /\ Len(u) = Len(t)
      /\ \A i \in 1 .. Len(t) : u[i] = IF i <= 1 THEN t[1] ELSE Tail(t)[i - 1]
  BY <1>1, <1>2, HeadTailProperties, ConcatProperties
<1>4. \A i \in 1 .. Len(t) : u[i] = t[i]
  <2> TAKE i \in 1 .. Len(t)
  <2>1. CASE i = 1
    BY <1>1, <1>3, <2>1
  <2>2. CASE i # 1
    <3>1. i - 1 \in 1 .. Len(Tail(t))
      BY <1>1, <2>2, HeadTailProperties
    <3>2. Tail(t)[i - 1] = t[(i - 1) + 1] /\ (i - 1) + 1 = i
      BY <3>1, HeadTailProperties
    <3>3. QED
      BY <1>1, <1>3, <2>2, <3>2
  <2>3. QED
    BY <2>1, <2>2
<1> HIDE DEF u
<1>5. u = t
  BY <1>3, <1>4, SeqEqual
<1>6. QED
  BY <1>5 DEF u

\* Taking the head of t to the end of s.
LEMMA MoveHead ==
  ASSUME NEW S, NEW s \in Seq(S), NEW t \in Seq(S), t # <<>>
  PROVE  Append(s, Head(t)) \o Tail(t) = s \o t
<1>1. Head(t) \in S /\ Tail(t) \in Seq(S)
  BY HeadTailProperties
<1>2. <<Head(t)>> \in Seq(S)
  BY <1>1
<1>3. Append(s, Head(t)) = s \o <<Head(t)>>
  BY <1>1, AppendIsConcat
<1>4. (s \o <<Head(t)>>) \o Tail(t) = s \o (<<Head(t)>> \o Tail(t))
  BY <1>1, <1>2, ConcatAssociative
<1>5. QED
  BY <1>3, <1>4, HeadThenTail

\* Losing an event that does not pass.
LEMMA DropHead ==
  ASSUME NEW S, NEW t \in Seq(S), t # <<>>, ~Passes(Head(t))
  PROVE  Passing(Tail(t)) = Passing(t)
<1>1. Head(t) \in S /\ Tail(t) \in Seq(S)
  BY HeadTailProperties
<1>2. <<>> \in Seq(S) /\ <<Head(t)>> \in Seq(S) /\ <<Head(t)>> = Append(<<>>, Head(t))
  BY <1>1
<1>3. Passing(<<Head(t)>>) = <<>>
  BY <1>1, <1>2, PassingAppend, PassingEmpty
<1>4. Passing(<<Head(t)>> \o Tail(t)) = <<>> \o Passing(Tail(t))
  BY <1>1, <1>2, <1>3, PassingConcat
<1>5. QED
  BY <1>1, <1>4, HeadThenTail, PassingType, ConcatEmptySeq

\* A sequence is a prefix of its continuations.
LEMMA PrefixOfConcat ==
  ASSUME NEW S, NEW s \in Seq(S), NEW t \in Seq(S)
  PROVE  IsPrefix(s, s \o t)
<1>1. /\ Len(s) \in Nat /\ Len(t) \in Nat
      /\ s \o t \in Seq(S) /\ Len(s \o t) = Len(s) + Len(t)
  BY LenProperties, ConcatProperties
<1>2. CASE Len(s) = 0
  <2>1. SubSeq(s, 1, 0) = <<>> /\ SubSeq(s \o t, 1, 0) = <<>>
    BY SubSeqEmpty
  <2>2. QED
    BY <1>1, <1>2, <2>1 DEF IsPrefix
<1>3. CASE Len(s) # 0
  <2>1. 1 \in 1 .. Len(s) /\ Len(s) \in 1 .. Len(s)
    BY <1>1, <1>3
  <2>2. SubSeq(s \o t, 1, Len(s)) = SubSeq(s, 1, Len(s))
    BY <2>1, SubSeqOfConcat1
  <2>3. QED
    BY <1>1, <2>2 DEF IsPrefix
<1>4. QED
  BY <1>2, <1>3

\* What two sequences of which one is a prefix of the other have in common.
LEMMA PrefixElements ==
  ASSUME NEW S, NEW s \in Seq(S), NEW t \in Seq(S)
  PROVE  IsPrefix(s, t) <=> /\ Len(s) <= Len(t)
                            /\ \A i \in 1..Len(s) : s[i] = t[i]
<1>1. Len(s) \in Nat /\ Len(t) \in Nat
  BY LenProperties
<1>2. SubSeq(s, 1, Len(s)) = s
  BY SubSeqFull
<1>3. ASSUME Len(s) <= Len(t)
      PROVE  /\ SubSeq(t, 1, Len(s)) \in Seq(S)
             /\ Len(SubSeq(t, 1, Len(s))) = Len(s)
             /\ \A i \in 1..Len(s) : SubSeq(t, 1, Len(s))[i] = t[i]
  <2>1. \A i \in 1..Len(s) : t[i] \in S
    BY <1>1, <1>3, ElementOfSeq
  <2>2. /\ SubSeq(t, 1, Len(s)) \in Seq(S)
        /\ Len(SubSeq(t, 1, Len(s))) = IF 1 <= Len(s) THEN Len(s) - 1 + 1 ELSE 0
        /\ \A i \in 1 .. Len(s) - 1 + 1 : SubSeq(t, 1, Len(s))[i] = t[1 + i - 1]
    BY <1>1, <2>1, SubSeqProperties
  <2>3. QED
    BY <1>1, <2>2
<1> DEFINE u == SubSeq(t, 1, Len(s))
<1> HIDE DEF u
<1>4. ASSUME Len(s) <= Len(t)
      PROVE  s = u <=> \A i \in 1..Len(s) : s[i] = t[i]
  <2>1. u \in Seq(S) /\ Len(u) = Len(s) /\ \A i \in 1..Len(s) : u[i] = t[i]
    BY <1>3, <1>4 DEF u
  <2>2. (\A i \in 1..Len(s) : s[i] = u[i]) => s = u
    BY <2>1, SeqEqual
  <2>3. QED
    BY <2>1, <2>2
<1>5. IsPrefix(s, t) <=> Len(s) <= Len(t) /\ s = u
  BY <1>2 DEF IsPrefix, u
<1>6. QED
  BY <1>4, <1>5

\* The first part of a prefix is a prefix.
LEMMA PrefixShorter ==
  ASSUME NEW S, NEW s \in Seq(S), NEW t \in Seq(S), NEW u \in Seq(S),
         IsPrefix(s \o t, u)
  PROVE  IsPrefix(s, u)
<1>1. /\ s \o t \in Seq(S) /\ Len(s \o t) = Len(s) + Len(t)
      /\ \A i \in 1..Len(s) : (s \o t)[i] = s[i]
      /\ Len(s) \in Nat /\ Len(t) \in Nat /\ Len(u) \in Nat
  BY ConcatProperties, LenProperties
<1>2. Len(s \o t) <= Len(u) /\ \A i \in 1..Len(s \o t) : (s \o t)[i] = u[i]
  BY <1>1, PrefixElements
<1>3. QED
  BY <1>1, <1>2, PrefixElements

\* The same, of what passes.
LEMMA PassingPart ==
  ASSUME NEW S, NEW s \in Seq(S), NEW t \in Seq(S), NEW u \in Seq(S),
         IsPrefix(Passing(s \o t), Passing(u))
  PROVE  IsPrefix(Passing(s), Passing(u))
<1>1. Passing(s \o t) = Passing(s) \o Passing(t)
  BY PassingConcat
<1>2. Passing(s) \in Seq(S) /\ Passing(t) \in Seq(S) /\ Passing(u) \in Seq(S)
  BY PassingType
<1>3. QED
  BY <1>1, <1>2, PrefixShorter

\* A prefix of what passes is one when an event is added.
LEMMA PrefixGrows ==
  ASSUME NEW S, NEW s \in Seq(S), NEW t \in Seq(S), NEW e \in S,
         IsPrefix(s, Passing(t))
  PROVE  IsPrefix(s, Passing(Append(t, e)))
<1>1. Passing(t) \in Seq(S)
  BY PassingType
<1>2. CASE ~Passes(e)
  BY <1>2, PassingAppend
<1>3. CASE Passes(e)
  <2> DEFINE u == Passing(t)
             v == Append(u, e)
  <2>1. Passing(Append(t, e)) = v
    BY <1>3, PassingAppend
  <2>2. v \in Seq(S) /\ Len(v) = Len(u) + 1 /\ \A i \in 1..Len(u) : v[i] = u[i]
    BY <1>1, AppendProperties
  <2> HIDE DEF v, u
  <2>3. /\ u \in Seq(S) /\ IsPrefix(s, u)
        /\ Len(s) \in Nat /\ Len(u) \in Nat
    BY <1>1, LenProperties DEF u
  <2>4. Len(s) <= Len(u) /\ \A i \in 1..Len(s) : s[i] = u[i]
    BY <2>3, PrefixElements
  <2>5. Len(s) <= Len(v) /\ \A i \in 1..Len(s) : s[i] = v[i]
    BY <2>2, <2>3, <2>4
  <2>6. QED
    BY <2>1, <2>2, <2>5, PrefixElements
<1>4. QED
  BY <1>2, <1>3

-----------------------------------------------------------------------------
(* What is on its way from the ring to on_event. *)

\* start() is the only place that runs the helper, and it is left for good;
\* until then nothing is accepted or written.  No reader is dead before its
\* thread has been started.
RunInv ==
  /\ main = "start" => helper = "none"
  /\ helper = "none" => ring = <<>> /\ pipe = <<>> /\ accepted = <<>>
  /\ main \in {"start", "popen", "create", "startReader"} => reader \in {"none", "created"}

\* OnlyTheRingLoses alone is not inductive: a helper that is run again loses
\* what its predecessor has accepted.
StreamInv == RunInv /\ OnlyTheRingLoses

\* The two parts of it: what cannot be lost any more, and the whole way.
Decoded == Passing(received \o hand \o events \o chunk)

Whole == IF helper = "ended" THEN IsPrefix(Stream, Passing(accepted))
                             ELSE Stream = Passing(accepted)

\* What is on its way, for the sequences there are.
LEMMA WayTypes ==
  ASSUME CollectorInv
  PROVE  /\ received \in Seq(QueuedEvent) /\ hand \in Seq(QueuedEvent)
         /\ events \in Seq(QueuedEvent) /\ chunk \in Seq(QueuedEvent)
         /\ pipe \in Seq(QueuedEvent)
         /\ ring \in Seq(QueuedEvent) /\ accepted \in Seq(QueuedEvent)
         /\ pipe \in Seq(Event) /\ ring \in Seq(Event)
<1>1. Event \subseteq QueuedEvent
  BY DEF QueuedEvent
<1>2. /\ pipe \in Seq(Event) /\ ring \in Seq(Event) /\ accepted \in Seq(Event)
      /\ chunk \in Seq(Event)
  BY DEF CollectorInv, HelperInv, HelperTypeOK, TypeOK
<1>3. QED
  BY <1>1, <1>2, SeqMonotonic DEF CollectorInv, TypeOK

\* The same, after a step that keeps the types.
LEMMA WayTypesNext ==
  ASSUME CollectorInv'
  PROVE  /\ received' \in Seq(QueuedEvent) /\ hand' \in Seq(QueuedEvent)
         /\ events' \in Seq(QueuedEvent) /\ chunk' \in Seq(QueuedEvent)
         /\ pipe' \in Seq(QueuedEvent)
         /\ ring' \in Seq(QueuedEvent) /\ accepted' \in Seq(QueuedEvent)
<1>1. Event \subseteq QueuedEvent
  BY DEF QueuedEvent
<1>2. /\ pipe' \in Seq(Event) /\ ring' \in Seq(Event) /\ accepted' \in Seq(Event)
      /\ chunk' \in Seq(Event)
  BY DEF CollectorInv, HelperInv, HelperTypeOK, TypeOK
<1>3. QED
  BY <1>1, <1>2, SeqMonotonic DEF CollectorInv, TypeOK

\* The parts of the way, put together.
LEMMA WayParts ==
  ASSUME CollectorInv
  PROVE  /\ received \o hand \in Seq(QueuedEvent)
         /\ received \o hand \o events \in Seq(QueuedEvent)
         /\ received \o hand \o events \o chunk \in Seq(QueuedEvent)
         /\ received \o hand \o events \o chunk \o pipe \in Seq(QueuedEvent)
BY WayTypes, ConcatProperties

\* Behind x, s and t become s1 and t1: the head of t goes to the end of s.
Moved(x, s, t, s1, t1) ==
  /\ x \in Seq(QueuedEvent)
  /\ s \in Seq(QueuedEvent) /\ t \in Seq(QueuedEvent) /\ t # <<>>
  /\ s1 = Append(s, Head(t)) /\ t1 = Tail(t)

\* It makes no difference to the whole.
LEMMA MoveAlong ==
  ASSUME NEW x, NEW s, NEW t, NEW s1, NEW t1, Moved(x, s, t, s1, t1)
  PROVE  (x \o s1) \o t1 = (x \o s) \o t
<1> DEFINE S == Seq(QueuedEvent)
<1>1. s \in S /\ t \in S
  BY DEF Moved
<1>2. x \in S
  BY DEF Moved
<1>3. s1 \in S /\ t1 \in S
  BY <1>1, HeadTailProperties, AppendProperties DEF Moved
<1>4. s1 \o t1 = s \o t
  BY <1>1, MoveHead DEF Moved
<1>5. (x \o s1) \o t1 = x \o (s1 \o t1)
  BY <1>2, <1>3, ConcatAssociative
<1>6. (x \o s) \o t = x \o (s \o t)
  BY <1>1, <1>2, ConcatAssociative
<1>7. QED
  BY <1>4, <1>5, <1>6

\* An event that does not pass is lost, behind x.
LEMMA LoseHead ==
  ASSUME NEW S, NEW x \in Seq(S), NEW t \in Seq(S), t # <<>>, ~Passes(Head(t))
  PROVE  Passing(x \o Tail(t)) = Passing(x \o t)
<1>1. Tail(t) \in Seq(S)
  BY HeadTailProperties
<1>2. /\ Passing(x \o Tail(t)) = Passing(x) \o Passing(Tail(t))
      /\ Passing(x \o t) = Passing(x) \o Passing(t)
  BY <1>1, PassingConcat
<1>3. QED
  BY <1>2, DropHead

\* An event that does not pass may be put in behind s.
LEMMA PutIn ==
  ASSUME NEW S, NEW x \in Seq(S), NEW s \in Seq(S), NEW e \in S, ~Passes(e)
  PROVE  Passing(x \o Append(s, e)) = Passing(x \o s)
<1>1. x \o s \in Seq(S) /\ x \o Append(s, e) = Append(x \o s, e)
  BY ConcatProperties, AppendToConcat
<1>2. QED
  BY <1>1, PassingAppend

\* What follows does not matter to what passes before it.
LEMMA PassingBefore ==
  ASSUME NEW S, NEW x \in Seq(S), NEW y \in Seq(S), NEW t \in Seq(S),
         Passing(x) = Passing(y)
  PROVE  Passing(x \o t) = Passing(y \o t)
<1>1. Passing(x \o t) = Passing(x) \o Passing(t)
  BY PassingConcat
<1>2. Passing(y \o t) = Passing(y) \o Passing(t)
  BY PassingConcat
<1>3. QED
  BY <1>1, <1>2

\* Behind readline() the threads leave the events as they are.
LEMMA ThreadsKeep ==
  ASSUME CollectorInv,
         \/ ReaderTop \/ ReadEvent \/ ReadEnd
         \/ DispatchStep \/ OnEvent \/ StderrStep \/ PutPlaceholder
  PROVE  Decoded' = Decoded /\ UNCHANGED <<pipe, ring, helper, accepted>>
<1> DEFINE Q == QueuedEvent
           x == received \o hand
<1>1. /\ received \in Seq(Q) /\ hand \in Seq(Q) /\ events \in Seq(Q)
      /\ chunk \in Seq(Q)
  BY WayTypes
<1>2. x \in Seq(Q) /\ x \o events \in Seq(Q)
  BY WayParts
<1> HIDE DEF Q, x
<1>3. CASE ReadEvent
  <2>1. /\ chunk # <<>> /\ chunk' = Tail(chunk)
        /\ events' = IF Passes(Head(chunk)) THEN Append(events, Head(chunk)) ELSE events
        /\ UNCHANGED <<received, hand, pipe, ring, helper, accepted>>
    BY <1>3 DEF ReadEvent, Taken, Passes, helperVars, kernelVars
  <2>2. CASE Passes(Head(chunk))
    <3>1. Moved(x, events, chunk, events', chunk')
      BY <1>1, <1>2, <2>1, <2>2 DEF Moved, Q
    <3>2. x \o events' \o chunk' = x \o events \o chunk
      BY <3>1, MoveAlong
    <3>3. QED
      BY <2>1, <3>2 DEF Decoded, x
  <2>3. CASE ~Passes(Head(chunk))
    <3>1. Passing((x \o events) \o Tail(chunk)) = Passing((x \o events) \o chunk)
      BY <1>1, <1>2, <2>1, <2>3, LoseHead
    <3>2. QED
      BY <2>1, <2>3, <3>1 DEF Decoded, x
  <2>4. QED
    BY <2>2, <2>3
<1>4. CASE DispatchGet /\ events # <<>>
  <2>1. /\ hand' = <<Head(events)>> /\ events' = Tail(events)
        /\ dispatch = "get"
        /\ UNCHANGED <<received, chunk, pipe, ring, helper, accepted>>
    BY <1>4 DEF DispatchGet, helperVars, kernelVars
  <2>2. hand = <<>>
    <3>1. Len(hand) = 0
      BY <2>1 DEF CollectorInv, TypeOK
    <3>2. QED
      BY <1>1, <3>1, EmptySeq
  <2>3. Moved(received, hand, events, hand', events')
    BY <1>1, <1>4, <2>1, <2>2 DEF Moved, Q
  <2>4. received \o hand' \o events' = received \o hand \o events
    BY <2>3, MoveAlong
  <2>5. QED
    BY <2>1, <2>4 DEF Decoded
<1>5. CASE OnEvent
  <2>1. /\ received' = received \o hand /\ hand' = <<>>
        /\ UNCHANGED <<events, chunk, pipe, ring, helper, accepted>>
    BY <1>5 DEF OnEvent, helperVars, kernelVars
  <2>2. received' \o hand' = x
    BY <1>2, <2>1, ConcatEmptySeq DEF x
  <2>3. QED
    BY <2>1, <2>2 DEF Decoded, x
<1>6. CASE PutPlaceholder
  <2>1. /\ events' = Append(events, Placeholder)
        /\ UNCHANGED <<received, hand, chunk, pipe, ring, helper, accepted>>
    BY <1>6 DEF PutPlaceholder, helperVars, kernelVars
  <2>2. Placeholder \in Q /\ ~Passes(Placeholder) /\ Append(events, Placeholder) \in Seq(Q)
    <3>1. Placeholder \in Q /\ ~Passes(Placeholder)
      BY DEF Placeholder, QueuedEvent, Passes, Q
    <3>2. QED
      BY <1>1, <3>1, AppendProperties
  <2> DEFINE y == x \o Append(events, Placeholder)
             z == x \o events
  <2>3. Passing(y) = Passing(z) /\ y \in Seq(Q) /\ z \in Seq(Q)
    BY <1>1, <1>2, <2>2, PutIn, ConcatProperties
  <2> HIDE DEF y, z
  <2>4. Passing(y \o chunk) = Passing(z \o chunk)
    BY <1>1, <2>3, PassingBefore
  <2>5. QED
    BY <2>1, <2>4 DEF Decoded, x, y, z
<1>7. CASE ReaderTop \/ ReadEnd \/ DispatchTop \/ (DispatchGet /\ events = <<>>) \/ StderrStep
  <2>1. UNCHANGED <<received, hand, events, chunk, pipe, ring, helper, accepted>>
    BY <1>7 DEF ReaderTop, ReadEnd, DispatchTop, DispatchGet, StderrStep, helperVars, kernelVars
  <2>2. QED
    BY <2>1 DEF Decoded
<1>8. QED
  BY <1>3, <1>4, <1>5, <1>6, <1>7 DEF DispatchStep

\* What leaves these, and the pipe and the ring, leaves the stream.
LEMMA SameWay ==
  ASSUME CollectorInv, CollectorInv', Decoded' = Decoded, UNCHANGED <<pipe, ring>>
  PROVE  Stream' = Stream
<1> DEFINE Q == QueuedEvent
           x == received \o hand \o events \o chunk
           y == received' \o hand' \o events' \o chunk'
<1>1. x \in Seq(Q) /\ pipe \in Seq(Q) /\ ring \in Seq(Q) /\ x \o pipe \in Seq(Q)
  BY WayTypes, WayParts
<1>2. /\ received' \in Seq(Q) /\ hand' \in Seq(Q) /\ events' \in Seq(Q)
      /\ chunk' \in Seq(Q)
  BY WayTypesNext
<1>3. y \in Seq(Q) /\ y \o pipe \in Seq(Q)
  BY <1>1, <1>2, ConcatProperties
<1>4. Passing(y) = Passing(x)
  BY DEF Decoded
<1>5. Stream = Passing((x \o pipe) \o ring) /\ Stream' = Passing((y \o pipe) \o ring)
  BY DEF Stream
<1> HIDE DEF x, y, Q
<1> DEFINE v == x \o pipe
           w == y \o pipe
<1>6. Passing(w) = Passing(v) /\ w \in Seq(Q) /\ v \in Seq(Q)
  BY <1>1, <1>3, <1>4, PassingBefore
<1>7. Stream = Passing(v \o ring) /\ Stream' = Passing(w \o ring)
  BY <1>5
<1> HIDE DEF v, w
<1>8. QED
  BY <1>1, <1>6, <1>7, PassingBefore

\* readline() takes a chunk off the pipe, or loses it and ends the thread.
LEMMA FetchStream ==
  ASSUME CollectorInv, FetchChunk
  PROVE  /\ UNCHANGED <<ring, helper, accepted>>
         /\ reader # "dead"
         /\ \/ Stream' = Stream
            \/ reader' = "dead" /\ Decoded' = Decoded
<1> DEFINE Q == QueuedEvent
           x == received \o hand \o events
<1>1. /\ chunk = <<>> /\ reader = "read"
      /\ UNCHANGED <<received, hand, events, ring, helper, accepted>>
  BY DEF FetchChunk, kernelVars
<1>2. PICK k \in 1..Len(pipe) :
        /\ pipe' = SubSeq(pipe, k + 1, Len(pipe))
        /\ chunk' = SubSeq(pipe, 1, k) \/ (reader' = "dead" /\ chunk' = chunk)
  BY DEF FetchChunk
<1>3. CASE reader' = "dead" /\ chunk' = chunk
  BY <1>1, <1>3 DEF Decoded
<1>4. CASE chunk' = SubSeq(pipe, 1, k)
  <2>1. x \in Seq(Q) /\ pipe \in Seq(Q)
    BY WayTypes, WayParts
  <2> HIDE DEF Q
  <2>2. /\ chunk' \in Seq(Q) /\ pipe' \in Seq(Q)
        /\ chunk' \o pipe' = pipe
    BY <1>2, <1>4, <2>1, TakenAndLeft
  <2>3. x \o chunk = x
    BY <1>1, <2>1, ConcatEmptySeq
  <2> DEFINE a == chunk'
             b == pipe'
  <2>a. x \in Seq(Q) /\ a \in Seq(Q) /\ b \in Seq(Q) /\ a \o b = pipe
    BY <2>1, <2>2
  <2> HIDE DEF a, b, x
  <2>b. (x \o a) \o b = x \o (a \o b)
    <3>1. \A u, v, w \in Seq(Q) : (u \o v) \o w = u \o (v \o w)
      BY ConcatAssociative
    <3>2. QED
      BY <2>a, <3>1, Zenon
  <2>4. (x \o chunk') \o pipe' = x \o pipe
    BY <2>a, <2>b DEF a, b
  <2>5. Stream' = Passing(((x \o chunk') \o pipe') \o ring)
    BY <1>1 DEF Stream, x
  <2>6. Stream = Passing(((x \o chunk) \o pipe) \o ring)
    BY DEF Stream, x
  <2>7. QED
    BY <1>1, <2>3, <2>4, <2>5, <2>6
<1>5. QED
  BY <1>1, <1>2, <1>3, <1>4

\* What leaves the stream and the kernel's side as they are.
LEMMA SameStream ==
  ASSUME Whole, Stream' = Stream, accepted' = accepted,
         helper' = "ended" <=> helper = "ended"
  PROVE  Whole'
BY DEF Whole

\* A helper that ends takes what is in the ring with it.
LEMMA EndStream ==
  ASSUME CollectorInv, Whole, helper # "ended",
         helper' = "ended", ring' = <<>>,
         UNCHANGED <<accepted, pipe, chunk, events, hand, received>>
  PROVE  Whole'
<1> DEFINE x == received \o hand \o events \o chunk \o pipe
<1>1. x \in Seq(QueuedEvent) /\ ring \in Seq(QueuedEvent)
  BY WayTypes, WayParts, ConcatProperties
<1>2. Stream = Passing(x) \o Passing(ring)
  BY <1>1, PassingConcat DEF Stream
<1>3. Stream' = Passing(x)
  <2>1. Stream' = Passing(x \o <<>>)
    BY DEF Stream
  <2>2. QED
    BY <1>1, <2>1, ConcatEmptySeq
<1>4. Passing(x) \in Seq(QueuedEvent) /\ Passing(ring) \in Seq(QueuedEvent)
  BY <1>1, PassingType
<1> HIDE DEF x
<1>5. IsPrefix(Passing(x), Passing(x) \o Passing(ring))
  BY <1>4, PrefixOfConcat
<1>6. Passing(x) \o Passing(ring) = Passing(accepted)
  BY <1>2 DEF Whole
<1>7. QED
  BY <1>3, <1>5, <1>6 DEF Whole

\* An event that the ring takes is the last of the stream.
LEMMA EmitStream ==
  ASSUME CollectorInv, Whole, Emit, UNCHANGED threadVars
  PROVE  Whole'
<1> DEFINE Q == QueuedEvent
           x == received \o hand \o events \o chunk \o pipe
<1>1. x \in Seq(Q) /\ ring \in Seq(Q) /\ accepted \in Seq(Q) /\ x \o ring \in Seq(Q)
  BY WayTypes, WayParts, ConcatProperties
<1>2. /\ helper # "ended" /\ helper' = helper
      /\ UNCHANGED <<received, hand, events, chunk, pipe>>
  BY DEF Emit, CollectorInv, HelperInv, threadVars
<1>3. CASE UNCHANGED <<ring, accepted>>
  BY <1>2, <1>3, SameStream DEF Stream
<1>4. CASE ~UNCHANGED <<ring, accepted>>
  <2>1. PICK e \in Event : ring' = Append(ring, e) /\ accepted' = Append(accepted, e)
    <3>1. PICK kind \in Kinds :
            LET event == [n |-> emitted + 1, kind |-> kind]
            IN  ring' = Append(ring, event) /\ accepted' = Append(accepted, event)
      BY <1>4 DEF Emit
    <3>2. emitted + 1 \in 1..MaxEvents
      BY HelperAssumption DEF HelperAssumption, Emit, CollectorInv, HelperInv, HelperTypeOK
    <3>3. kind \in AllKinds
      BY HelperAssumption DEF HelperAssumption
    <3>4. [n |-> emitted + 1, kind |-> kind] \in Event
      BY <3>2, <3>3 DEF Event
    <3>5. QED
      BY <3>1, <3>4
  <2>2. e \in Q
    BY DEF QueuedEvent
  <2> HIDE DEF Q, x
  <2>3. x \o Append(ring, e) = Append(x \o ring, e)
    BY <1>1, <2>2, AppendToConcat
  <2>4. Passing(Append(x \o ring, e)) =
          IF Passes(e) THEN Append(Passing(x \o ring), e) ELSE Passing(x \o ring)
    BY <1>1, <2>2, PassingAppend
  <2>5. Passing(Append(accepted, e)) =
          IF Passes(e) THEN Append(Passing(accepted), e) ELSE Passing(accepted)
    BY <1>1, <2>2, PassingAppend
  <2>6. Passing(x \o ring) = Passing(accepted)
    BY <1>2 DEF Whole, Stream, x
  <2>7. Stream' = Passing(x \o Append(ring, e))
    BY <1>2, <2>1 DEF Stream, x
  <2>8. Stream' = Passing(Append(accepted, e))
    BY <2>3, <2>4, <2>5, <2>6, <2>7
  <2>9. QED
    BY <1>2, <2>1, <2>8 DEF Whole
<1>5. QED
  BY <1>3, <1>4

\* handle_event takes the head of the ring away, or to the pipe.
LEMMA HandleStream ==
  ASSUME CollectorInv, UNCHANGED threadVars,
         \/ HandleEvent /\ ring' # ring
         \/ PrintEvent /\ readEnd
  PROVE  Stream' = Stream /\ UNCHANGED accepted /\ helper # "ended" /\ helper' # "ended"
<1> DEFINE Q == QueuedEvent
           x == received \o hand \o events \o chunk
<1>1. x \in Seq(Q) /\ pipe \in Seq(Q) /\ x \o pipe \in Seq(Q) /\ ring \in Seq(Q)
  BY WayTypes, WayParts, ConcatProperties
<1>2. UNCHANGED <<received, hand, events, chunk, accepted>>
  BY DEF HandleEvent, PrintEvent, threadVars
<1>3. helper # "ended" /\ helper' # "ended"
  BY DEF HandleEvent, PrintEvent
<1> HIDE DEF Q, x
<1>4. CASE HandleEvent /\ ring' # ring
  <2>1. ring # <<>> /\ ~Passes(Head(ring)) /\ ring' = Tail(ring) /\ pipe' = pipe
    BY <1>4 DEF HandleEvent, Passes
  <2>2. Passing((x \o pipe) \o Tail(ring)) = Passing((x \o pipe) \o ring)
    BY <1>1, <2>1, LoseHead
  <2>3. QED
    BY <1>2, <1>3, <2>1, <2>2 DEF Stream, x
<1>5. CASE PrintEvent /\ readEnd
  <2>1. Moved(x, pipe, ring, pipe', ring')
    BY <1>1, <1>5 DEF PrintEvent, CollectorInv, HelperInv, Moved, Q
  <2>2. x \o pipe' \o ring' = x \o pipe \o ring
    BY <2>1, MoveAlong
  <2>3. QED
    BY <1>2, <1>3, <2>2 DEF Stream, x
<1>6. QED
  BY <1>4, <1>5

\* Steps of the helper that end it.
LEMMA EndingSteps ==
  ASSUME HelperStep \/ Kill \/ Terminate, helper' = "ended", CollectorInv
  PROVE  helper # "ended" /\ ring' = <<>> /\ UNCHANGED <<accepted, pipe>>
<1>1. CASE Kill \/ Terminate
  BY <1>1 DEF Kill, Terminate, EndHelper, Running, Setup, Polling
<1>2. CASE SetUp("init", "load") \/ SetUp("load", "attach") \/ SetUp("map", "check")
  BY <1>2 DEF SetUp, EndHelper
<1>3. CASE AttachProgram \/ AttachDone
  BY <1>3 DEF AttachProgram, AttachDone, Attached, AttachFilter, AttachFails, EndHelper
<1>4. CASE CheckStop \/ Poll \/ HandleEvent
  BY <1>4 DEF CheckStop, Poll, PollTimesOut, HandleEvent
<1>5. CASE PrintEvent
  BY <1>5 DEF PrintEvent, PipeBreaks, EndHelper
<1>6. CASE Teardown
  BY <1>6 DEF Teardown, EndHelper
<1>7. QED
  BY <1>1, <1>2, <1>3, <1>4, <1>5, <1>6 DEF HelperStep

\* Steps that only move it on.
LEMMA MovingOn ==
  ASSUME HelperStep \/ Kill \/ Terminate, helper' # "ended",
         ~(HandleEvent /\ ring' # ring), ~(PrintEvent /\ readEnd)
  PROVE  helper # "ended" /\ UNCHANGED <<ring, accepted, pipe>>
<1>1. CASE Kill \/ Terminate
  BY <1>1 DEF Kill, Terminate, EndHelper, Running, Setup, Polling
<1>2. CASE SetUp("init", "load") \/ SetUp("load", "attach") \/ SetUp("map", "check")
  BY <1>2 DEF SetUp, EndHelper
<1>3. CASE AttachProgram \/ AttachDone
  BY <1>3 DEF AttachProgram, AttachDone, Attached, AttachFilter, AttachFails, EndHelper,
              kernelVars
<1>4. CASE CheckStop \/ Poll \/ HandleEvent
  BY <1>4 DEF CheckStop, Poll, PollTimesOut, HandleEvent, kernelVars
<1>5. CASE PrintEvent
  BY <1>5 DEF PrintEvent, PipeBreaks, EndHelper
<1>6. CASE Teardown
  BY <1>6 DEF Teardown, EndHelper
<1>7. QED
  BY <1>1, <1>2, <1>3, <1>4, <1>5, <1>6 DEF HelperStep

\* Every step of the helper and of the kernel, and every signal.
LEMMA HelperStream ==
  ASSUME CollectorInv, Whole, UNCHANGED threadVars,
         HelperStep \/ Emit \/ Kill \/ Terminate
  PROVE  Whole'
<1>1. UNCHANGED <<chunk, events, hand, received>>
  BY DEF threadVars
<1>2. CASE Emit
  BY <1>2, EmitStream
<1>3. CASE ~Emit /\ helper' = "ended"
  BY <1>1, <1>3, EndingSteps, EndStream
<1>4. CASE (HandleEvent /\ ring' # ring) \/ (PrintEvent /\ readEnd)
  BY <1>4, HandleStream, SameStream
<1>5. CASE /\ ~Emit /\ helper' # "ended"
           /\ ~(HandleEvent /\ ring' # ring) /\ ~(PrintEvent /\ readEnd)
  <2>1. helper # "ended" /\ UNCHANGED <<ring, accepted, pipe>>
    BY <1>5, MovingOn
  <2>2. Stream' = Stream
    BY <1>1, <2>1 DEF Stream
  <2>3. QED
    BY <1>5, <2>1, <2>2, SameStream
<1>6. QED
  BY <1>2, <1>3, <1>4, <1>5

\* Before it is run there is no step of the helper, nor of the kernel.
LEMMA NotRun ==
  ASSUME CollectorInv, helper = "none", HelperStep \/ Emit \/ Kill \/ Terminate
  PROVE  FALSE
<1>1. CASE HelperStep
  BY <1>1 DEF HelperStep, SetUp, AttachProgram, AttachDone, CheckStop, Poll,
              HandleEvent, PrintEvent, Teardown
<1>2. CASE Emit
  BY <1>2 DEF Emit, CollectorInv, HelperInv
<1>3. CASE Kill \/ Terminate
  BY <1>3 DEF Kill, Terminate, Running, Setup, Polling
<1>4. QED
  BY <1>1, <1>2, <1>3

\* No step of the helper or the kernel undoes the run.
LEMMA HelperStaysRun ==
  ASSUME HelperStep \/ Emit \/ Kill \/ Terminate, helper # "none"
  PROVE  helper' # "none"
<1>1. CASE SetUp("init", "load") \/ SetUp("load", "attach") \/ SetUp("map", "check")
  BY <1>1 DEF SetUp, EndHelper
<1>2. CASE AttachProgram \/ AttachDone \/ CheckStop \/ Poll
  BY <1>2 DEF AttachProgram, AttachDone, Attached, AttachFilter, AttachFails,
              CheckStop, Poll, PollTimesOut, EndHelper
<1>3. CASE HandleEvent \/ PrintEvent \/ Teardown
  BY <1>3 DEF HandleEvent, PrintEvent, PipeBreaks, Teardown, EndHelper
<1>4. CASE Emit \/ Kill \/ Terminate
  BY <1>4 DEF Emit, Kill, Terminate, EndHelper
<1>5. QED
  BY <1>1, <1>2, <1>3, <1>4 DEF HelperStep

\* A step that adds an event to those accepted, or none.
MoreAccepted == accepted' = accepted \/ \E e \in Event : accepted' = Append(accepted, e)

LEMMA HelperAccepts ==
  ASSUME CollectorInv, HelperStep \/ Emit \/ Kill \/ Terminate
  PROVE  MoreAccepted
<1>1. CASE Emit
  <2>1. PICK kind \in Kinds :
          \/ UNCHANGED accepted
          \/ accepted' = Append(accepted, [n |-> emitted + 1, kind |-> kind])
    BY <1>1 DEF Emit
  <2>2. emitted + 1 \in 1..MaxEvents /\ kind \in AllKinds
    BY <1>1, HelperAssumption
       DEF HelperAssumption, Emit, CollectorInv, HelperInv, HelperTypeOK
  <2>3. [n |-> emitted + 1, kind |-> kind] \in Event
    BY <2>2 DEF Event
  <2>4. QED
    BY <2>1, <2>3 DEF MoreAccepted
<1>2. CASE HelperStep
  BY <1>2 DEF HelperStep, SetUp, AttachProgram, AttachDone, CheckStop, Poll, HandleEvent,
              PrintEvent, Teardown, kernelVars, MoreAccepted
<1>3. CASE Kill \/ Terminate
  BY <1>3 DEF Kill, Terminate, MoreAccepted
<1>4. QED
  BY <1>1, <1>2, <1>3

\* A live reader has the whole way behind it; what a dead one has decoded
\* stays.
LEMMA BothParts ==
  ASSUME CollectorInv, CollectorInv', OnlyTheRingLoses, MoreAccepted,
         \/ reader' # "dead" /\ Whole'
         \/ reader' = "dead" /\ Decoded' = Decoded
  PROVE  OnlyTheRingLoses'
<1> DEFINE Q == QueuedEvent
<1>1. CASE reader' # "dead" /\ Whole'
  <2> DEFINE x == received' \o hand' \o events' \o chunk'
  <2>1. /\ received' \in Seq(Q) /\ hand' \in Seq(Q) /\ events' \in Seq(Q)
        /\ chunk' \in Seq(Q) /\ pipe' \in Seq(Q) /\ ring' \in Seq(Q)
        /\ accepted' \in Seq(Q)
    BY WayTypesNext
  <2>2. x \in Seq(Q) /\ x \o pipe' \in Seq(Q)
    BY <2>1, ConcatProperties
  <2>3. IsPrefix(Stream', Passing(accepted'))
    <3>1. Passing(accepted') \in Seq(Q)
      BY <2>1, PassingType
    <3>2. IsPrefix(Passing(accepted'), Passing(accepted'))
      BY <3>1, PrefixElements
    <3>3. QED
      BY <1>1, <3>2 DEF Whole
  <2>4. Stream' = Passing((x \o pipe') \o ring') /\ Decoded' = Passing(x)
    BY DEF Stream, Decoded
  <2> HIDE DEF x, Q
  <2>5. IsPrefix(Passing(x \o pipe'), Passing(accepted'))
    BY <2>1, <2>2, <2>3, <2>4, PassingPart
  <2>6. IsPrefix(Passing(x), Passing(accepted'))
    BY <2>1, <2>2, <2>5, PassingPart
  <2>7. QED
    BY <1>1, <2>4, <2>6 DEF OnlyTheRingLoses, Whole, Decoded
<1>2. CASE reader' = "dead" /\ Decoded' = Decoded
  <2>1. accepted \in Seq(Q) /\ Decoded \in Seq(Q) /\ Event \subseteq Q
    BY WayTypes, WayParts, PassingType DEF Decoded, QueuedEvent
  <2>2. IsPrefix(Decoded, Passing(accepted))
    BY DEF OnlyTheRingLoses, Decoded
  <2> HIDE DEF Q
  <2>3. IsPrefix(Decoded, Passing(accepted'))
    <3>1. ASSUME NEW e \in Event, accepted' = Append(accepted, e)
          PROVE  IsPrefix(Decoded, Passing(accepted'))
      BY <2>1, <2>2, <3>1, PrefixGrows
    <3>2. QED
      BY <2>2, <3>1 DEF MoreAccepted
  <2>4. QED
    BY <1>2, <2>3 DEF OnlyTheRingLoses, Decoded
<1>3. QED
  BY <1>1, <1>2

\* The reader's thread is started once, and a dead one stays dead.
LEMMA ReaderOnce ==
  ASSUME RunInv, [Next]_vars
  PROVE  /\ main' \in {"start", "popen", "create", "startReader"} =>
              reader' \in {"none", "created"}
         /\ reader = "dead" => reader' = "dead"
<1> DEFINE early == {"start", "popen", "create", "startReader"}
<1>1. CASE StartFails \/ Popen \/ PutPlaceholder \/ TerminateHelper \/ WaitForHelper
             \/ JoinThreads \/ Crash
  <2>1. reader' = reader
    BY <1>1 DEF StartFails, Popen, PutPlaceholder, TerminateHelper, WaitForHelper,
                JoinThreads, Join, Crash, threadVars
  <2>2. main' \in early => main \in early
    BY <1>1, MovingSteps DEF Stopping, Joining, Ended
  <2>3. QED
    BY <2>1, <2>2 DEF RunInv
<1>2. CASE Starts
  BY <1>2 DEF Starts, RunInv
<1>3. CASE StopSet \/ Signal
  <2>1. reader' = reader /\ main' \notin early
    BY <1>3 DEF StopSet, Signal, threadVars
  <2>2. QED
    BY <2>1
<1>4. CASE ReaderStep \/ StderrStep \/ DispatchStep \/ OnEvent
  <2>1. /\ main' = main
        /\ reader' = reader \/ (reader \in {"top", "read"})
    BY <1>4 DEF ReaderStep, ReaderTop, FetchChunk, ReadEvent, ReadEnd, StderrStep,
                DispatchStep, DispatchTop, DispatchGet, OnEvent, agentVars
  <2>2. QED
    BY <2>1 DEF RunInv
<1>5. CASE HelperEnvStep \/ Exits \/ Finished \/ UNCHANGED vars
  <2>1. UNCHANGED <<main, reader>>
    BY <1>5 DEF HelperEnvStep, Exits, Finished, vars, agentVars, threadVars
  <2>2. QED
    BY <2>1 DEF RunInv
<1>6. QED
  BY <1>1, <1>2, <1>3, <1>4, <1>5 DEF Next, MainStep

\* All of it together, for all steps.
LEMMA StreamStep ==
  CollectorInv /\ CollectorInv' /\ StreamInv /\ [Next]_vars => StreamInv'
<1> SUFFICES ASSUME CollectorInv, CollectorInv', StreamInv, [Next]_vars PROVE StreamInv'
  OBVIOUS
<1>a. RunInv /\ OnlyTheRingLoses /\ (reader # "dead" => Whole)
  BY DEF StreamInv, OnlyTheRingLoses, Whole
<1>b. /\ main' \in {"start", "popen", "create", "startReader"} =>
           reader' \in {"none", "created"}
      /\ reader = "dead" => reader' = "dead"
  BY <1>a, ReaderOnce
\* It is enough to look at the helper, and at one of the two parts.
<1>c. ASSUME main' = "start" => helper' = "none",
             helper' = "none" => ring' = <<>> /\ pipe' = <<>> /\ accepted' = <<>>,
             MoreAccepted,
             \/ reader # "dead" /\ (Whole => Whole') /\ UNCHANGED reader
             \/ reader' = "dead" /\ Decoded' = Decoded
             \/ Decoded' = Decoded /\ (Whole => Whole')
      PROVE  StreamInv'
  <2>1. \/ reader' # "dead" /\ Whole'
        \/ reader' = "dead" /\ Decoded' = Decoded
    BY <1>a, <1>b, <1>c
  <2>2. OnlyTheRingLoses'
    BY <1>a, <1>c, <2>1, BothParts
  <2>3. QED
    BY <1>b, <1>c, <2>2 DEF StreamInv, RunInv
<1> USE DEF RunInv
<1>1. CASE Popen
  <2>1. /\ main = "start" /\ main' = "popen" /\ helper' = "init"
        /\ accepted' = <<>> /\ pipe' = <<>>
        /\ UNCHANGED <<ring, chunk, events, hand, received>>
    BY <1>1 DEF Popen, RunHelper, threadVars
  <2>2. helper = "none" /\ pipe = <<>> /\ accepted = <<>>
    BY <1>a, <2>1
  <2>3. Stream' = Stream /\ Decoded' = Decoded /\ accepted' = accepted
    BY <2>1, <2>2 DEF Stream, Decoded
  <2>4. Whole => Whole'
    BY <2>1, <2>2, <2>3, SameStream
  <2>5. QED
    BY <1>c, <2>1, <2>3, <2>4 DEF MoreAccepted
<1>2. ASSUME HelperStep \/ Emit \/ Kill \/ Terminate, UNCHANGED threadVars,
             main' = "start" => main = "start"
      PROVE  StreamInv'
  <2>1. helper # "none" /\ helper' # "none"
    BY <1>2, NotRun, HelperStaysRun
  <2>2. Whole => Whole'
    BY <1>2, HelperStream
  <2>3. Decoded' = Decoded
    BY <1>2 DEF Decoded, threadVars
  <2>4. MoreAccepted
    BY <1>2, HelperAccepts
  <2>5. QED
    BY <1>a, <1>2, <1>c, <2>1, <2>2, <2>3, <2>4
<1>3. CASE HelperEnvStep
  BY <1>2, <1>3 DEF HelperEnvStep, agentVars
<1>4. ASSUME UNCHANGED <<helper, ring, accepted>>, main' = "start" => main = "start",
             Decoded' = Decoded, pipe' = pipe
      PROVE  StreamInv'
  <2>1. Stream' = Stream
    BY <1>4, SameWay
  <2>2. Whole => Whole'
    BY <1>4, <2>1, SameStream
  <2>3. QED
    BY <1>a, <1>4, <1>c, <2>2 DEF MoreAccepted
<1>5. CASE TerminateHelper \/ WaitForHelper
  <2>1. /\ Kill \/ Terminate \/ UNCHANGED helperVars
        /\ UNCHANGED threadVars /\ main' # "start"
    BY <1>5 DEF TerminateHelper, WaitForHelper, KillHelper
  <2>2. CASE UNCHANGED helperVars
    <3>1. UNCHANGED <<helper, ring, accepted, pipe>> /\ Decoded' = Decoded
      BY <2>1, <2>2 DEF helperVars, kernelVars, threadVars, Decoded
    <3>2. QED
      BY <1>4, <2>1, <3>1
  <2>3. QED
    BY <1>2, <2>1, <2>2
<1>6. CASE FetchChunk
  <2>1. /\ UNCHANGED <<ring, helper, accepted>> /\ reader # "dead"
        /\ Stream' = Stream \/ (reader' = "dead" /\ Decoded' = Decoded)
    BY <1>6, FetchStream
  <2>2. main' = main /\ (pipe = <<>> => pipe' = <<>>)
    BY <1>6, EmptySeq DEF FetchChunk, agentVars
  <2>3. Stream' = Stream => (Whole => Whole')
    BY <2>1, SameStream
  <2>4. reader' # "dead" => UNCHANGED reader
    BY <1>6 DEF FetchChunk
  <2>5. Stream' = Stream /\ reader' = "dead" => Decoded' = Decoded
    BY <1>6 DEF FetchChunk, Decoded
  <2>6. QED
    BY <1>a, <1>c, <2>1, <2>2, <2>3, <2>4, <2>5 DEF MoreAccepted
<1>7. CASE \/ ReaderTop \/ ReadEvent \/ ReadEnd
           \/ DispatchStep \/ OnEvent \/ StderrStep \/ PutPlaceholder
  <2>1. main' = "start" => main = "start"
    BY <1>7 DEF ReaderTop, ReadEvent, ReadEnd, DispatchStep, DispatchTop, DispatchGet,
                OnEvent, StderrStep, PutPlaceholder, agentVars
  <2>2. Decoded' = Decoded /\ UNCHANGED <<pipe, ring, helper, accepted>>
    BY <1>7, ThreadsKeep
  <2>3. QED
    BY <1>4, <2>1, <2>2
<1>8. CASE StartFails \/ Starts \/ StopSet \/ JoinThreads \/ Signal \/ Crash
             \/ Exits \/ Finished \/ UNCHANGED vars
  <2>1. UNCHANGED <<helper, ring, accepted, pipe, chunk, events, hand, received>>
    BY <1>8 DEF StartFails, Starts, StopSet, JoinThreads, Join, Signal, Crash, Exits,
                Finished, vars, threadVars, helperVars, kernelVars
  <2>2. main' = "start" => main = "start"
    BY <1>8 DEF StartFails, End, Starts, StopSet, JoinThreads, Join, Joining, Ended,
                Signal, Crash, Exits, Finished, vars, agentVars
  <2>3. Decoded' = Decoded
    BY <2>1 DEF Decoded
  <2>4. QED
    BY <1>4, <2>1, <2>2, <2>3
<1>9. QED
  BY <1>1, <1>3, <1>5, <1>6, <1>7, <1>8 DEF Next, MainStep, ReaderStep

\* It starts with nothing anywhere.
LEMMA StreamStart == Init => StreamInv
<1> SUFFICES ASSUME Init PROVE StreamInv
  OBVIOUS
<1>1. /\ helper = "none" /\ ring = <<>> /\ pipe = <<>> /\ accepted = <<>>
      /\ received = <<>> /\ hand = <<>> /\ events = <<>> /\ chunk = <<>>
      /\ reader = "none"
  BY DEF Init, HelperInit
<1>2. <<>> \o <<>> = <<>>
  BY EmptySeq, ConcatEmptySeq
<1>3. Stream = <<>> /\ Passing(accepted) = <<>> /\ Decoded = <<>>
  BY <1>1, <1>2, PassingEmpty DEF Stream, Decoded
<1>4. IsPrefix(<<>>, <<>>)
  <2>1. Len(<<>>) = 0
    OBVIOUS
  <2>2. QED
    BY <2>1 DEF IsPrefix
<1>5. QED
  BY <1>1, <1>3, <1>4 DEF StreamInv, RunInv, OnlyTheRingLoses, Decoded

(***************************************************************************)
(* Of the events the ring has accepted, all that pass the filters are on   *)
(* their way to on_event or have got there, once and in order, while the   *)
(* reader lives, whatever blocks or fails behind the ring; only a helper   *)
(* that ends takes the rest of the ring with it.  A reader that dies of a  *)
(* line it cannot decode takes nothing back of what it had decoded before: *)
(* the property OnlyTheRingLoses.                                          *)
(***************************************************************************)
THEOREM NothingElseLoses == Spec => []OnlyTheRingLoses
<1>1. StreamInv => OnlyTheRingLoses
  BY DEF StreamInv
<1>2. QED
  BY <1>1, CollectorTypesStart, CollectorStep, StreamStart, StreamStep, PTL DEF Spec

(***************************************************************************)
(* What on_event has got, whatever happened, are the first of the events   *)
(* the ring has accepted, in their order, each once and none left out.     *)
(***************************************************************************)
DeliveredInOrder == IsPrefix(Passing(received), Passing(accepted))

LEMMA InOrder == CollectorInv /\ OnlyTheRingLoses => DeliveredInOrder
<1> SUFFICES ASSUME CollectorInv, OnlyTheRingLoses PROVE DeliveredInOrder
  OBVIOUS
<1> DEFINE S == Seq(QueuedEvent)
           x == received \o hand
           y == x \o events
<1>1. /\ received \in S /\ hand \in S /\ events \in S /\ chunk \in S /\ accepted \in S
  BY WayTypes
<1>2. x \in S /\ y \in S
  BY WayParts
<1>3. IsPrefix(Passing(y \o chunk), Passing(accepted))
  BY DEF OnlyTheRingLoses
<1> HIDE DEF y
<1>4. IsPrefix(Passing(y), Passing(accepted))
  BY <1>1, <1>2, <1>3, PassingPart
<1> HIDE DEF x
<1>5. IsPrefix(Passing(x), Passing(accepted))
  BY <1>1, <1>2, <1>4, PassingPart DEF y
<1>6. QED
  BY <1>1, <1>5, PassingPart DEF DeliveredInOrder, x

\* The same for every behaviour: a dropped event leaves no gap behind it.
THEOREM NothingOvertaken == Spec => []DeliveredInOrder
<1>1. Spec => []CollectorInv
  BY CollectorTypesStart, CollectorStep, PTL DEF Spec
<1>2. QED
  BY <1>1, NothingElseLoses, InOrder, PTL
=============================================================================
