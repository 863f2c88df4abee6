---------------------------- MODULE HelperProofs ----------------------------
(***************************************************************************)
(* Proofs about the helper, for every object file, every size of ring and  *)
(* pipe, every number of runs and every fault.                             *)
(***************************************************************************)
EXTENDS RingbufHelper, SequenceTheorems, TLAPS

(***************************************************************************)
(* What the types rest on: a run attaches at most one link per program it  *)
(* has passed, and prints an event that is still in the ring.              *)
(***************************************************************************)
HelperInv ==
  /\ HelperTypeOK
  /\ links < program
  /\ helper \in {"none", "ended"} => links = 0
  /\ helper = "print" => ring # <<>>

LEMMA HelperTypesStart == HelperInit => HelperInv
<1> SUFFICES ASSUME HelperInit PROVE HelperInv
  OBVIOUS
<1>1. Len(Programs) \in Nat
  BY HelperAssumption, LenProperties DEF HelperAssumption
<1>2. /\ <<>> \in Seq(Event) /\ Len(<<>>) = 0
  OBVIOUS
<1>3. 1 \in 1 .. Len(Programs) + 1 /\ 0 \in 0..Len(Programs) /\ 0 \in 0..MaxRuns
        /\ 0 \in 0..MaxEvents /\ 0 <= RingMax /\ 0 <= PipeMax
  BY <1>1, HelperAssumption DEF HelperAssumption
<1>4. /\ ring \in Seq(Event) /\ accepted \in Seq(Event) /\ pipe \in Seq(Event)
      /\ Len(ring) <= RingMax /\ Len(pipe) <= PipeMax
  BY <1>2, <1>3 DEF HelperInit
<1>5. /\ runs \in 0..MaxRuns /\ program \in 1 .. Len(Programs) + 1
      /\ links \in 0..Len(Programs) /\ emitted \in 0..MaxEvents /\ links < program
  BY <1>3 DEF HelperInit
<1>6. hook \in BOOLEAN /\ filters \in [Directions -> 0..MaxRuns]
  BY <1>3 DEF HelperInit
<1>7. QED
  BY <1>4, <1>5, <1>6 DEF HelperInit, HelperInv, HelperTypeOK

\* The end of a run, however it ends, with the rest of the state well-typed.
LEMMA EndTypes ==
  ASSUME NEW how \in {"ok", "error", "EEXIST", "killed"}, HelperInv, EndHelper(how),
         hook' \in BOOLEAN, filters' \in [Directions -> 0..MaxRuns],
         UNCHANGED <<runs, program, emitted, accepted, pipe, readEnd>>,
         stop' \in BOOLEAN
  PROVE  HelperInv'
<1>1. Len(Programs) \in Nat
  BY HelperAssumption, LenProperties DEF HelperAssumption
<1>2. links' = 0 /\ links' \in 0..Len(Programs) /\ links' < program'
  BY <1>1 DEF EndHelper, HelperInv, HelperTypeOK
<1>3. ring' \in Seq(Event) /\ Len(ring') <= RingMax
  BY HelperAssumption DEF EndHelper, HelperAssumption
<1>4. helper' = "ended" /\ status' = how
  BY DEF EndHelper
<1>5. QED
  BY <1>2, <1>3, <1>4 DEF HelperInv, HelperTypeOK

\* Steps that only move the helper on.
LEMMA MoveTypes ==
  ASSUME HelperInv, helper' \in Running, helper' = "print" => ring # <<>>,
         stop' \in BOOLEAN, readEnd' \in BOOLEAN,
         UNCHANGED <<status, setupVars, kernelVars, pipe>>
  PROVE  HelperInv'
BY DEF HelperInv, HelperTypeOK, setupVars, kernelVars, Running, Setup, Polling

LEMMA UnmovedTypes == HelperInv /\ UNCHANGED helperVars => HelperInv'
BY DEF helperVars, setupVars, kernelVars, HelperInv, HelperTypeOK

LEMMA RunTypes == HelperInv /\ RunHelper => HelperInv'
<1> SUFFICES ASSUME HelperInv, RunHelper PROVE HelperInv'
  OBVIOUS
<1>1. Len(Programs) \in Nat /\ MaxRuns \in Nat /\ 0 <= PipeMax
  BY HelperAssumption, LenProperties DEF HelperAssumption
<1>2. runs' \in 0..MaxRuns /\ program' \in 1 .. Len(Programs) + 1 /\ links' < program'
  BY <1>1 DEF RunHelper, HelperInv, HelperTypeOK
<1>3. /\ accepted' \in Seq(Event) /\ pipe' \in Seq(Event) /\ Len(pipe') <= PipeMax
      /\ ring' \in Seq(Event) /\ Len(ring') <= RingMax
  BY <1>1 DEF RunHelper, HelperInv, HelperTypeOK
<1>4. /\ helper' = "init" /\ status' = "none" /\ stop' = FALSE /\ readEnd' = TRUE
      /\ UNCHANGED <<links, hook, filters, emitted>>
  BY DEF RunHelper
<1>5. QED
  BY <1>2, <1>3, <1>4 DEF HelperInv, HelperTypeOK, Running, Setup

LEMMA SignalTypes == HelperInv /\ (Terminate \/ Kill) => HelperInv'
<1> SUFFICES ASSUME HelperInv, Terminate \/ Kill PROVE HelperInv'
  OBVIOUS
<1>1. CASE Kill
  BY <1>1, EndTypes DEF Kill, HelperInv, HelperTypeOK
<1>2. CASE Terminate /\ EndHelper("killed") /\ UNCHANGED stop
  BY <1>2, EndTypes DEF Terminate, HelperInv, HelperTypeOK
<1>3. CASE Terminate /\ ~(EndHelper("killed") /\ UNCHANGED stop)
  <2>1. /\ helper \in Running /\ stop' = TRUE
        /\ helper' \in IF helper = "wait" THEN {"wait", "teardown"} ELSE {helper}
        /\ UNCHANGED <<status, setupVars, kernelVars, pipe, readEnd>>
    BY <1>3 DEF Terminate, setupVars, kernelVars
  <2>2. helper' \in Running /\ (helper' = "print" => helper = "print")
    BY <2>1 DEF Running, Setup, Polling
  <2>3. QED
    BY <2>1, <2>2, MoveTypes DEF HelperInv, HelperTypeOK
<1>4. QED
  BY <1>1, <1>2, <1>3

LEMMA AttachTypes ==
  ASSUME HelperInv, AttachProgram
  PROVE  HelperInv'
<1> DEFINE p == Programs[program]
<1>1. /\ helper = "attach" /\ program <= Len(Programs)
      /\ UNCHANGED <<stop, runs, emitted, accepted, pipe, readEnd>>
  BY DEF AttachProgram
<1>2. Len(Programs) \in Nat /\ program \in 1 .. Len(Programs) + 1 /\ links \in 0..Len(Programs)
        /\ links < program
  BY HelperAssumption, LenProperties DEF HelperAssumption, HelperInv, HelperTypeOK
<1>2a. hook \in BOOLEAN /\ runs \in 0..MaxRuns /\ filters \in [Directions -> 0..MaxRuns]
  BY DEF HelperInv, HelperTypeOK
<1>3. /\ \/ (Attached(links) \/ Attached(links + 1))
            /\ (filters' = filters \/ filters' = [filters EXCEPT ![p] = runs])
         \/ \E error \in {"EEXIST", "error"} : AttachFails(error)
      /\ hook' \in BOOLEAN
  BY <1>2a DEF AttachProgram, AttachFilter, HookTolerated, CreateHook, TcAttach
<1>3a. filters' \in [Directions -> 0..MaxRuns]
  BY <1>2a, <1>3 DEF AttachFails
<1> HIDE DEF p
<1>4. ASSUME NEW error \in {"EEXIST", "error"}, AttachFails(error)
      PROVE  HelperInv'
  BY <1>1, <1>3, <1>3a, <1>4, EndTypes DEF AttachFails, HelperInv, HelperTypeOK
<1>5. ASSUME NEW l \in {links, links + 1}, Attached(l)
      PROVE  HelperInv'
  <2>1. links' = l /\ program' = program + 1
        /\ UNCHANGED <<helper, status, ring>>
    BY <1>5 DEF Attached
  <2>2. program' \in 1 .. Len(Programs) + 1 /\ links' \in 0..Len(Programs) /\ links' < program'
    BY <1>1, <1>2, <2>1
  <2>3. QED
    BY <1>1, <1>3, <1>3a, <2>1, <2>2 DEF HelperInv, HelperTypeOK
<1>6. QED
  BY <1>3, <1>4, <1>5

\* handle_event and printf: an event leaves the ring, one enters the pipe.
LEMMA PrintTypes ==
  ASSUME HelperInv, HandleEvent \/ PrintEvent
  PROVE  HelperInv'
<1>1. ring \in Seq(Event) /\ Len(ring) <= RingMax /\ pipe \in Seq(Event)
  BY DEF HelperInv, HelperTypeOK
<1>2. ring # <<>> => /\ Tail(ring) \in Seq(Event) /\ Len(Tail(ring)) <= RingMax
                     /\ Head(ring) \in Event
  <2>1. RingMax \in Nat
    BY HelperAssumption DEF HelperAssumption
  <2>2. QED
    BY <1>1, <2>1, HeadTailProperties
<1>3. CASE HandleEvent
  <2>1. /\ helper' \in Running
        /\ UNCHANGED <<status, stop, setupVars, emitted, accepted, pipe, readEnd>>
        /\ \/ UNCHANGED ring
           \/ ring # <<>> /\ ring' = Tail(ring) /\ helper' = "handle"
        /\ helper' = "print" => ring' # <<>>
    BY <1>3 DEF HandleEvent, Running, Polling
  <2>2. QED
    BY <1>2, <2>1 DEF HelperInv, HelperTypeOK, setupVars, Running, Setup, Polling
<1>4. CASE PrintEvent /\ EndHelper("killed")
  BY <1>4, EndTypes DEF PrintEvent, PipeBreaks, HelperInv, HelperTypeOK, EndHelper
<1>5. CASE PrintEvent /\ ~EndHelper("killed")
  <2>1. /\ readEnd /\ Len(pipe) < PipeMax
        /\ pipe' = Append(pipe, Head(ring)) /\ ring' = Tail(ring) /\ helper' = "handle"
        /\ UNCHANGED <<status, stop, setupVars, emitted, accepted, readEnd>>
        /\ helper = "print"
    BY <1>5 DEF PrintEvent, PipeBreaks, PipeHasRoom, setupVars
  <2>2. ring # <<>>
    BY <2>1 DEF HelperInv
  <2>3. pipe' \in Seq(Event) /\ Len(pipe') <= PipeMax
    <3>1. PipeMax \in Nat
      BY HelperAssumption DEF HelperAssumption
    <3>2. QED
      BY <1>1, <1>2, <2>1, <2>2, <3>1, AppendProperties
  <2>4. QED
    BY <1>2, <2>1, <2>2, <2>3 DEF HelperInv, HelperTypeOK, setupVars, Running, Polling
<1>6. QED
  BY <1>3, <1>4, <1>5

LEMMA EmitTypes == HelperInv /\ Emit => HelperInv'
<1> SUFFICES ASSUME HelperInv, Emit PROVE HelperInv'
  OBVIOUS
<1>1. PICK kind \in Kinds :
        LET event == [n |-> emitted + 1, kind |-> kind]
        IN  IF Len(ring) < RingMax
            THEN ring' = Append(ring, event) /\ accepted' = Append(accepted, event)
            ELSE UNCHANGED <<ring, accepted>>
  BY DEF Emit
<1> DEFINE event == [n |-> emitted + 1, kind |-> kind]
<1>2. /\ emitted < MaxEvents /\ emitted' = emitted + 1
      /\ UNCHANGED <<helper, status, stop, setupVars, pipe, readEnd>>
  BY DEF Emit
<1>3. MaxEvents \in Nat /\ RingMax \in Nat /\ kind \in AllKinds
  BY HelperAssumption DEF HelperAssumption
<1>4. emitted \in 0..MaxEvents /\ ring \in Seq(Event) /\ accepted \in Seq(Event)
        /\ Len(ring) <= RingMax
  BY DEF HelperInv, HelperTypeOK
<1>5. emitted' \in 0..MaxEvents /\ event \in Event
  BY <1>2, <1>3, <1>4 DEF Event
<1>6. \/ Len(ring) < RingMax /\ ring' = Append(ring, event) /\ accepted' = Append(accepted, event)
      \/ UNCHANGED <<ring, accepted>>
  BY <1>1
<1> HIDE DEF event
<1>7. /\ ring' \in Seq(Event) /\ Len(ring') <= RingMax /\ accepted' \in Seq(Event)
      /\ ring # <<>> => ring' # <<>>
  <2>1. CASE UNCHANGED <<ring, accepted>>
    BY <1>4, <2>1
  <2>2. CASE /\ Len(ring) < RingMax
             /\ ring' = Append(ring, event) /\ accepted' = Append(accepted, event)
    <3>1. /\ Append(ring, event) \in Seq(Event) /\ Append(accepted, event) \in Seq(Event)
          /\ Len(Append(ring, event)) = Len(ring) + 1
          /\ Append(ring, event) # <<>>
      BY <1>4, <1>5, AppendProperties
    <3>2. Len(ring) \in Nat
      BY <1>4, LenProperties
    <3>3. Len(ring) + 1 <= RingMax
      BY <1>3, <2>2, <3>2
    <3>4. QED
      BY <2>2, <3>1, <3>3
  <2>3. QED
    BY <1>6, <2>1, <2>2
<1>8. QED
  BY <1>2, <1>5, <1>7 DEF HelperInv, HelperTypeOK, setupVars

\* Every step of the helper and of the kernel keeps the types.
LEMMA HelperStepTypes ==
  ASSUME HelperInv, HelperStep \/ Emit
  PROVE  HelperInv'
<1>1. ASSUME NEW pc, NEW next \in {"load", "attach", "check"}, SetUp(pc, next)
      PROVE  HelperInv'
  <2>1. CASE EndHelper("error")
    BY <1>1, <2>1, EndTypes DEF SetUp, HelperInv, HelperTypeOK
  <2>2. CASE helper' = next /\ UNCHANGED <<status, links, ring>>
    <3>1. helper' \in Running /\ helper' # "print"
      BY <2>2 DEF Running, Setup, Polling
    <3>2. QED
      BY <1>1, <2>2, <3>1 DEF SetUp, HelperInv, HelperTypeOK, Running, Setup, Polling
  <2>3. QED
    BY <1>1, <2>1, <2>2 DEF SetUp
<1>2. CASE AttachDone \/ CheckStop \/ Poll
  <2>1. /\ helper' \in {"map", "teardown", "wait", "check", "handle"}
        /\ UNCHANGED <<status, stop, setupVars, kernelVars, pipe, readEnd>>
    BY <1>2 DEF AttachDone, CheckStop, Poll, PollTimesOut
  <2>2. helper' \in Running /\ helper' # "print"
    BY <2>1 DEF Running, Setup, Polling
  <2>3. QED
    BY <2>1, <2>2, MoveTypes DEF HelperInv, HelperTypeOK
<1>3. CASE Teardown
  <2>1. filters' \in [Directions -> 0..MaxRuns]
    BY <1>3, HelperAssumption DEF Teardown, HelperInv, HelperTypeOK, HelperAssumption
  <2>2. QED
    BY <1>3, <2>1, EndTypes DEF Teardown, HelperInv, HelperTypeOK
<1>4. QED
  BY <1>1, <1>2, <1>3, AttachTypes, PrintTypes, EmitTypes DEF HelperStep

\* The reader takes what lines it likes, or lets go of the pipe.
LEMMA ReaderTypes ==
  ASSUME HelperInv, readEnd' \in BOOLEAN,
         pipe' = pipe \/ (\E k \in 1..Len(pipe) : pipe' = SubSeq(pipe, k + 1, Len(pipe))),
         UNCHANGED <<helper, status, stop, setupVars, kernelVars>>
  PROVE  HelperInv'
<1>1. PipeMax \in Nat /\ pipe \in Seq(Event) /\ Len(pipe) <= PipeMax
  BY HelperAssumption DEF HelperAssumption, HelperInv, HelperTypeOK
<1>2. ASSUME NEW k \in 1..Len(pipe)
      PROVE  /\ SubSeq(pipe, k + 1, Len(pipe)) \in Seq(Event)
             /\ Len(SubSeq(pipe, k + 1, Len(pipe))) <= PipeMax
  <2>1. Len(pipe) \in Nat
    BY <1>1, LenProperties
  <2>2. k + 1 \in 1 .. Len(pipe) + 1 /\ Len(pipe) \in 0..Len(pipe)
    BY <2>1
  <2>3. /\ SubSeq(pipe, k + 1, Len(pipe)) \in Seq(Event)
        /\ Len(SubSeq(pipe, k + 1, Len(pipe))) =
             IF k + 1 <= Len(pipe) THEN Len(pipe) - (k + 1) + 1 ELSE 0
    BY <1>1, <2>2, SubSeqProperties
  <2>4. QED
    BY <1>1, <2>1, <2>3
<1>2a. pipe' \in Seq(Event) /\ Len(pipe') <= PipeMax
  BY <1>1, <1>2
<1>3. QED
  BY <1>2a DEF HelperInv, HelperTypeOK, setupVars, kernelVars

LEMMA HelperInvStep == HelperInv /\ [HelperNext]_helperVars => HelperInv'
<1> SUFFICES ASSUME HelperInv, [HelperNext]_helperVars PROVE HelperInv'
  OBVIOUS
<1>1. CASE ReadLines
  BY <1>1, ReaderTypes DEF ReadLines, HelperInv, HelperTypeOK
<1>2. CASE CloseReadEnd
  BY <1>2, ReaderTypes DEF CloseReadEnd
<1>3. CASE HelperFinished \/ UNCHANGED helperVars
  BY <1>3, UnmovedTypes DEF HelperFinished
<1>4. QED
  BY <1>1, <1>2, <1>3, RunTypes, SignalTypes, HelperStepTypes DEF HelperNext

\* Types of the helper with any program at the other end of its pipe; ring
\* and pipe keep within their bounds: the property HelperTypeOK.
THEOREM HelperTypeCorrect == HelperSpec => []HelperTypeOK
<1>1. HelperInv => HelperTypeOK
  BY DEF HelperInv
<1>2. QED
  BY <1>1, HelperTypesStart, HelperInvStep, PTL DEF HelperSpec

-----------------------------------------------------------------------------
(* Starting again *)

\* A run has its own filter for every program that it has passed, and has
\* passed all of them once it looks for the map.
OwnFilters ==
  Interface /\ helper \in Running =>
    \A i \in 1 .. program - 1 : Programs[i] \in Directions => filters[Programs[i]] = runs

PassedAll == helper \in {"map", "teardown"} \cup Polling => program = Len(Programs) + 1

FilterInv == status # "EEXIST" /\ OwnFilters /\ PassedAll

LEMMA FiltersStart == HelperInit => FilterInv
BY DEF HelperInit, FilterInv, OwnFilters, PassedAll, Running, Setup, Polling

\* Steps that attach nothing, and the end of a run.
LEMMA FiltersKept ==
  ASSUME FilterInv, status' # "EEXIST",
         \/ helper' = "ended"
         \/ /\ helper \in Running /\ UNCHANGED <<runs, program, filters>>
            /\ helper' \in {"map", "teardown"} \cup Polling =>
                 helper \in {"map", "teardown"} \cup Polling \/ program = Len(Programs) + 1
         \/ UNCHANGED <<helper, runs, program, filters>>
  PROVE  FilterInv'
<1>1. helper' = "ended" => helper' \notin Running /\ helper' \notin {"map", "teardown"} \cup Polling
  BY DEF Running, Setup, Polling
<1>2. OwnFilters'
  BY <1>1 DEF FilterInv, OwnFilters
<1>3. PassedAll'
  BY <1>1 DEF FilterInv, PassedAll
<1>4. QED
  BY <1>2, <1>3 DEF FilterInv

LEMMA FiltersAttach ==
  ASSUME HelperInv, FilterInv, AttachProgram
  PROVE  FilterInv'
<1> DEFINE p == Programs[program]
<1>1. helper = "attach" /\ program <= Len(Programs) /\ program \in 1 .. Len(Programs) + 1
      /\ runs' = runs
  BY DEF AttachProgram, HelperInv, HelperTypeOK
<1>2. Len(Programs) \in Nat
  BY HelperAssumption, LenProperties DEF HelperAssumption
<1>3. HookTolerated(CreateHook) /\ \A d \in Directions : TcAttach(d) = "ok"
  BY DEF HookTolerated, CreateHook, TcAttach, Replace
<1>4. \/ /\ p \notin Directions \/ ~Interface
         /\ filters' = filters /\ (Attached(links) \/ Attached(links + 1))
      \/ /\ p \in Directions /\ Interface
         /\ filters' = [filters EXCEPT ![p] = runs] /\ Attached(links)
      \/ AttachFails("error")
  BY <1>3 DEF AttachProgram, AttachFilter, Directions
<1>5. CASE AttachFails("error")
  BY <1>5, FiltersKept DEF AttachFails, EndHelper
<1>6. CASE ~AttachFails("error")
  <2>1. helper' = helper /\ status' = status /\ program' = program + 1
    BY <1>4, <1>6 DEF Attached
  <2>2. Interface => \A i \in 1 .. program - 1 :
                       Programs[i] \in Directions => filters[Programs[i]] = runs
    BY <1>1 DEF FilterInv, OwnFilters, Running, Setup
  <2>3. filters \in [Directions -> 0..MaxRuns]
    BY DEF HelperInv, HelperTypeOK
  <2>4. ASSUME Interface, NEW i \in 1 .. program' - 1, Programs[i] \in Directions
        PROVE  filters'[Programs[i]] = runs
    <3>1. i \in 1 .. program - 1 \/ i = program
      BY <1>1, <2>1
    <3>2. CASE i \in 1 .. program - 1
      BY <1>4, <1>6, <2>2, <2>3, <2>4, <3>2
    <3>3. CASE i = program
      BY <1>4, <1>6, <2>3, <2>4, <3>3
    <3>4. QED
      BY <3>1, <3>2, <3>3
  <2>5. OwnFilters'
    BY <1>1, <2>4 DEF OwnFilters
  <2>6. PassedAll'
    BY <1>1, <2>1 DEF PassedAll, Polling
  <2>7. QED
    BY <2>1, <2>5, <2>6 DEF FilterInv
<1>7. QED
  BY <1>5, <1>6

LEMMA LeftoversStep ==
  HelperInv /\ FilterInv /\ [HelperNext]_helperVars => FilterInv'
<1> SUFFICES ASSUME HelperInv, FilterInv, [HelperNext]_helperVars PROVE FilterInv'
  OBVIOUS
<1>1. ASSUME NEW pc, NEW next, SetUp(pc, next),
             <<pc, next>> \in {<<"init", "load">>, <<"load", "attach">>, <<"map", "check">>}
      PROVE  FilterInv'
  BY <1>1, FiltersKept DEF SetUp, EndHelper, FilterInv, Running, Setup, Polling
<1>2. CASE AttachDone
  BY <1>2, FiltersKept DEF AttachDone, FilterInv, setupVars, Running, Setup
<1>3. CASE CheckStop \/ Poll \/ HandleEvent \/ PrintEvent \/ Teardown
  <2>1. helper \in Running /\ helper \in {"map", "teardown"} \cup Polling
    BY <1>3 DEF CheckStop, Poll, HandleEvent, PrintEvent, Teardown, Running, Polling
  <2>2. status' # "EEXIST"
    BY <1>3 DEF CheckStop, Poll, HandleEvent, PrintEvent, PipeBreaks, Teardown,
                EndHelper, FilterInv
  <2>3. helper' = "ended" \/ UNCHANGED <<runs, program, filters>>
    BY <1>3 DEF CheckStop, Poll, HandleEvent, PrintEvent, Teardown, EndHelper, setupVars
  <2>4. QED
    BY <2>1, <2>2, <2>3, FiltersKept
<1>4. CASE RunHelper
  BY <1>4 DEF RunHelper, FilterInv, OwnFilters, PassedAll, Polling
<1>5. CASE Kill
  BY <1>5, FiltersKept DEF Kill, EndHelper
<1>6. CASE Terminate
  <2>1. status' # "EEXIST"
    BY <1>6 DEF Terminate, EndHelper, FilterInv
  <2>2. \/ helper' = "ended"
        \/ helper \in Running /\ UNCHANGED <<runs, program, filters>>
           /\ (helper' = helper \/ helper = "wait")
    BY <1>6 DEF Terminate, EndHelper
  <2>3. QED
    BY <2>1, <2>2, FiltersKept DEF Polling
<1>7. CASE Emit \/ ReadLines \/ CloseReadEnd \/ HelperFinished \/ UNCHANGED helperVars
  BY <1>7, FiltersKept DEF Emit, ReadLines, CloseReadEnd, HelperFinished, helperVars,
                           setupVars, FilterInv
<1>8. QED
  BY <1>1, <1>2, <1>3, <1>4, <1>5, <1>6, <1>7, FiltersAttach DEF HelperNext, HelperStep

LEMMA OwnFiltersEnough == HelperInv /\ FilterInv => LeftoversHarmless
<1> SUFFICES ASSUME HelperInv, FilterInv, Interface,
                    helper \in {"map", "teardown"} \cup Polling,
                    NEW i \in DOMAIN Programs, Programs[i] \in Directions
             PROVE  filters[Programs[i]] = runs
  BY DEF LeftoversHarmless, FilterInv
<1>1. Programs \in Seq(ProgramKinds) /\ Len(Programs) \in Nat
  BY HelperAssumption, LenProperties DEF HelperAssumption
<1>2. i \in 1 .. program - 1
  BY <1>1 DEF FilterInv, PassedAll
<1>3. QED
  BY <1>2 DEF FilterInv, OwnFilters, Running, Setup

\* Whatever hook and filters earlier runs have left behind, no run fails on
\* them, and the filters of a run that polls are its own: the property
\* LeftoversHarmless, under every fault and for every number of runs.
THEOREM LeftoversNeverMatter == HelperSpec => []LeftoversHarmless
<1>1. QED
  BY FiltersStart, LeftoversStep, OwnFiltersEnough, HelperTypesStart, HelperInvStep, PTL
     DEF HelperSpec

-----------------------------------------------------------------------------
(* Getting to the end *)

\* The terms of the measure are natural numbers.
Measured ==
  /\ Place \in Nat /\ Len(ring) \in Nat /\ emitted \in 0..MaxEvents
  /\ helper \in Running => Place > 0

LEMMA PlaceTypes == HelperInv => Measured
<1> SUFFICES ASSUME HelperInv PROVE Measured
  OBVIOUS
<1>1. Len(Programs) \in Nat /\ emitted \in 0..MaxEvents
        /\ program \in 1 .. Len(Programs) + 1 /\ ring \in Seq(Event)
  BY HelperAssumption, LenProperties DEF HelperAssumption, HelperInv, HelperTypeOK
<1>2. Len(ring) \in Nat
  BY <1>1, LenProperties
<1>3. Place \in Nat /\ (helper \in Running => Place > 0)
  BY <1>1 DEF Place, Running, Setup, Polling
<1>4. QED
  BY <1>1, <1>2, <1>3 DEF Measured

\* Going on in the run, a call of handle_event, an event that comes in (and
\* may be dropped), the end.
LEMMA SumGetsSmaller ==
  ASSUME NEW m \in Nat, NEW a \in Nat, NEW b \in Nat, NEW e \in 0..m,
         NEW aa \in Nat, NEW bb \in Nat, NEW ee \in 0..m,
         \/ aa < a /\ bb = b /\ ee = e
         \/ aa <= a + 1 /\ bb = b - 1 /\ ee = e
         \/ aa = a /\ bb <= b + 1 /\ ee = e + 1
         \/ aa < a /\ bb = 0 /\ ee = e
  PROVE  aa + 2 * bb + 3 * (m - ee) \in 0 .. a + 2 * b + 3 * (m - e) - 1
OBVIOUS

LEMMA GetsNearer ==
  ASSUME HelperInv, HelperInv',
         \/ Place' < Place /\ Len(ring') = Len(ring) /\ emitted' = emitted
         \/ Place' <= Place + 1 /\ Len(ring') = Len(ring) - 1 /\ emitted' = emitted
         \/ Place' = Place /\ Len(ring') <= Len(ring) + 1 /\ emitted' = emitted + 1
         \/ helper \in Running /\ helper' = "ended" /\ ring' = <<>> /\ emitted' = emitted
  PROVE  StepsLeft' \in 0 .. StepsLeft - 1
<1>1. Measured /\ Measured'
  BY PlaceTypes, PTL
<1>2. /\ Place \in Nat /\ Len(ring) \in Nat /\ emitted \in 0..MaxEvents
      /\ Place' \in Nat /\ Len(ring') \in Nat /\ emitted' \in 0..MaxEvents
      /\ MaxEvents \in Nat
  BY <1>1, HelperAssumption DEF Measured, HelperAssumption
<1>3. helper \in Running /\ helper' = "ended" /\ ring' = <<>> =>
        Place' < Place /\ Len(ring') = 0
  <2>1. helper' = "ended" => Place' = 0
    BY DEF Place
  <2>2. helper \in Running => Place > 0
    BY <1>1 DEF Measured
  <2>3. QED
    BY <2>1, <2>2
<1>4. QED
  BY <1>2, <1>3, SumGetsSmaller DEF StepsLeft

LEMMA StepsRunOut ==
  ASSUME HelperInv, HelperInv', HelperStep \/ Emit, helper = "check" => stop
  PROVE  StepsLeft' \in 0 .. StepsLeft - 1
<1>1. Len(Programs) \in Nat /\ program \in 1 .. Len(Programs) + 1 /\ ring \in Seq(Event)
  BY HelperAssumption, LenProperties DEF HelperAssumption, HelperInv, HelperTypeOK
<1>2. ring # <<>> => Len(Tail(ring)) = Len(ring) - 1
  BY <1>1, HeadTailProperties
<1>3. ASSUME NEW pc \in Running, NEW how, helper = pc, EndHelper(how), emitted' = emitted
      PROVE  StepsLeft' \in 0 .. StepsLeft - 1
  BY <1>3, GetsNearer DEF EndHelper
<1>4. ASSUME NEW pc, NEW next, SetUp(pc, next),
             <<pc, next>> \in {<<"init", "load">>, <<"load", "attach">>, <<"map", "check">>}
      PROVE  StepsLeft' \in 0 .. StepsLeft - 1
  <2>1. helper = pc /\ pc \in Running /\ UNCHANGED <<program, emitted>>
    BY <1>4 DEF SetUp, Running, Setup
  <2>2. CASE EndHelper("error")
    BY <2>1, <2>2, <1>3
  <2>3. CASE helper' = next /\ UNCHANGED ring
    <3>1. Place' < Place
      BY <1>1, <1>4, <2>1, <2>3 DEF Place
    <3>2. QED
      BY <2>1, <2>3, <3>1, GetsNearer
  <2>4. QED
    BY <1>4, <2>2, <2>3 DEF SetUp
<1>5. CASE AttachProgram
  <2>1. CASE helper' = "ended"
    <3>1. \E error : EndHelper(error)
      BY <1>5, <2>1 DEF AttachProgram, AttachFails, AttachFilter, Attached
    <3>2. QED
      BY <1>5, <3>1, <1>3 DEF AttachProgram, Running, Setup
  <2>2. CASE helper' # "ended"
    <3>1. /\ helper = "attach" /\ helper' = "attach" /\ program <= Len(Programs)
          /\ program' = program + 1 /\ UNCHANGED <<ring, emitted>>
      BY <1>5, <2>2 DEF AttachProgram, AttachFails, EndHelper, AttachFilter, Attached
    <3>2. QED
      BY <1>1, <3>1, GetsNearer DEF Place
  <2>3. QED
    BY <2>1, <2>2
<1>6. CASE AttachDone
  BY <1>1, <1>6, GetsNearer DEF AttachDone, Place, kernelVars
<1>7. CASE CheckStop \/ Poll
  BY <1>7, GetsNearer DEF CheckStop, Poll, PollTimesOut, Place, kernelVars
<1>8. CASE HandleEvent
  BY <1>2, <1>8, GetsNearer DEF HandleEvent, Place
<1>9. CASE PrintEvent
  <2>1. CASE EndHelper("killed")
    BY <1>9, <2>1, <1>3 DEF PrintEvent, Running, Polling
  <2>2. CASE ~EndHelper("killed")
    <3>1. helper = "print" /\ ring' = Tail(ring) /\ helper' = "handle" /\ emitted' = emitted
      BY <1>9, <2>2 DEF PrintEvent, PipeBreaks
    <3>2. ring # <<>>
      BY <3>1 DEF HelperInv
    <3>3. QED
      BY <1>2, <3>1, <3>2, GetsNearer DEF Place
  <2>3. QED
    BY <2>1, <2>2
<1>10. CASE Teardown
  BY <1>10, <1>3 DEF Teardown, Running
<1>11. CASE Emit
  <2>1. emitted' = emitted + 1 /\ UNCHANGED <<helper, setupVars>>
    BY <1>11 DEF Emit
  <2>2. Place' = Place
    BY <2>1 DEF Place, setupVars
  <2>3. Len(ring') <= Len(ring) + 1
    <3>1. PICK event : ring' = Append(ring, event) \/ ring' = ring
      BY <1>11 DEF Emit
    <3>2. Len(Append(ring, event)) = Len(ring) + 1 /\ Len(ring) \in Nat
      BY <1>1, LenProperties
    <3>3. QED
      BY <3>1, <3>2
  <2>4. QED
    BY <2>1, <2>2, <2>3, GetsNearer
<1>12. QED
  BY <1>4, <1>5, <1>6, <1>7, <1>8, <1>9, <1>10, <1>11 DEF HelperStep

\* A signalled helper takes no more steps than StepsLeft counts, however many
\* programs, events and places in the ring there are: the property
\* SignalledRunsOut.
THEOREM NoLoopOnceSignalled == HelperSpec => SignalledRunsOut
<1>1. HelperInv /\ HelperInv' /\ [HelperNext]_helperVars =>
        [(HelperStep \/ Emit) /\ (helper = "check" => stop) =>
           StepsLeft' \in 0 .. StepsLeft - 1]_helperVars
  BY StepsRunOut
<1>2. QED
  BY <1>1, HelperTypesStart, HelperInvStep, PTL DEF HelperSpec, SignalledRunsOut
=============================================================================
