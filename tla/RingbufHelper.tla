--------------------------- MODULE RingbufHelper ---------------------------
(***************************************************************************)
(* ringbuf_helper.c: the process that loads the BPF object, attaches its   *)
(* programs, polls the kernel's ring buffer and prints an event per line.  *)
(* The programs (collector.bpf.c) appear as what they do to the ring.      *)
(* A process that ended may be run again; what it has put on the network   *)
(* interface, the TC hook and its filters, outlives it.                    *)
(*                                                                         *)
(* An event is a number and a kind, which says how far the event gets:     *)
(* "noise" is dropped by handle_event, "misread" is a line the reader of   *)
(* the pipe discards, "undecodable" one that it fails on.                  *)
(***************************************************************************)
EXTENDS Naturals, Sequences

CONSTANTS MaxEvents,    \* bound: events emitted
          MaxRuns,      \* bound: runs of the helper
          Programs,     \* the programs of the object, in its order
          Interface,    \* EBPF_OBSERVATORY_IFACE is set
          RingMax,      \* events the ring holds (2^24 bytes in the code)
          PipeMax,      \* lines its standard output, a pipe, holds
          Kinds,        \* the kinds of events that occur
          HelperFaults  \* what may go wrong

\* "linked": attached by a link; "other": skipped; the others by a TC filter.
Directions == {"ingress", "egress"}
ProgramKinds == {"linked", "other"} \cup Directions

AllKinds == {"event", "noise", "misread", "undecodable"}

AllHelperFaults == {"setup",   \* interface, open, load, map or ring_buffer__new
                    "attach",  \* a program cannot be attached
                    "poll",    \* ring_buffer__poll fails
                    "kill"}    \* SIGKILL from outside

ASSUME HelperAssumption ==
  /\ MaxEvents \in Nat /\ MaxRuns \in Nat \ {0}
  /\ Programs \in Seq(ProgramKinds)
  /\ Interface \in BOOLEAN
  /\ RingMax \in Nat \ {0} /\ PipeMax \in Nat \ {0}
  /\ Kinds \subseteq AllKinds
  /\ HelperFaults \subseteq AllHelperFaults

Event == [n: 1..MaxEvents, kind: AllKinds]

VARIABLES helper,    \* where the process is
          status,    \* how it ended
          runs,      \* how many times it was run
          program,   \* index of the next program to attach
          links,     \* how many programs are attached by a link
          hook,      \* the interface has the TC hook, the one of both directions
          filters,   \* the run whose TC filter the interface has, 0 if none
          stop,      \* the flag the signal handler sets
          emitted,   \* how many events the programs have emitted
          ring,      \* the ring buffer
          accepted,  \* history: this run's events that found room in the ring
          pipe,      \* lines written and not yet read
          readEnd    \* somebody holds the other end of the pipe

kernelVars == <<emitted, ring, accepted>>
setupVars == <<runs, program, links, hook, filters>>
helperVars == <<helper, status, stop, setupVars, kernelVars, pipe, readEnd>>

Setup == {"init", "load", "attach", "map"}
Polling == {"check", "wait", "handle", "print"}
Running == Setup \cup Polling \cup {"teardown"}

\* Every variable has its type; ring and pipe stay within their bounds.
HelperTypeOK ==
  /\ helper \in Running \cup {"none", "ended"}
  /\ status \in {"none", "ok", "error", "EEXIST", "killed"}
  /\ runs \in 0..MaxRuns
  /\ program \in 1 .. Len(Programs) + 1
  /\ links \in 0..Len(Programs)
  /\ hook \in BOOLEAN /\ filters \in [Directions -> 0..MaxRuns]
  /\ stop \in BOOLEAN
  /\ emitted \in 0..MaxEvents
  /\ ring \in Seq(Event) /\ Len(ring) <= RingMax
  /\ accepted \in Seq(Event)
  /\ pipe \in Seq(Event) /\ Len(pipe) <= PipeMax
  /\ readEnd \in BOOLEAN

HelperInit ==
  /\ helper = "none" /\ status = "none" /\ runs = 0 /\ program = 1 /\ links = 0
  /\ hook = FALSE /\ filters = [d \in Directions |-> 0] /\ stop = FALSE
  /\ emitted = 0 /\ ring = <<>> /\ accepted = <<>> /\ pipe = <<>>
  /\ readEnd = TRUE

-----------------------------------------------------------------------------
(* Starting and ending *)

\* exec of the helper, with a pipe of its own.
RunHelper ==
  /\ helper \in {"none", "ended"} /\ runs < MaxRuns
  /\ helper' = "init" /\ status' = "none" /\ runs' = runs + 1 /\ program' = 1
  /\ stop' = FALSE /\ accepted' = <<>> /\ pipe' = <<>> /\ readEnd' = TRUE
  /\ UNCHANGED <<links, hook, filters, emitted, ring>>

\* The kernel takes back the links and the ring of a process that is over,
\* destroyed or not; it keeps the TC hook and the filters.
EndHelper(how) ==
  /\ helper' = "ended" /\ status' = how
  /\ links' = 0
  /\ ring' = <<>>

\* The default action of SIGTERM until signal() is called; from then on the
\* flag, which interrupts epoll_wait unless the signal came just before it.
Terminate ==
  /\ \/ /\ helper = "init"
        /\ EndHelper("killed")
        /\ UNCHANGED stop
     \/ /\ helper \in Running \ {"init"}
        /\ stop' = TRUE
        /\ helper' \in IF helper = "wait" THEN {"wait", "teardown"} ELSE {helper}
        /\ UNCHANGED <<status, links, ring>>
  /\ UNCHANGED <<runs, program, hook, filters, emitted, accepted, pipe, readEnd>>

Kill ==
  /\ helper \in Running
  /\ EndHelper("killed")
  /\ UNCHANGED <<stop, runs, program, hook, filters, emitted, accepted, pipe,
                 readEnd>>

-----------------------------------------------------------------------------
(* main(), up to the poll loop *)

\* Every failure returns 1 with what has been attached so far.
SetUp(pc, next) ==
  /\ helper = pc
  /\ \/ helper' = next /\ UNCHANGED <<status, links, ring>>
     \/ "setup" \in HelperFaults /\ EndHelper("error")
  /\ UNCHANGED <<stop, runs, program, hook, filters, emitted, accepted, pipe,
                 readEnd>>

Attached(l) ==
  /\ links' = l /\ program' = program + 1
  /\ UNCHANGED <<helper, status, ring>>

AttachFails(error) == EndHelper(error) /\ UNCHANGED <<program, filters>>

\* bpf_tc_hook_create: the hook is that of both directions, and nothing ever
\* removes it.
CreateHook == IF hook THEN "EEXIST" ELSE "ok"

HookTolerated(error) == error \in {"ok", "EEXIST"}

\* Mutant: the flag is not set.
NoReplace == FALSE

\* BPF_TC_F_REPLACE, under a handle of its own for each direction; without
\* the flag a filter of that handle would be in the way.
Replace == TRUE

TcAttach(p) == IF filters[p] # 0 /\ ~Replace THEN "EEXIST" ELSE "ok"

AttachFilter(p) ==
  /\ hook' = TRUE
  /\ \/ /\ HookTolerated(CreateHook) /\ TcAttach(p) = "ok"
        /\ filters' = [filters EXCEPT ![p] = runs]
        /\ Attached(links)
     \/ ~HookTolerated(CreateHook) /\ AttachFails(CreateHook)
     \/ HookTolerated(CreateHook) /\ TcAttach(p) # "ok" /\ AttachFails(TcAttach(p))

\* One turn of the loop over the programs.
AttachProgram ==
  /\ helper = "attach" /\ program <= Len(Programs)
  /\ LET p == Programs[program]
         filtered == p \in Directions /\ Interface
     IN  \/ p # "linked" /\ ~filtered /\ Attached(links) /\ UNCHANGED <<hook, filters>>
         \/ p = "linked" /\ Attached(links + 1) /\ UNCHANGED <<hook, filters>>
         \/ filtered /\ AttachFilter(p)
         \/ /\ "attach" \in HelperFaults
            /\ \/ p = "linked" /\ UNCHANGED hook
               \/ filtered /\ hook' \in {hook, TRUE}
            /\ AttachFails("error")
  /\ UNCHANGED <<stop, runs, emitted, accepted, pipe, readEnd>>

AttachDone ==
  /\ helper = "attach" /\ program = Len(Programs) + 1
  /\ helper' = "map"
  /\ UNCHANGED <<status, stop, setupVars, kernelVars, pipe, readEnd>>

-----------------------------------------------------------------------------
(* The poll loop *)

\* Mutant: the loop does not look at the flag.
CheckNothing ==
  /\ helper = "check" /\ helper' = "wait"
  /\ UNCHANGED <<status, stop, setupVars, kernelVars, pipe, readEnd>>

CheckStop ==
  /\ helper = "check"
  /\ helper' = IF stop THEN "teardown" ELSE "wait"
  /\ UNCHANGED <<status, stop, setupVars, kernelVars, pipe, readEnd>>

\* Mutant: no timeout.
PollWaits == ring # <<>> /\ helper' = "handle"

\* The timeout of one second.
PollTimesOut == ring = <<>> /\ helper' = "check"

\* ring_buffer__poll: events, the timeout, or an error, which ends the loop.
Poll ==
  /\ helper = "wait"
  /\ \/ ring # <<>> /\ helper' = "handle"
     \/ PollTimesOut
     \/ "poll" \in HelperFaults /\ helper' = "teardown"
  /\ UNCHANGED <<status, stop, setupVars, kernelVars, pipe, readEnd>>

\* handle_event, called until the ring is empty; the space of an event is
\* free only once the call has returned.
HandleEvent ==
  /\ helper = "handle"
  /\ \/ ring = <<>> /\ helper' = "check" /\ UNCHANGED ring
     \/ ring # <<>> /\ Head(ring).kind = "noise" /\ ring' = Tail(ring) /\ UNCHANGED helper
     \/ ring # <<>> /\ Head(ring).kind # "noise" /\ helper' = "print" /\ UNCHANGED ring
  /\ UNCHANGED <<status, stop, setupVars, emitted, accepted, pipe, readEnd>>

\* Mutant: the write error of a closed pipe is ignored.
WriteFails == ring' = Tail(ring) /\ helper' = "handle" /\ UNCHANGED <<status, links>>

\* SIGPIPE
PipeBreaks == EndHelper("killed")

\* Mutant: a full pipe is not waited for.
NoWait == TRUE

PipeHasRoom == Len(pipe) < PipeMax

\* printf and fflush: blocked while the pipe is full, and SIGPIPE when nobody
\* holds its other end.
PrintEvent ==
  /\ helper = "print"
  /\ \/ /\ readEnd /\ PipeHasRoom
        /\ pipe' = Append(pipe, Head(ring))
        /\ ring' = Tail(ring) /\ helper' = "handle"
        /\ UNCHANGED <<status, links>>
     \/ ~readEnd /\ PipeBreaks /\ UNCHANGED pipe
  /\ UNCHANGED <<stop, runs, program, hook, filters, emitted, accepted, readEnd>>

\* bpf_tc_detach of what this run has attached: every result is ignored, and
\* it may be an error, which leaves the filter; the hook is left anyway.
Teardown ==
  /\ helper = "teardown"
  /\ \E detached \in SUBSET {d \in Directions : filters[d] = runs} :
       filters' = [d \in Directions |-> IF d \in detached THEN 0 ELSE filters[d]]
  /\ EndHelper("ok")
  /\ UNCHANGED <<stop, runs, program, hook, emitted, accepted, pipe, readEnd>>

-----------------------------------------------------------------------------
(* The kernel *)

\* emit_event, in any linked program (the repository's object has no TC
\* program): a full ring drops the event.
Emit ==
  /\ links > 0 /\ emitted < MaxEvents
  /\ emitted' = emitted + 1
  /\ \E kind \in Kinds :
       LET event == [n |-> emitted + 1, kind |-> kind]
       IN  IF Len(ring) < RingMax
           THEN ring' = Append(ring, event) /\ accepted' = Append(accepted, event)
           ELSE UNCHANGED <<ring, accepted>>
  /\ UNCHANGED <<helper, status, stop, setupVars, pipe, readEnd>>

-----------------------------------------------------------------------------
HelperStep ==
  \/ SetUp("init", "load") \/ SetUp("load", "attach") \/ SetUp("map", "check")
  \/ AttachProgram \/ AttachDone
  \/ CheckStop \/ Poll \/ HandleEvent \/ PrintEvent \/ Teardown

(***************************************************************************)
(* The helper with any program at the other end of the pipe: one that      *)
(* reads it, signals or kills the helper, goes away, and runs it again.    *)
(***************************************************************************)
ReadLines ==
  /\ readEnd
  /\ \E k \in 1..Len(pipe) : pipe' = SubSeq(pipe, k + 1, Len(pipe))
  /\ UNCHANGED <<helper, status, stop, setupVars, kernelVars, readEnd>>

CloseReadEnd ==
  /\ readEnd
  /\ readEnd' = FALSE
  /\ UNCHANGED <<helper, status, stop, setupVars, kernelVars, pipe>>

HelperFinished == helper = "ended" /\ runs = MaxRuns /\ UNCHANGED helperVars

HelperNext ==
  \/ RunHelper \/ HelperStep \/ Emit \/ Terminate \/ Kill
  \/ ReadLines \/ CloseReadEnd \/ HelperFinished

HelperSpec == HelperInit /\ [][HelperNext]_helperVars

\* The process is scheduled; nobody has to read its output or to signal it.
HelperFairSpec == HelperSpec /\ WF_helperVars(HelperStep)

-----------------------------------------------------------------------------
\* How far a run is from its end once stop is set: the helper's place, the
\* calls of handle_event for what is in the ring, and what may still come.
Place ==
  CASE helper = "init" -> Len(Programs) + 9
    [] helper = "load" -> Len(Programs) + 8
    [] helper = "attach" -> Len(Programs) + 8 - program
    [] helper = "map" -> 6
    [] helper = "wait" -> 4
    [] helper = "handle" -> 3
    [] helper \in {"check", "print"} -> 2
    [] helper = "teardown" -> 1
    [] OTHER -> 0

StepsLeft == Place + 2 * Len(ring) + 3 * (MaxEvents - emitted)

(***************************************************************************)
(* A signalled helper gets nearer to its end with each step it takes, and  *)
(* with each event that comes in: no loop of it goes round once stop is    *)
(* set, so that SignalledHelperEnds needs nothing but the steps.  (Of a    *)
(* helper that nobody signals, the one step without progress is the next   *)
(* turn of the poll loop.)                                                 *)
(***************************************************************************)
SignalledRunsOut ==
  [][(HelperStep \/ Emit) /\ (helper = "check" => stop) =>
       StepsLeft' \in 0 .. StepsLeft - 1]_helperVars

(***************************************************************************)
(* SIGTERM or SIGINT ends the helper, also when it arrives between the     *)
(* test of stop and epoll_wait (once events stop coming in: a poll that    *)
(* always finds more does not return).  The one place where it does not is *)
(* a write to a full pipe that somebody holds and nobody reads: signal()   *)
(* has the write go on, so that collector.stop(), whose reader may have    *)
(* ended before it sends SIGTERM, has to kill() the helper.                *)
(***************************************************************************)
Blocked == helper = "print" /\ readEnd /\ ~PipeHasRoom

SignalledHelperEnds == stop ~> (helper = "ended" \/ []Blocked)

(***************************************************************************)
(* What earlier runs left on the interface, having been killed at any      *)
(* point or not being able to detach it, never keeps a later run from      *)
(* starting (the hook and the filters are found there already), and a run  *)
(* that has got to its poll loop has its own filter in every direction,    *)
(* never that of a run that is over and whose ring nobody reads.           *)
(***************************************************************************)
LeftoversHarmless ==
  /\ status # "EEXIST"
  /\ Interface /\ helper \in {"map", "teardown"} \cup Polling =>
       \A i \in DOMAIN Programs :
         Programs[i] \in Directions => filters[Programs[i]] = runs

(***************************************************************************)
(* A helper that nobody reads any more ends with the first event it would  *)
(* print.                                                                  *)
(***************************************************************************)
UnheardHelperEnds == (helper = "print" /\ ~readEnd) ~> helper = "ended"
=============================================================================
