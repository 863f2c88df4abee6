--------------------------- MODULE CollectorProps ---------------------------
(***************************************************************************)
(* What the kernel collector and its helper together must guarantee.       *)
(***************************************************************************)
EXTENDS KernelCollector, SequencesExt

\* The events that pass every filter and can be decoded, in their order.
Passes(event) == event.kind = "event"

Passing(s) ==
  LET upTo[i \in 0..Len(s)] ==
        IF i = 0 THEN <<>>
        ELSE IF Passes(s[i]) THEN Append(upTo[i - 1], s[i]) ELSE upTo[i - 1]
  IN  upTo[Len(s)]

\* Where they are, from on_event back to the ring.
Stream == Passing(received \o hand \o events \o chunk \o pipe \o ring)

(***************************************************************************)
(* The full ring buffer is the only place where an event is lost while the *)
(* helper runs and the reader lives, whatever else blocks or fails behind  *)
(* it, and a helper that ends takes a suffix with it.  A reader that dies  *)
(* of a line it cannot decode loses the chunk of that line and all that    *)
(* comes after; but what had been decoded before it gets to on_event, and  *)
(* nothing is ever skipped, duplicated or reordered on the way there.      *)
(***************************************************************************)
OnlyTheRingLoses ==
  /\ IsPrefix(Passing(received \o hand \o events \o chunk), Passing(accepted))
  /\ reader # "dead" =>
       IF helper = "ended" THEN IsPrefix(Stream, Passing(accepted))
                           ELSE Stream = Passing(accepted)

(***************************************************************************)
(* Once stop() has waited for its helper the helper is gone, also if it    *)
(* was blocked on a pipe nobody reads any more, and also if stop() then    *)
(* fails on a thread that was never started.                               *)
(***************************************************************************)
StopEndsHelper ==
  owned /\ main \in Joining \cup {"exited", "raised"} => helper = "ended"

(***************************************************************************)
(* An on_event that blocks for good (a full queue behind a flush thread    *)
(* that has died) never makes the kernel drop events: the ring is drained  *)
(* for as long as the reader lives.                                        *)
(***************************************************************************)
ReaderGone == stopping \/ ~Alive \/ reader = "dead" \/ signals > 0

RingDrains == ring # <<>> ~> (ring = <<>> \/ ReaderGone)

(***************************************************************************)
(* The reader thread notices that the helper is over and ends, instead of  *)
(* reading the end of the pipe for ever: also when the pipe is at its end  *)
(* before poll() reports the exit.                                         *)
(***************************************************************************)
ReaderEnds == helper = "ended" ~> (reader \notin {"top", "read"} \/ ~Alive)

\* This collector as the agent sees it.
CollectorState ==
  CASE dispatch = "none" -> "off"
    [] dispatch = "created" -> "creating"
    [] OTHER -> IF stopping THEN "stopped"
                ELSE IF stderr = "created" THEN "starting" ELSE "kernel"

Source == INSTANCE EventSource WITH
  Collectors <- {"kernel"},
  collector <- CollectorState,
  dispatch <- IF dispatch \in {"get", "put"} THEN dispatch ELSE "top"

(***************************************************************************)
(* The kernel collector is a collector as the agent's model assumes it:    *)
(* whatever its helper and its threads do, on_event is called by one       *)
(* thread, once at a time, never before start() has created all threads,   *)
(* and once more at most after stop() has set _stop.                       *)
(***************************************************************************)
ImplementsSource == Source!SourceSpec

\* An event in the pipe, and one that has got to on_event.
InPipe(n) == \E i \in DOMAIN pipe : pipe[i] = [n |-> n, kind |-> "event"]

TakenUp(n) == \E i \in DOMAIN (received \o hand) : (received \o hand)[i].n = n

(***************************************************************************)
(* A line that the helper has printed gets to on_event, also if the helper *)
(* is killed right after it: the reader's end-of-file is the pipe's, not   *)
(* the helper's.  Provided that on_event returns, and until the agent is   *)
(* told to stop.                                                           *)
(***************************************************************************)
PrintedArrives ==
  []<>(dispatch # "put") =>
    \A n \in 1..MaxEvents : InPipe(n) ~> (TakenUp(n) \/ ReaderGone)

-----------------------------------------------------------------------------
(* Statements of the documents that the code does not keep. *)

\* cli.py: --no-fail-open is to exit if the kernel collector cannot start.
NoFailOpenExits == (~FailOpen /\ status = "error") ~> ~Alive
=============================================================================
