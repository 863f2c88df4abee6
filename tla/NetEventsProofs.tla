-------------------------- MODULE NetEventsProofs --------------------------
(***************************************************************************)
(* Proofs about the programs, the two filters and the decoder, for every   *)
(* set of processes, addresses and ports and every backend.                *)
(***************************************************************************)
EXTENDS NetEvents, FiniteSetTheorems, TLAPS

\* What is printed has been fired and has passed the filter of the helper,
\* what is decoded has passed that of the reader.
NetInv ==
  /\ operation \in Operations
  /\ fired \subseteq Fires(operation)
  /\ \A e \in printed : e \in fired /\ Prints(e)
  /\ \A d \in decoded : \E e \in printed : Takes(e) /\ d = Decode(e)

LEMMA NetStart == Init => NetInv
BY DEF Init, NetInv

LEMMA NetStep == NetInv /\ [Next]_vars => NetInv'
<1> SUFFICES ASSUME NetInv, [Next]_vars PROVE NetInv'
  OBVIOUS
<1>a. CASE UNCHANGED operation /\ UNCHANGED skipPid
  <2>1. CASE Fire
    <3>1. printed = {}
      BY <2>1 DEF Fire, NetInv
    <3>2. QED
      BY <1>a, <2>1, <3>1 DEF Fire, NetInv
  <2>2. CASE HandleEvent
    <3>1. PICK e \in fired \ printed : Prints(e) /\ printed' = printed \cup {e}
      BY <2>2 DEF HandleEvent
    <3>2. \A x : Prints(x)' <=> Prints(x)
      BY <1>a DEF Prints, OfAgent, AllZero, OfTestServer
    <3>3. UNCHANGED <<operation, fired, decoded>>
      BY <2>2 DEF HandleEvent
    <3>4. QED
      BY <3>1, <3>2, <3>3 DEF NetInv
  <2>3. CASE ReadLine
    <3>1. PICK e \in printed : Takes(e) /\ decoded' = decoded \cup {Decode(e)}
      BY <2>3 DEF ReadLine
    <3>2. UNCHANGED <<skipPid, operation, fired, printed>>
      BY <2>3 DEF ReadLine
    <3>3. \A x : Prints(x)' <=> Prints(x)
      BY <1>a DEF Prints, OfAgent, AllZero, OfTestServer
    <3>4. QED
      BY <3>1, <3>2, <3>3 DEF NetInv
  <2>4. CASE UNCHANGED vars
    BY <2>4 DEF vars, NetInv, Prints, OfAgent, AllZero, OfTestServer
  <2>5. QED
    BY <2>1, <2>2, <2>3, <2>4 DEF Next
<1>1. QED
  BY <1>a DEF Next, Fire, HandleEvent, ReadLine, vars

\* A program reports the process that runs it.
LEMMA FiredByProcess ==
  ASSUME NEW o \in Operations, NEW e \in Fires(o)
  PROVE  e.pid = o.process.pid /\ e.comm = o.process.comm
BY DEF Fires, ConnectExit, SockState, AcceptReturn, NetEvent

\* A decoded event names the process of the event it was made from.
LEMMA DecodedFields ==
  ASSUME NEW e
  PROVE  /\ Decode(e).pid = e.pid
         /\ Decode(e).event_type = map_event_type(e.event_type)
         /\ Decode(e).direction = map_direction(e.direction)
         /\ Decode(e).remote_ip = OrNone(e.remote_ip)
         /\ Decode(e).remote_port = OrNone(e.remote_port)
BY DEF Decode

-----------------------------------------------------------------------------
(* The agent's own traffic *)

LEMMA OwnSilent == NetInv => OwnTrafficUnreported
<1> SUFFICES ASSUME NetInv PROVE OwnTrafficUnreported
  OBVIOUS
<1>1. ASSUME skipPid = AgentPid, operation.process.pid = AgentPid
      PROVE  printed = {}
  <2> SUFFICES ASSUME NEW e \in printed PROVE FALSE
    OBVIOUS
  <2>1. e \in Fires(operation) /\ ~OfAgent(e)
    BY DEF NetInv, Prints
  <2>2. e.pid = AgentPid
    BY <1>1, <2>1, FiredByProcess DEF NetInv
  <2>3. QED
    BY <1>1, <2>1, <2>2, NetEventsAssumption DEF OfAgent, NetEventsAssumption
<1>2. ASSUME ServerAccepts(operation), Server.comm \in {"python", "uvicorn"},
             Server.port = 8000
      PROVE  printed = {}
  <2> SUFFICES ASSUME NEW e \in printed PROVE FALSE
    OBVIOUS
  <2>1. e \in Fires(operation) /\ ~OfTestServer(e)
    BY DEF NetInv, Prints
  <2>2. e.comm = Server.comm
    BY <1>2, <2>1, FiredByProcess DEF NetInv, ServerAccepts
  <2>3. e.local_port = 8000
    BY <1>2, <2>1 DEF ServerAccepts, Fires, AcceptReturn, NetEvent
  <2>4. QED
    BY <1>2, <2>1, <2>2, <2>3 DEF OfTestServer
<1>3. printed = {} => decoded = {}
  BY DEF NetInv
<1>4. QED
  BY <1>1, <1>2, <1>3 DEF OwnTrafficUnreported

\* What the agent does is reported in no state, whatever it connects to, and
\* nothing the test server does for it: the property OwnTrafficUnreported.
THEOREM OwnTrafficSilent == Spec => []OwnTrafficUnreported
<1>1. Spec => []NetInv
  BY NetStart, NetStep, PTL DEF Spec
<1>2. QED
  BY <1>1, OwnSilent, PTL

-----------------------------------------------------------------------------
(* One report of an operation *)

\* The one event of an operation that says where the connection goes.
Telling(o) ==
  IF o.call = "connect"
  THEN NetEvent(NET_EVENT_CONNECT, o.process, NET_DIR_OUTBOUND,
                o.local_ip, o.remote_ip, o.local_port, o.remote_port)
  ELSE NetEvent(NET_EVENT_ACCEPT, o.process, NET_DIR_INBOUND,
                o.local_ip, o.remote_ip, o.local_port, o.remote_port)

\* The helper prints no other one: the filter for zeros drops the event of
\* sys_exit_connect.
LEMMA OnlyTelling ==
  ASSUME NEW o \in Operations, NEW e \in Fires(o), Prints(e)
  PROVE  e = Telling(o)
<1>1. CASE o.call = "connect"
  <2>1. e \in ConnectExit(o) => AllZero(e)
    BY DEF ConnectExit, NetEvent, AllZero
  <2>2. e \in SockState(o)
    BY <1>1, <2>1 DEF Fires, Prints
  <2>3. QED
    BY <1>1, <2>2 DEF SockState, Telling
<1>2. CASE o.call # "connect"
  BY <1>2 DEF Fires, AcceptReturn, Telling
<1>3. QED
  BY <1>1, <1>2

LEMMA OneReport == NetInv => ReportedOnce
<1> SUFFICES ASSUME NetInv PROVE ReportedOnce
  OBVIOUS
<1> DEFINE e == Telling(operation)
<1>1. \A d \in decoded : d = Decode(e) /\ Takes(e)
  BY OnlyTelling DEF NetInv
<1>2. Cardinality(decoded) <= 1
  <2>1. IsFiniteSet({Decode(e)}) /\ Cardinality({Decode(e)}) = 1
    BY FS_Singleton
  <2>2. decoded \subseteq {Decode(e)}
    BY <1>1
  <2> HIDE DEF e
  <2>3. QED
    BY <2>1, <2>2, FS_Subset
<1>3. ASSUME NEW d \in decoded
      PROVE  /\ d.pid = operation.process.pid /\ d.pid # 0
             /\ <<d.event_type, d.direction>> =
                  IF operation.call = "connect" THEN <<"NET_CONNECT", "outbound">>
                                                ELSE <<"NET_ACCEPT", "inbound">>
             /\ d.remote_ip = {operation.remote_ip}
             /\ d.remote_port = {operation.remote_port}
  <2>1. d = Decode(e) /\ Takes(e)
    BY <1>1
  <2>2. /\ e.pid = operation.process.pid
        /\ e.remote_ip = operation.remote_ip /\ e.remote_port = operation.remote_port
        /\ operation.call = "connect" => e.event_type = 1 /\ e.direction = 2
        /\ operation.call # "connect" => e.event_type = 2 /\ e.direction = 1
    BY DEF Telling, NetEvent, NET_EVENT_CONNECT, NET_EVENT_ACCEPT,
           NET_DIR_INBOUND, NET_DIR_OUTBOUND
  <2>3. operation.remote_ip # 0 /\ operation.remote_port # 0
    BY NetEventsAssumption DEF NetInv, Operations, NetEventsAssumption
  <2>4. e.pid # 0
    BY <2>1 DEF Takes
  <2> HIDE DEF e
  <2>5. /\ d.pid = e.pid /\ d.event_type = map_event_type(e.event_type)
        /\ d.direction = map_direction(e.direction)
        /\ d.remote_ip = OrNone(e.remote_ip) /\ d.remote_port = OrNone(e.remote_port)
    BY <2>1, DecodedFields
  <2>6. /\ operation.call = "connect" => d.event_type = "NET_CONNECT" /\ d.direction = "outbound"
        /\ operation.call # "connect" => d.event_type = "NET_ACCEPT" /\ d.direction = "inbound"
    BY <2>2, <2>5 DEF map_event_type, map_direction
  <2>7. d.remote_ip = {operation.remote_ip} /\ d.remote_port = {operation.remote_port}
    BY <2>2, <2>3, <2>5 DEF OrNone
  <2>8. QED
    BY <2>2, <2>4, <2>5, <2>6, <2>7
<1>4. QED
  BY <1>2, <1>3 DEF ReportedOnce

\* An operation is reported at most once, although a connect fires two
\* programs, and as what it was: the property ReportedOnce.
THEOREM EachReportedOnce == Spec => []ReportedOnce
<1>1. Spec => []NetInv
  BY NetStart, NetStep, PTL DEF Spec
<1>2. QED
  BY <1>1, OneReport, PTL

-----------------------------------------------------------------------------
(* What gets through the filters *)

\* What OthersReported promises to report.
Reportable(o) ==
  OtherConnection(o) /\ ~LooksLikeTestServer(o) /\ o.process.comm \notin Garbling

\* The fields of an operation, apart from that of its process.
LEMMA OperationFields ==
  ASSUME NEW o \in Operations
  PROVE  /\ o.local_ip \in Nat \ {0} /\ o.remote_ip \in Nat \ {0}
         /\ o.local_port \in Nat /\ o.remote_port \in Nat \ {0}
         /\ o.call \in {"connect", "accept"}
         /\ o.call = "accept" => o.protocol = "tcp"
<1>1. Addresses \subseteq Nat \ {0} /\ Ports \subseteq Nat \ {0}
  BY NetEventsAssumption DEF NetEventsAssumption
<1>2. /\ o.local_ip \in Addresses /\ o.remote_ip \in Addresses
      /\ o.local_port \in {0} \cup Ports /\ o.remote_port \in Ports
  BY DEF Operations
<1>3. o.call \in {"connect", "accept"} /\ (o.call = "accept" => o.protocol = "tcp")
  BY DEF Operations
<1>4. \A x : (x \in Addresses => x \in Nat \ {0}) /\ (x \in Ports => x \in Nat \ {0})
  BY <1>1
<1>5. o.local_port \in Nat
  <2>1. o.local_port = 0 \/ o.local_port \in Ports
    BY <1>2
  <2>2. QED
    BY <1>4, <2>1
<1>6. QED
  BY <1>2, <1>3, <1>4, <1>5

\* The two filters let the event that tells of an operation pass exactly if
\* the operation is one to be reported.
LEMMA TellingPasses ==
  ASSUME NEW o \in Operations, skipPid # 0
  PROVE  Telling(o) \in Fires(o) /\ Prints(Telling(o)) /\ Takes(Telling(o))
           <=> Reportable(o)
<1> DEFINE e == Telling(o)
<1>1. /\ e.pid = o.process.pid /\ e.comm = o.process.comm
      /\ e.local_ip = o.local_ip /\ e.remote_ip = o.remote_ip
      /\ e.local_port = o.local_port /\ e.remote_port = o.remote_port
      /\ IF o.call = "connect" THEN e.event_type = 1 /\ e.direction = 2
                               ELSE e.event_type = 2 /\ e.direction = 1
  BY DEF Telling, NetEvent, NET_EVENT_CONNECT, NET_EVENT_ACCEPT,
         NET_DIR_INBOUND, NET_DIR_OUTBOUND
<1>2. e \in Fires(o) <=>
        o.family = "inet" /\ o.protocol = "tcp" /\ (o.call = "connect" \/ o.ret = 0)
  <2>1. CASE o.call = "connect"
    <3>1. e \notin ConnectExit(o)
      <4>1. \A x \in ConnectExit(o) : x.remote_ip = 0
        BY DEF ConnectExit, NetEvent
      <4>2. QED
        BY <1>1, <4>1, OperationFields
    <3>2. e \in SockState(o) <=> o.family = "inet" /\ o.protocol = "tcp"
      BY <2>1 DEF SockState, Telling
    <3>3. QED
      BY <2>1, <3>1, <3>2 DEF Fires
  <2>2. CASE o.call # "connect"
    <3>1. e \in AcceptReturn(o) <=> o.ret = 0 /\ o.family = "inet"
      BY <2>2 DEF AcceptReturn, Telling
    <3>2. o.protocol = "tcp"
      BY <2>2, OperationFields
    <3>3. QED
      BY <2>2, <3>1, <3>2 DEF Fires
  <2>3. QED
    BY <2>1, <2>2
<1> HIDE DEF e
<1>3. Prints(e) <=> ~OfAgent(e) /\ ~LooksLikeTestServer(o)
  <2>1. ~AllZero(e)
    BY <1>1, OperationFields DEF AllZero
  <2>2. OfTestServer(e) <=> LooksLikeTestServer(o)
    BY <1>1, OperationFields DEF OfTestServer, LooksLikeTestServer
  <2>3. QED
    BY <2>1, <2>2 DEF Prints
<1>4. Takes(e) <=> o.process.comm \notin Garbling /\ o.process.pid # 0
  BY <1>1 DEF Takes
<1>5. o.process.pid # 0 => (OfAgent(e) <=> o.process.pid = skipPid)
  BY <1>1 DEF OfAgent
<1>6. QED
  BY <1>2, <1>3, <1>4, <1>5 DEF Reportable, OtherConnection, e

\* An operation has an event that gets through both filters exactly if it is
\* a connection of a process that is not skipped, not one of the test server's
\* and of no name that breaks the line: the filters' part of OthersReported,
\* and its converse.
THEOREM FiltersExact ==
  Spec => []((\E e \in Fires(operation) : Prints(e) /\ Takes(e)) <=> Reportable(operation))
<1> DEFINE Skips == skipPid # 0
           Exact == (\E e \in Fires(operation) : Prints(e) /\ Takes(e)) <=> Reportable(operation)
<1>1. Init => Skips
  BY NetEventsAssumption DEF Init, SkipOwnPid, NetEventsAssumption
<1>2. Skips /\ [Next]_vars => Skips'
  BY DEF Next, Fire, HandleEvent, ReadLine, vars
<1>3. NetInv /\ Skips => Exact
  BY OnlyTelling, TellingPasses DEF NetInv
<1>4. QED
  BY <1>1, <1>2, <1>3, NetStart, NetStep, PTL DEF Spec

\* Only such an operation is ever reported.
THEOREM OnlyOthersReported == Spec => [](decoded # {} => Reportable(operation))
<1>1. NetInv => (decoded # {} => \E e \in Fires(operation) : Prints(e) /\ Takes(e))
  BY DEF NetInv
<1>2. Spec => []NetInv
  BY NetStart, NetStep, PTL DEF Spec
<1>3. QED
  BY <1>1, <1>2, FiltersExact, PTL
=============================================================================
