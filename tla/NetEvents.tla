----------------------------- MODULE NetEvents -----------------------------
(***************************************************************************)
(* One network operation at a time, from the BPF programs it fires         *)
(* (collector.bpf.c) through the filter of the helper (handle_event) and   *)
(* that of the reader (_read_loop) to what decode_event_payload makes of   *)
(* it.  Ids, addresses and ports are numbers, 0 for none; the fields no    *)
(* filter looks at (timestamp, tid, uid, cgroup) are left out.             *)
(***************************************************************************)
EXTENDS Naturals, FiniteSets

CONSTANTS Processes,  \* [pid, comm] of the processes seen
          AgentPid,   \* the agent's pid, as the programs report it
          OwnPids,    \* what getpid() may tell the agent
          Garbling,   \* names with a character that breaks the JSON of a line
          Addresses, Ports,
          Server      \* [comm, address, port] of a backend on this host

None == "None"

NET_EVENT_CONNECT == 1
NET_EVENT_ACCEPT == 2
NET_DIR_INBOUND == 1
NET_DIR_OUTBOUND == 2
NET_PROTO_TCP == 1

ASSUME NetEventsAssumption ==
  /\ Processes \subseteq [pid: Nat, comm: STRING]
  /\ AgentPid \in Nat \ {0} /\ OwnPids \subseteq Nat \ {0}
  /\ Garbling \subseteq STRING
  /\ Addresses \subseteq Nat \ {0} /\ Ports \subseteq Nat \ {0}
  /\ Server \in [comm: STRING, address: Addresses, port: Ports]

VARIABLES skipPid,    \* EBPF_OBSERVATORY_SKIP_PID
          operation,  \* what the processes have just done
          fired,      \* the events its programs have emitted
          printed,    \* those the helper has printed
          decoded     \* what the reader has passed on

vars == <<skipPid, operation, fired, printed, decoded>>

-----------------------------------------------------------------------------
(* The BPF programs *)

\* fill_common_fields, with the fields each program sets.
NetEvent(type, process, direction, local_ip, remote_ip, local_port, remote_port) ==
  [event_type |-> type, pid |-> process.pid, comm |-> process.comm,
   direction |-> direction, protocol |-> NET_PROTO_TCP,
   local_ip |-> local_ip, remote_ip |-> remote_ip,
   local_port |-> local_port, remote_port |-> remote_port]

\* sys_exit_connect knows no addresses.
ConnectExit(o) ==
  IF o.ret = 0
  THEN {NetEvent(NET_EVENT_CONNECT, o.process, NET_DIR_OUTBOUND, 0, 0, 0, 0)}
  ELSE {}

\* inet_sock_set_state, of a TCP socket that enters SYN_SENT.
SockState(o) ==
  IF o.family = "inet" /\ o.protocol = "tcp"
  THEN {NetEvent(NET_EVENT_CONNECT, o.process, NET_DIR_OUTBOUND,
                 o.local_ip, o.remote_ip, o.local_port, o.remote_port)}
  ELSE {}

\* The return of inet_csk_accept, with the new socket or with none.
AcceptReturn(o) ==
  IF o.ret = 0 /\ o.family = "inet"
  THEN {NetEvent(NET_EVENT_ACCEPT, o.process, NET_DIR_INBOUND,
                 o.local_ip, o.remote_ip, o.local_port, o.remote_port)}
  ELSE {}

\* The helper does not attach the program of sys_enter_accept4.
Fires(o) == IF o.call = "connect" THEN ConnectExit(o) \cup SockState(o)
                                  ELSE AcceptReturn(o)

-----------------------------------------------------------------------------
(* The filter of the helper *)

OfAgent(e) == e.pid # 0 /\ skipPid # 0 /\ e.pid = skipPid

AllZero(e) ==
  e.local_ip = 0 /\ e.remote_ip = 0 /\ e.local_port = 0 /\ e.remote_port = 0

OfTestServer(e) ==
  /\ e.comm \in {"python", "uvicorn"}
  /\ \/ e.local_port = 8000 \/ e.remote_port = 8000
     \/ e.local_ip # 0 /\ e.remote_ip # 0 /\ e.local_ip = e.remote_ip

\* Mutants: without the test for zeros, for the test server.
PrintsZero(e) == ~OfAgent(e) /\ ~OfTestServer(e)
PrintsServer(e) == ~OfAgent(e) /\ ~AllZero(e)

Prints(e) == ~OfAgent(e) /\ ~AllZero(e) /\ ~OfTestServer(e)

-----------------------------------------------------------------------------
(* The reader *)

\* Mutant: the two directions taken for each other.
TakesSwapped(e) ==
  /\ e.comm \notin Garbling /\ e.pid # 0
  /\ e.event_type \in {1, 2} /\ e.direction = e.event_type

\* A line that is not JSON is skipped: the helper copies the name as it is.
\* The numbers are those of collector.py.
Takes(e) ==
  /\ e.comm \notin Garbling
  /\ \/ e.event_type = 1 /\ e.direction = 2
     \/ e.event_type = 2 /\ e.direction = 1
  /\ e.pid # 0

map_event_type(t) ==
  CASE t = 1 -> "NET_CONNECT" [] t = 2 -> "NET_ACCEPT" [] t = 3 -> "NET_DNS_QUERY"
    [] t = 4 -> "NET_CLOSE" [] t = 5 -> "NET_RESET" [] t = 6 -> "NET_TIMEOUT"
    [] t = 7 -> "NET_PACKET" [] OTHER -> "NET_CLOSE"

map_direction(d) == CASE d = 1 -> "inbound" [] d = 2 -> "outbound" [] OTHER -> None

map_protocol(p) == CASE p = 1 -> "tcp" [] p = 2 -> "udp" [] OTHER -> None

\* "0.0.0.0" and the port 0 become None, here the empty set.
OrNone(x) == {x} \ {0}

Decode(e) ==
  [event_type |-> map_event_type(e.event_type), pid |-> e.pid, comm |-> e.comm,
   direction |-> map_direction(e.direction), protocol |-> map_protocol(e.protocol),
   local_ip |-> OrNone(e.local_ip), remote_ip |-> OrNone(e.remote_ip),
   local_port |-> OrNone(e.local_port), remote_port |-> OrNone(e.remote_port)]

-----------------------------------------------------------------------------
(* The operations *)

\* A connect or an accept of any process.  A connect fires both of its
\* programs in the connecting process; its source port may not be bound yet,
\* and ret # 0 is a connect in progress.
Operations ==
  [call: {"connect"}, process: Processes, ret: {0, 1}, family: {"inet", "inet6"},
   protocol: {"tcp", "udp"}, local_ip: Addresses, remote_ip: Addresses,
   local_port: {0} \cup Ports, remote_port: Ports]
  \cup
  [call: {"accept"}, process: Processes, ret: {0, 1}, family: {"inet", "inet6"},
   protocol: {"tcp"}, local_ip: Addresses, remote_ip: Addresses,
   local_port: Ports, remote_port: Ports]

\* The agent uploads to the backend on its own host: its connect, and the
\* accept of the backend.
AgentConnects(o) ==
  /\ o.call = "connect" /\ o.process.pid = AgentPid
  /\ o.remote_ip = Server.address /\ o.remote_port = Server.port

ServerAccepts(o) ==
  /\ o.call = "accept" /\ o.process.comm = Server.comm /\ o.process.pid # AgentPid
  /\ o.local_ip = Server.address /\ o.local_port = Server.port

\* The helper is given what getpid() returns, the pid in the agent's own
\* namespace; the programs report pids of the initial namespace.
SkipOwnPid == skipPid \in OwnPids

Init ==
  /\ SkipOwnPid
  /\ operation \in Operations
  /\ fired = {} /\ printed = {} /\ decoded = {}

Fire ==
  /\ fired = {}
  /\ fired' = Fires(operation)
  /\ UNCHANGED <<skipPid, operation, printed, decoded>>

HandleEvent ==
  /\ \E e \in fired \ printed : Prints(e) /\ printed' = printed \cup {e}
  /\ UNCHANGED <<skipPid, operation, fired, decoded>>

ReadLine ==
  /\ \E e \in printed : Takes(e) /\ decoded' = decoded \cup {Decode(e)}
  /\ UNCHANGED <<skipPid, operation, fired, printed>>

Next == Fire \/ HandleEvent \/ ReadLine

Spec == Init /\ [][Next]_vars

\* The programs run, the helper prints and the reader reads.
FairSpec == Spec /\ WF_vars(Next)

-----------------------------------------------------------------------------
(***************************************************************************)
(* An operation is reported at most once, although a connect fires two     *)
(* programs, and as what it was.                                           *)
(***************************************************************************)
ReportedOnce ==
  /\ Cardinality(decoded) <= 1
  /\ \A d \in decoded :
       /\ d.pid = operation.process.pid /\ d.pid # 0
       /\ <<d.event_type, d.direction>> =
            IF operation.call = "connect" THEN <<"NET_CONNECT", "outbound">>
                                          ELSE <<"NET_ACCEPT", "inbound">>
       /\ d.remote_ip = {operation.remote_ip} /\ d.remote_port = {operation.remote_port}

(***************************************************************************)
(* What the agent itself does is never reported, if it runs in the initial *)
(* pid namespace, nor, in any, what the test server does for it (port 8000,*)
(* python or uvicorn): otherwise every upload would cause the next.        *)
(***************************************************************************)
OwnTrafficUnreported ==
  /\ skipPid = AgentPid /\ operation.process.pid = AgentPid => decoded = {}
  /\ ServerAccepts(operation) /\ Server.comm \in {"python", "uvicorn"} /\ Server.port = 8000
       => decoded = {}

\* A TCP connection over IPv4 asked for by, or given to, a process that is not
\* skipped.
OtherConnection(o) ==
  /\ o.family = "inet" /\ o.protocol = "tcp"
  /\ o.call = "connect" \/ o.ret = 0
  /\ o.process.pid \notin {0, skipPid}

\* It looks as if the test server were part of it.
LooksLikeTestServer(o) ==
  /\ o.process.comm \in {"python", "uvicorn"}
  /\ 8000 \in {o.local_port, o.remote_port} \/ o.local_ip = o.remote_ip

(***************************************************************************)
(* Nothing else is filtered away: a connection of a process that is not    *)
(* skipped gets through both filters, whose numbers are those of the BPF   *)
(* programs, whatever connect() has returned and although one of the two   *)
(* events of a connect is dropped.  The exception is a process whose name  *)
(* breaks the JSON of the line.                                            *)
(***************************************************************************)
OthersReported ==
  OtherConnection(operation) /\ ~LooksLikeTestServer(operation)
    /\ operation.process.comm \notin Garbling
    ~> decoded # {}

\* README.md: the filters keep the agent from an endless loop of events about
\* its own uploads, whatever the backend.
NoFeedback == AgentConnects(operation) \/ ServerAccepts(operation) => decoded = {}
=============================================================================
