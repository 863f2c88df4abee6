---------------------------- MODULE MCNetEvents ----------------------------
EXTENDS NetEvents

MCProcesses == {[pid |-> 0, comm |-> "swapper"], [pid |-> 1, comm |-> "init"],
                [pid |-> 10, comm |-> "python"],
                [pid |-> 20, comm |-> "uvicorn"], [pid |-> 30, comm |-> "nginx"],
                [pid |-> 40, comm |-> "quote"]}
Quote == {"quote"}
InitialNamespace == {10}
AnyNamespace == {1, 10}
MCAddresses == {1, 2}
MCPorts == {443, 8000}
TestServer == [comm |-> "uvicorn", address |-> 1, port |-> 8000]
Nginx == [comm |-> "nginx", address |-> 1, port |-> 443]
=============================================================================
