---------------------------- MODULE Exchange ----------------------------
(***************************************************************************)
(* What a protocol promises the components around it, whatever threads,    *)
(* locks and queues implement it: a request stays pending until one atomic *)
(* exchange serves it together with all other requests of its rule, or     *)
(* until its component withdraws it; nothing else moves a datum.           *)
(***************************************************************************)
CONSTANTS
    OutPorts,   \* ports at which components put
    InPorts,    \* ports at which components get
    Stores,     \* the buffers inside the protocol
    Data,
    None

VARIABLES
    rules,      \* the rules [ports, from, fills, empties] of the protocol, fixed
    request,    \* "none", "pending", "done" or "withdrawn", per port
    datum,      \* what is put at the port, or what its get received
    store       \* the datum in each buffer, or None

vars == <<rules, request, datum, store>>

Ports == OutPorts \cup InPorts

Init ==
    /\ request = [p \in Ports |-> "none"]
    /\ datum = [p \in Ports |-> None]
    /\ store = [s \in Stores |-> None]

\* A component asks for a put or a get.
Ask(p) ==
    /\ request[p] = "none"
    /\ request' = [request EXCEPT ![p] = "pending"]
    /\ \E d \in IF p \in OutPorts THEN Data ELSE {None} :
          datum' = [datum EXCEPT ![p] = d]
    /\ UNCHANGED <<rules, store>>

\* All requests of a rule are served at once.
Serve(r) ==
    LET v == IF r.from \in Stores THEN store[r.from] ELSE datum[r.from]
    IN  /\ \A p \in r.ports : request[p] = "pending"
        /\ \A s \in r.fills : store[s] = None
        /\ \A s \in r.empties : store[s] # None
        /\ request' = [p \in Ports |-> IF p \in r.ports THEN "done" ELSE request[p]]
        /\ datum' = [p \in Ports |-> IF p \in r.ports \cap InPorts THEN v ELSE datum[p]]
        /\ store' = [s \in Stores |-> IF s \in r.fills THEN v
                                      ELSE IF s \in r.empties THEN None ELSE store[s]]
        /\ UNCHANGED rules

\* The operation returns normally: only once it has been served.
Return(p) ==
    /\ request[p] = "done"
    /\ request' = [request EXCEPT ![p] = "none"]
    /\ UNCHANGED <<rules, datum, store>>

\* The request is withdrawn: only while it has not been served.
Withdraw(p) ==
    /\ request[p] = "pending"
    /\ request' = [request EXCEPT ![p] = "withdrawn"]
    /\ UNCHANGED <<rules, datum, store>>

\* The operation times out: only once its request has been withdrawn.
Fail(p) ==
    /\ request[p] = "withdrawn"
    /\ request' = [request EXCEPT ![p] = "none"]
    /\ UNCHANGED <<rules, datum, store>>

Next ==
    \/ \E p \in Ports : Ask(p) \/ Return(p) \/ Withdraw(p) \/ Fail(p)
    \/ \E r \in rules : Serve(r)

Spec == Init /\ [][Next]_vars
=============================================================================
