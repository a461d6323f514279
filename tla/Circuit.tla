------------------------------ MODULE Circuit ------------------------------
(***************************************************************************)
(* What a C program promises its components, whatever threads, mutexes,    *)
(* contexts and ring buffers implement it: automata joined by bounded      *)
(* queues.  A transition is one atomic step: it serves the requests at all *)
(* its ports, takes from queues that have a datum, adds to queues that     *)
(* have room, moves the data, and changes the state of its automaton.      *)
(*                                                                         *)
(* A transition is a record: r.to, the state it leads to; r.ports, the set *)
(* of ports and ends of queues it needs; and r.moves, a set of records     *)
(* [sink, source], each sink occurring once.                               *)
(***************************************************************************)
EXTENDS Naturals, Sequences

CONSTANTS
    Automata, InitMode,
    Steps,      \* the set of transitions of each automaton in each of its modes
    Ports,      \* the ports components call put and get on
    PutPorts,
    Timed,      \* the ports whose requests may be withdrawn
    Astray,     \* the ports of whose requests nothing is promised
    Queues, Bound,
    Data, None

VARIABLES
    mode,       \* the state of each automaton
    queue,      \* the data in each queue, oldest first
    datum,      \* what is put at the port, or what its get received
    request,    \* "none", "pending", "done" or "withdrawn", per port
    answer      \* what the last put or get returned

vars == <<mode, queue, datum, request, answer>>

Kept == Ports \ Astray
In(q) == <<q, "in">>
Out(q) == <<q, "out">>

Init ==
    /\ mode = InitMode
    /\ queue = [q \in Queues |-> <<>>]
    /\ datum = [p \in Ports |-> None]
    /\ request = [p \in Kept |-> "none"]
    /\ answer = [p \in Kept |-> "success"]

\* A component calls put or get.
Ask(p) ==
    /\ p \in Kept => request[p] = "none"
    /\ request' = [k \in Kept |-> IF k = p THEN "pending" ELSE request[k]]
    /\ \E d \in IF p \in PutPorts THEN Data ELSE {None} : datum' = [datum EXCEPT ![p] = d]
    /\ UNCHANGED <<mode, queue, answer>>

ValueAt(x) == IF x \in Ports THEN datum[x] ELSE Head(queue[x[1]])
Sinks(r) == {v.sink : v \in r.moves}
Moved(r, x) == ValueAt((CHOOSE v \in r.moves : v.sink = x).source)

CanServe(r) ==
    /\ \A p \in Kept \cap r.ports : request[p] = "pending"
    /\ \A q \in Queues : /\ In(q) \in r.ports => Len(queue[q]) < Bound[q]
                         /\ Out(q) \in r.ports => queue[q] # <<>>
    /\ \A v \in r.moves : ValueAt(v.source) \in Data

\* The automaton a makes the transition r.
Serve(a, r) ==
    /\ CanServe(r)
    /\ request' = [p \in Kept |-> IF p \in r.ports THEN "done" ELSE request[p]]
    /\ mode' = [mode EXCEPT ![a] = r.to]
    /\ datum' = [p \in Ports |-> IF p \in Sinks(r) THEN Moved(r, p) ELSE datum[p]]
    /\ queue' = [q \in Queues |->
                    (IF Out(q) \in r.ports THEN Tail(queue[q]) ELSE queue[q])
                    \o (IF In(q) \in Sinks(r) THEN <<Moved(r, In(q))>> ELSE <<>>)]
    /\ UNCHANGED answer

\* A request times out: only while it has not been served.
Withdraw(p) ==
    /\ request[p] = "pending"
    /\ request' = [request EXCEPT ![p] = "withdrawn"]
    /\ UNCHANGED <<mode, queue, datum, answer>>

\* The put or get returns and tells what has become of it.  It may come back
\* unserved (the run c_pending); it is then not served any more.
Return(p) ==
    /\ request[p] # "none"
    /\ answer' = [answer EXCEPT ![p] = CASE request[p] = "done" -> "success"
                                         [] request[p] = "withdrawn" -> "failed"
                                         [] request[p] = "pending" -> "pending"]
    /\ request' = [request EXCEPT ![p] = "none"]
    /\ UNCHANGED <<mode, queue, datum>>

Next == \/ \E p \in Ports : Ask(p)
        \/ \E p \in Kept : Return(p)
        \/ \E p \in Kept \cap Timed : Withdraw(p)
        \/ \E a \in Automata : \E r \in Steps[a][mode[a]] : Serve(a, r)

Spec == Init /\ [][Next]_vars
=============================================================================
