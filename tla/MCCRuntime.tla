----------------------------- MODULE MCCRuntime -----------------------------
(* Instances of the C runtime for TLC: automata and the fifos between them. *)
EXTENDS CPort, TLC

CONSTANTS A1, A2,           \* automata
          p1, p2, g1,       \* user ports: producers p1 and p2, consumer g1
          f1,               \* a fifo
          s0, s1,           \* states
          d1, d2            \* data

Sync(to, source, sink) ==
    [to |-> to, ports |-> <<source, sink>>, sets |-> <<[sink |-> sink, source |-> source]>>]
Only(transitions) == [s \in States |-> IF s = s0 THEN transitions ELSE <<>>]

AllStart == [x \in Automata |-> s0]
TurnOfP2 == (A1 :> s1) @@ (A2 :> s0)
One == [x \in Fifos |-> 1]
Two == [x \in Fifos |-> 2]
AnyDatum == [x \in PutPorts |-> Data]
OwnDatum == (p1 :> {d1}) @@ (p2 :> {d2})
OneCall == [x \in UserPorts |-> 1]
TwoCalls == [x \in UserPorts |-> 2]
ThreePuts == (p1 :> 2) @@ (p2 :> 1) @@ (g1 :> 1)

\* A synchronous channel from p1 to g1.
SyncPorts == A1 :> <<p1, g1>>
SyncTrans == A1 :> Only(<<Sync(s0, p1, g1)>>)

\* A fifo from p1 to g1, between two automata.
FifoPorts == (A1 :> <<p1, InEnd(f1)>>) @@ (A2 :> <<OutEnd(f1), g1>>)
FifoTrans == (A1 :> Only(<<Sync(s0, p1, InEnd(f1))>>)) @@ (A2 :> Only(<<Sync(s0, OutEnd(f1), g1)>>))

\* A switch in front of the same fifo: in s1 it is the turn of p2; in s0 p1 has
\* two transitions, tried in turn, one of which gives the turn to p2.
TurnPorts == (A1 :> <<p1, p2, InEnd(f1)>>) @@ (A2 :> <<OutEnd(f1), g1>>)
TurnTrans == (A1 :> ((s0 :> <<Sync(s1, p1, InEnd(f1)), Sync(s0, p1, InEnd(f1))>>)
                  @@ (s1 :> <<Sync(s0, p2, InEnd(f1))>>)))
          @@ (A2 :> Only(<<Sync(s0, OutEnd(f1), g1)>>))
=============================================================================
