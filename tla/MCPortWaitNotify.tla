-------------------------- MODULE MCPortWaitNotify --------------------------
(* Instances of PortWaitNotify for TLC.                                     *)
EXTENDS PortWaitNotify, TLC

CONSTANTS A, B, x, y, d1, d2

\* Two ports in opposite directions: each component is the producer of one
\* and the consumer of the other, and both calls use its one monitor.
RingPorts == {x, y}
RingProd == (x :> A) @@ (y :> B)
RingCons == (x :> B) @@ (y :> A)
MixedData == [p \in Ports |-> IF p = x THEN {d1, d2} ELSE {d1}]
=============================================================================
