---- MODULE MCConstraintHypergraph ----
EXTENDS ConstraintHypergraph

\* The channels of the library.
Sync(a, b) == {[on |-> {a, b}, off |-> {}]}
Lossy(a, b) == {[on |-> {a}, off |-> {b}], [on |-> {a, b}, off |-> {}]}
Fifo(a, b) == {[on |-> {a}, off |-> {b}], [on |-> {b}, off |-> {a}]}
Drain(a, b) == {[on |-> {a, b}, off |-> {}], [on |-> {}, off |-> {a, b}]}

Alternator == <<
    GetNode({"P1"}, {"s1", "d1"}), GetNode({"P2"}, {"d2", "s2"}),
    Sync("s1", "t1"), Drain("d1", "d2"), Sync("s2", "f"), Fifo("f", "g"),
    GetNode({"t1", "g"}, {"B"})>>

Router == <<
    GetNode({"P"}, {"d1", "l1", "l2"}), Drain("d1", "d2"),
    Lossy("l1", "k1"), Lossy("l2", "k2"),
    GetNode({"k1"}, {"m1", "A"}), GetNode({"k2"}, {"m2", "B"}),
    GetNode({"m1", "m2"}, {"d2"})>>

Sequencer == <<
    Fifo("f1", "g1"), GetNode({"g1"}, {"A", "f2"}), Fifo("f2", "g2"),
    GetNode({"g2"}, {"B", "f3"}), Fifo("f3", "f1")>>

LossyFifo == <<Lossy("a", "x"), Fifo("x", "b")>>

Barrier == <<
    GetNode({"P1"}, {"a1", "d1"}), GetNode({"P2"}, {"a2", "d2", "e2"}), GetNode({"P3"}, {"a3", "e3"}),
    Drain("d1", "d2"), Drain("e2", "e3")>>

\* Two channels side by side: the product is one rule, in which the lossy loses.
SyncAndLossy == <<
    GetNode({"P"}, {"a1", "a2"}), Sync("a1", "b1"), Lossy("a2", "b2"),
    GetNode({"b1", "b2"}, {"B"})>>

\* A fifo that feeds itself: nothing can ever fire.
Ring == <<Fifo("a", "b"), Sync("b", "a")>>

AllConnectors == {Alternator, Router, Sequencer, LossyFifo, Barrier, SyncAndLossy, Ring}
====
