--------------------------- MODULE MCJavaProtocol ---------------------------
(* Connectors of the Reo library as instances of JavaProtocol for TLC.      *)
EXTENDS JavaProtocol, TLC

CONSTANTS A, B, C1, P,            \* components: producers, consumers, protocol
          a, b, c,                \* ports
          m1, m2, d1, d2

NoStore == [x \in {} |-> Null]
Rule(outs, ins, full, empty, store, clear) ==
    [outs |-> outs, ins |-> ins, full |-> full, empty |-> empty,
     store |-> store, clear |-> clear]
Out(p, from) == [port |-> p, from |-> from]
Move(from, to) == Rule(<<Out(to, from)>>, <<from>>, {}, {}, NoStore, {})
Fill(from, m) == Rule(<<>>, <<from>>, {}, {m}, m :> from, {})
Drain(m, to) == Rule(<<Out(to, m)>>, <<>>, {m}, {}, NoStore, {m})
NoMem == [x \in {} |-> Null]

\* sync(a, b)
SyncProd == (a :> A) @@ (b :> P)
SyncCons == (a :> P) @@ (b :> B)
SyncRules == <<Move(a, b)>>

\* fifo1(a, b)
FifoRules == <<Fill(a, m1), Drain(m1, b)>>
FifoMem == m1 :> Null

\* alternator(a, c, b): both inputs at once, one datum out, one kept
AltProd == (a :> A) @@ (c :> C1) @@ (b :> P)
AltCons == (a :> P) @@ (c :> P) @@ (b :> B)
AltRules == <<Rule(<<Out(b, a)>>, <<a, c>>, {}, {m1}, m1 :> c, {}), Drain(m1, b)>>

\* A two place shift register, whose cells all move at once.
ShiftRules == <<Rule(<<>>, <<a>>, {}, {}, (m1 :> a) @@ (m2 :> m1), {}),
                Rule(<<Out(b, m2)>>, <<a>>, {m2}, {}, (m1 :> a) @@ (m2 :> m1), {})>>
ShiftMem == (m1 :> Null) @@ (m2 :> Null)

AnyData == [p \in Ports |-> Data]
OwnDatum == [p \in Ports |-> IF p = a THEN {d1} ELSE {d2}]
=============================================================================
