---- MODULE MCLykos ----
EXTENDS LykosProtocol, TLC

CONSTANTS A1, A2, B, M1, M2, F

\* A1 puts into the fifo F through M1, B gets from it through M2.
Fifo == [public |-> M1 :> <<A1>> @@ M2 :> <<B>>,
         private |-> M1 :> <<<<"in", F>>>> @@ M2 :> <<<<"out", F>>>>,
         source |-> M1 :> A1 @@ M2 :> F,
         queued |-> M1 :> {} @@ M2 :> {}]
\* B gets what A1 puts while A2 puts too.
Barrier == [public |-> M1 :> <<A1, A2, B>>,
            private |-> M1 :> <<>>,
            source |-> M1 :> A1,
            queued |-> M1 :> {}]
\* B gets what A1 or A2 puts.
Merger == [Barrier EXCEPT !.public = M1 :> <<B>>, !.queued = M1 :> {A1, A2}]

AllCircuits == {Fifo, Barrier, Merger}
OnlyFifo == {Fifo}
OnlyBarrier == {Barrier}
OnlyMerger == {Merger}

OwnData == A1 :> {A1} @@ A2 :> {A2}
OneInterrupt == A1 :> 1 @@ A2 :> 0 @@ B :> 0
NoInterrupt == A1 :> 0 @@ A2 :> 0 @@ B :> 0
====
