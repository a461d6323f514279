----------------------------- MODULE Connector ------------------------------
(***************************************************************************)
(* What a compiled Reo connector promises to the components around it: a   *)
(* set of rules, each of which fires in one atomic step on all its ports.  *)
(* Data wait in the slots of the ports the components put to (Inputs) and  *)
(* get from (Outputs); a rule moves data from input slots and memory cells *)
(* to output slots and memory cells.                                       *)
(*                                                                         *)
(* A rule r is a record: r.outs, a sequence of [port, from] (the datum     *)
(* offered at an output port and the input port or cell it comes from);    *)
(* r.ins, a sequence of input ports it takes from; r.full and r.empty, the *)
(* cells its guard tests; r.store, a function from cells to where their    *)
(* new datum comes from; and r.clear, the cells it sets to null.           *)
(***************************************************************************)
EXTENDS Naturals, Sequences

CONSTANTS Inputs, Outputs, Cells, Data, Null, Rules, InitMem

VARIABLES slot, ask, mem,
          given, got    \* the data the components have put and got, per port

connVars == <<slot, ask, mem, given, got>>

Ins(r) == {r.ins[n] : n \in DOMAIN r.ins}
Outs(r) == {r.outs[n].port : n \in DOMAIN r.outs}
SourceOf(r, p) == (CHOOSE o \in {r.outs[n] : n \in DOMAIN r.outs} : o.port = p).from

\* The value of a port or of a memory cell.
ValueIn(s, m, x) == IF x \in Cells THEN m[x] ELSE s[x]

\* The memory after rule r: every cell is assigned from the old values.
Updated(r, s, m) == [x \in Cells |->
    IF x \in r.clear THEN Null
    ELSE IF x \in DOMAIN r.store THEN ValueIn(s, m, r.store[x]) ELSE m[x]]

MemoryReady(r, m) == /\ \A x \in r.full : m[x] # Null
                     /\ \A x \in r.empty : m[x] = Null

ConnInit ==
    /\ slot = [p \in Inputs \cup Outputs |-> Null]
    /\ ask = [p \in Outputs |-> "none"]
    /\ mem = InitMem
    /\ given = [p \in Inputs |-> <<>>]
    /\ got = [p \in Outputs |-> <<>>]

\* A rule may fire when its inputs are offered, its outputs are free, and its
\* memory is in the state it needs.  It need not be asked for at its outputs:
\* the request the code has seen may be answered by the time it fires.
CanFire(r) == /\ \A p \in Ins(r) : slot[p] # Null
              /\ \A p \in Outs(r) : slot[p] = Null
              /\ MemoryReady(r, mem)

Fire(r) ==
    /\ CanFire(r)
    /\ slot' = [p \in Inputs \cup Outputs |->
                    IF p \in Ins(r) THEN Null
                    ELSE IF p \in Outs(r) THEN ValueIn(slot, mem, SourceOf(r, p))
                    ELSE slot[p]]
    /\ mem' = Updated(r, slot, mem)
    /\ UNCHANGED <<ask, given, got>>

Offered(p, d) == /\ slot[p] = Null
                 /\ slot' = [slot EXCEPT ![p] = d]
                 /\ given' = [given EXCEPT ![p] = Append(@, d)]
                 /\ UNCHANGED <<ask, mem, got>>

Asked(p) == /\ ask[p] = "none"
            /\ ask' = [ask EXCEPT ![p] = "asking"]
            /\ UNCHANGED <<slot, mem, given, got>>

Taken(p) == /\ ask[p] = "asking" /\ slot[p] # Null
            /\ ask' = [ask EXCEPT ![p] = "taken"]
            /\ slot' = [slot EXCEPT ![p] = Null]
            /\ got' = [got EXCEPT ![p] = Append(@, slot[p])]
            /\ UNCHANGED <<mem, given>>

Answered(p) == /\ ask[p] = "taken"
               /\ ask' = [ask EXCEPT ![p] = "none"]
               /\ UNCHANGED <<slot, mem, given, got>>

ConnNext == \/ \E n \in DOMAIN Rules : Fire(Rules[n])
            \/ \E p \in Inputs, d \in Data : Offered(p, d)
            \/ \E p \in Outputs : Asked(p) \/ Taken(p) \/ Answered(p)

ConnSpec == ConnInit /\ [][ConnNext]_connVars

FireAsked(r) == Fire(r) /\ \A p \in Outs(r) : ask[p] = "asking"

\* A rule that stays able to fire, and asked for, fires; an answer is taken.
ConnFairSpec == /\ ConnSpec
                /\ \A n \in DOMAIN Rules : WF_connVars(FireAsked(Rules[n]))
                /\ \A p \in Outputs : WF_connVars(Taken(p)) /\ WF_connVars(Answered(p))
=============================================================================
