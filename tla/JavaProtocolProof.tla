------------------------- MODULE JavaProtocolProof --------------------------
(***************************************************************************)
(* Proofs about JavaProtocol, for every connector: any number of ports,    *)
(* components, memory cells and rules.  ProtocolInv is inductive.  Its     *)
(* part about ports comes from the lemmas about PortWaitNotify, since the  *)
(* protocol's calls are steps of a thread like any other.                  *)
(***************************************************************************)
EXTENDS JavaProtocol, PortWaitNotifyProof, FiniteSetTheorems, WellFoundedInduction

-----------------------------------------------------------------------------
(* What a step of a thread does to the fields and to the other threads.      *)

\* A step of c leaves the calls and the monitors of the other threads alone.
Untouched(c) == \A q \in Components \ {c} :
    pc'[q] = pc[q] /\ at'[q] = at[q] /\ reg'[q] = reg[q] /\ locked'[q] = locked[q]

\* Labels of a put that has been written, and of a get that may take its datum.
Placed == PutLabels \ {"put_spin", "put_write"}
Seeking == GetLabels \ {"get_set", "get_clear", "get_reset", "get_notify"}

\* The steps that write no field: a call or a return, a step within a phase of
\* a call, or the end of a wait().
QuietStep(c) ==
    /\ UNCHANGED <<put, get, sent, received>>
    /\ \/ pc[c] = "idle" /\ pc'[c] \in {"put_spin", "get_set"}
       \/ pc[c] = "put_spin" /\ pc'[c] = "put_write" /\ at' = at /\ reg' = reg
       \/ pc[c] \in Placed /\ pc'[c] \in Placed \cup {"idle"} /\ at' = at
       \/ pc[c] \in Seeking /\ pc'[c] \in Seeking /\ at' = at
       \/ /\ pc[c] = "get_read" /\ pc'[c] = "get_clear" /\ at' = at
       \/ pc[c] = "get_notify" /\ pc'[c] = "idle" /\ at' = at
       \/ UNCHANGED <<pc, at, reg>>

LEMMA StepKinds ==
    ASSUME NEW c \in Components, AnyStep(c), TypeOK
    PROVE  /\ Untouched(c)
           /\ PutWrite(c) \/ GetSet(c) \/ GetClear(c) \/ GetReset(c) \/ QuietStep(c)
<1> DEFINE Goal == /\ Untouched(c)
                   /\ PutWrite(c) \/ GetSet(c) \/ GetClear(c) \/ GetReset(c) \/ QuietStep(c)
<1> SUFFICES Goal
    OBVIOUS
<1> USE DEF TypeOK, Untouched, QuietStep, Placed, Seeking, PutLabels, GetLabels, port, monitor,
            history, Goto
<1>1. ASSUME NEW p \in Ports, NEW d \in Data, CallPut(c, p, d) PROVE Goal
    BY <1>1 DEF CallPut
<1>2. ASSUME NEW p \in Ports, CallGet(c, p) PROVE Goal
    BY <1>2 DEF CallGet
<1>3. CASE PutSpin(c)
    BY <1>3 DEF PutSpin
<1>4. CASE PutWrite(c)
    BY <1>4 DEF PutWrite
<1>5. CASE PutActivate(c)
    BY <1>5 DEF PutActivate, Activate
<1>6. CASE PutTest(c)
    <2>1. PutTestMoves(c) BY <1>6, PutTestJumps
    <2> QED BY <2>1 DEF PutTestMoves
<1>7. CASE PutSync(c)
    BY <1>7 DEF PutSync, Lock
<1>8. CASE PutLoop(c)
    <2>1. PutLoopMoves(c) BY <1>8, PutLoopJumps
    <2> QED BY <2>1 DEF PutLoopMoves, Unlock
<1>9. CASE PutSuspend(c)
    BY <1>9 DEF PutSuspend, Unlock
<1>10. CASE PutWake(c)
    BY <1>10 DEF PutWake, Lock
<1>11. CASE GetSet(c)
    BY <1>11 DEF GetSet
<1>12. CASE GetActivate(c)
    BY <1>12 DEF GetActivate, Activate
<1>13. CASE GetTest(c)
    <2>1. GetTestMoves(c) BY <1>13, GetTestJumps
    <2> QED BY <2>1 DEF GetTestMoves
<1>14. CASE GetSync(c)
    BY <1>14 DEF GetSync, Lock
<1>15. CASE GetLoop(c)
    <2>1. GetLoopMoves(c) BY <1>15, GetLoopJumps
    <2> QED BY <2>1 DEF GetLoopMoves, Unlock
<1>16. CASE GetSuspend(c)
    BY <1>16 DEF GetSuspend, Unlock
<1>17. CASE GetWake(c)
    BY <1>17 DEF GetWake, Lock
<1>18. CASE GetRead(c)
    BY <1>18 DEF GetRead
<1>19. CASE GetClear(c)
    BY <1>19 DEF GetClear
<1>20. CASE GetReset(c)
    BY <1>20 DEF GetReset
<1>21. CASE GetNotify(c)
    BY <1>21 DEF GetNotify, Activate
<1>22. CASE WaitReturns(c)
    BY <1>22 DEF WaitReturns, thread
<1> HIDE DEF Goal
<1> QED
    BY <1>1, <1>2, <1>3, <1>4, <1>5, <1>6, <1>7, <1>8, <1>9, <1>10, <1>11,
       <1>12, <1>13, <1>14, <1>15, <1>16, <1>17, <1>18, <1>19, <1>20, <1>21,
       <1>22
    DEF AnyStep, PutStep, GetStep

-----------------------------------------------------------------------------
(* The memory update.                                                        *)

\* A nonempty set of naturals has a least element: induction without a
\* predicate as a parameter.
LEMMA LeastElement ==
    ASSUME NEW T, T \subseteq Nat, T # {}
    PROVE  \E x \in T : \A y \in T : x <= y
<1> DEFINE R == OpToRel(<, Nat)
<1>1. IsWellFoundedOn(R, Nat)
    BY NatLessThanWellFounded
<1>2. \A x, y \in Nat : <<y, x>> \in R <=> y < x
    BY DEF OpToRel
<1> HIDE DEF R
<1>3. PICK x \in T : \A y \in T : <<y, x>> \notin R
    BY <1>1, WFMin
<1>4. \A y \in T : ~(y < x)
    BY <1>2, <1>3
<1>5. \A y \in T : x <= y
    BY <1>4
<1> QED
    BY <1>5

Memories == [Cells -> Data \cup {Null}]

\* The memory m after the assignment of cell x by rule r.
AssignCell(r, m, x) == [m EXCEPT ![x] = IF r.store[x] \in Cells THEN m[r.store[x]] ELSE put[r.store[x]]]

\* after is the sequence of memories that the update runs through.
RunsThrough(r, order, after, last) ==
    after = [q \in 0 .. last |-> IF q = 0 THEN mem ELSE AssignCell(r, after[q - 1], order[q])]

LEMMA AssignedAfter ==
    ASSUME NEW r, NEW order
    PROVE  LET after == CHOOSE f : RunsThrough(r, order, f, Len(order))
           IN  Assigned(r, order) = [x \in Cells |-> IF x \in r.clear THEN Null ELSE after[Len(order)][x]]
BY DEF Assigned, RunsThrough, AssignCell

LEMMA OrderType ==
    ASSUME NEW r, IsRule(r), NEW order \in S!SetToSeqs(DOMAIN r.store)
    PROVE  Len(order) \in Nat /\ order \in [1 .. Len(order) -> DOMAIN r.store]
<1> DEFINE D == DOMAIN r.store
           N == Cardinality(D)
<1>1. IsFiniteSet(D)
    BY ProtocolAssumption, FS_Subset DEF IsRule
<1>2. N \in Nat
    BY <1>1, FS_CardinalityType
<1>3. order \in [1 .. N -> D]
    BY DEF S!SetToSeqs, S!Cardinality, Cardinality, S!IsFiniteSet, IsFiniteSet
<1> HIDE DEF N, D
<1>4. order \in Seq(D) /\ Len(order) = N
    BY <1>2, <1>3
<1> QED
    BY <1>2, <1>3, <1>4 DEF D

\* The recursion is well founded: the sequence of memories exists.
LEMMA UpdateRuns ==
    ASSUME NEW r, IsRule(r), NEW order \in S!SetToSeqs(DOMAIN r.store)
    PROVE  \E after : /\ RunsThrough(r, order, after, Len(order))
                      /\ Assigned(r, order) =
                            [x \in Cells |-> IF x \in r.clear THEN Null ELSE after[Len(order)][x]]
<1> DEFINE L == Len(order)
           Runs(f, l) == RunsThrough(r, order, f, l)
<1>1. L \in Nat
    BY OrderType
<1> HIDE DEF L
<1>2. \E f : Runs(f, L)
    <2> SUFFICES ASSUME ~ \E f : Runs(f, L) PROVE FALSE
        OBVIOUS
    <2> DEFINE T == {l \in 0 .. L : ~ \E f : Runs(f, l)}
    <2>0. T \subseteq Nat /\ T # {}
        BY <1>1
    <2>1. PICK l \in T : \A y \in T : l <= y
        <3> HIDE DEF T
        <3> QED BY <2>0, LeastElement
    <2>2. l \in 0 .. L /\ ~ \E f : Runs(f, l)
        BY <2>1
    <2>3. l # 0
        <3> DEFINE g == [q \in 0 .. 0 |-> mem]
        <3>1. Runs(g, 0)
            BY DEF RunsThrough
        <3> QED
            BY <2>2, <3>1
    <2>4. PICK f : Runs(f, l - 1)
        BY <1>1, <2>1, <2>2, <2>3
    <2> DEFINE g == [q \in 0 .. l |-> IF q = l THEN AssignCell(r, f[l - 1], order[l]) ELSE f[q]]
    <2>5. Runs(g, l)
        <3>1. \A q \in 0 .. l - 1 : f[q] = IF q = 0 THEN mem ELSE AssignCell(r, f[q - 1], order[q])
            BY <2>4 DEF RunsThrough
        <3>2. \A q \in 0 .. l : g[q] = IF q = 0 THEN mem ELSE AssignCell(r, g[q - 1], order[q])
            BY <1>1, <2>2, <2>3, <3>1
        <3> QED
            BY <3>2 DEF RunsThrough
    <2> QED
        BY <2>2, <2>5
<1> QED
    BY <1>2, AssignedAfter DEF L

\* An update of the memory gives each cell a datum or null.
LEMMA UpdateType ==
    ASSUME mem \in Memories, put \in [Ports -> Data \cup {Null}],
           NEW r, IsRule(r), NEW order \in S!SetToSeqs(DOMAIN r.store)
    PROVE  Assigned(r, order) \in Memories
<1> DEFINE L == Len(order)
           Runs(f, l) == RunsThrough(r, order, f, l)
<1>1. L \in Nat /\ \A q \in 1 .. L : order[q] \in DOMAIN r.store
    BY OrderType
<1>2. \A x \in DOMAIN r.store : r.store[x] \in Cells \/ r.store[x] \in Ports
    <2>1. \A m \in DOMAIN r.ins : r.ins[m] \in Ports
        BY DEF IsRule, Inputs
    <2> QED
        BY <2>1 DEF IsRule, Sources
<1>3. \A m \in Memories : \A q \in 1 .. L : AssignCell(r, m, order[q]) \in Memories
    BY <1>1, <1>2 DEF AssignCell, Memories
<1> HIDE DEF L
<1>4. \A f, l : l \in 0 .. L /\ Runs(f, l) => \A q \in 0 .. l : f[q] \in Memories
    <2> SUFFICES ASSUME NEW f, NEW l \in 0 .. L, Runs(f, l), \E q \in 0 .. l : f[q] \notin Memories
                 PROVE  FALSE
        OBVIOUS
    <2> DEFINE T == {q \in 0 .. l : f[q] \notin Memories}
    <2>0. T \subseteq Nat /\ T # {}
        BY <1>1
    <2>1. PICK q \in T : \A y \in T : q <= y
        <3> HIDE DEF T
        <3> QED BY <2>0, LeastElement
    <2>2. q \in 0 .. l /\ l \in Nat /\ f[q] \notin Memories
        BY <1>1, <2>1
    <2>3. f[q] = IF q = 0 THEN mem ELSE AssignCell(r, f[q - 1], order[q])
        BY <2>2 DEF RunsThrough
    <2>4. q # 0
        BY <2>2, <2>3
    <2>5. f[q - 1] \in Memories /\ q \in 1 .. L
        BY <1>1, <2>1, <2>2, <2>4
    <2> QED
        BY <1>3, <2>2, <2>3, <2>4, <2>5
<1>5. PICK after : /\ Runs(after, L)
                   /\ Assigned(r, order) = [x \in Cells |-> IF x \in r.clear THEN Null ELSE after[L][x]]
    BY UpdateRuns DEF L
<1>6. after[L] \in Memories
    BY <1>1, <1>4, <1>5
<1> QED
    BY <1>5, <1>6 DEF Memories

-----------------------------------------------------------------------------
(* The rules and the reads of their guards.                                  *)

LEMMA RuleFacts ==
    ASSUME RunTypeOK
    PROVE  k \in DOMAIN Rules /\ IsRule(Rules[k])
BY ProtocolAssumption DEF RunTypeOK

\* A rule puts to different outputs, gets from different inputs.
LEMMA RulePorts ==
    ASSUME NEW r, IsRule(r)
    PROVE  /\ Len(r.outs) \in Nat /\ DOMAIN r.outs = 1 .. Len(r.outs)
           /\ Len(r.ins) \in Nat /\ DOMAIN r.ins = 1 .. Len(r.ins)
           /\ \A m \in DOMAIN r.outs : r.outs[m].port \in Outputs /\ r.outs[m].from \in Sources(r)
           /\ \A m \in DOMAIN r.ins : r.ins[m] \in Inputs
<1> DEFINE O == [port : Outputs, from : Sources(r)]
<1>1. r.outs \in Seq(O) /\ r.ins \in Seq(Inputs)
    BY DEF IsRule
<1>2. \A o \in O : o.port \in Outputs /\ o.from \in Sources(r)
    OBVIOUS
<1> HIDE DEF O
<1>3. /\ Len(r.outs) \in Nat /\ DOMAIN r.outs = 1 .. Len(r.outs)
      /\ Len(r.ins) \in Nat /\ DOMAIN r.ins = 1 .. Len(r.ins)
      /\ \A m \in DOMAIN r.outs : r.outs[m] \in O
      /\ \A m \in DOMAIN r.ins : r.ins[m] \in Inputs
    BY <1>1
<1> QED
    BY <1>2, <1>3

\* An output is no input, and the source of a datum no output.
LEMMA PortFacts ==
    /\ Inputs \subseteq Ports /\ Outputs \subseteq Ports
    /\ \A p \in Inputs : p \notin Outputs /\ p \notin Cells
    /\ \A p \in Outputs : p \notin Cells
BY PortAssumption, ProtocolAssumption DEF Inputs, Outputs

LEMMA GuardReadsAre ==
    ASSUME NEW r, IsRule(r)
    PROVE  /\ DOMAIN GuardReads(r) = 1 .. Len(GuardReads(r))
           /\ Len(GuardReads(r)) \in Nat
           /\ \A m \in DOMAIN GuardReads(r) : LET x == GuardReads(r)[m] IN
                \/ x.field \in {"get", "free"} /\ x.port \in Outputs
                \/ x.field = "offer" /\ x.port \in Inputs
           /\ \A m \in DOMAIN r.outs : \E l \in DOMAIN GuardReads(r) :
                GuardReads(r)[l] = [field |-> "free", port |-> r.outs[m].port]
           /\ \A m \in DOMAIN r.ins : \E l \in DOMAIN GuardReads(r) :
                GuardReads(r)[l] = [field |-> "offer", port |-> r.ins[m]]
<1> DEFINE o == Len(r.outs)
           e == Len(r.ins)
           N == 2 * o + e
           Reads == GuardReads(r)
<1>1. /\ o \in Nat /\ DOMAIN r.outs = 1 .. o
      /\ e \in Nat /\ DOMAIN r.ins = 1 .. e
      /\ \A m \in 1 .. o : r.outs[m].port \in Outputs
      /\ \A m \in 1 .. e : r.ins[m] \in Inputs
    BY RulePorts
<1>2. Reads = [m \in 1 .. N |->
        IF m > 2 * o THEN [field |-> "offer", port |-> r.ins[m - 2 * o]]
        ELSE [field |-> IF m % 2 = 1 THEN "get" ELSE "free", port |-> r.outs[(m + 1) \div 2].port]]
    BY DEF GuardReads
<1> HIDE DEF o, e, Reads
<1>3. N \in Nat /\ DOMAIN Reads = 1 .. N /\ Len(Reads) = N
    BY <1>1, <1>2
<1>4. ASSUME NEW m \in 1 .. N
      PROVE  \/ Reads[m].field \in {"get", "free"} /\ Reads[m].port \in Outputs
             \/ Reads[m].field = "offer" /\ Reads[m].port \in Inputs
    <2>1. CASE m > 2 * o
        <3>1. m - 2 * o \in 1 .. e
            BY <1>1, <2>1
        <3> QED
            BY <1>1, <1>2, <2>1, <3>1
    <2>2. CASE m <= 2 * o
        <3>1. (m + 1) \div 2 \in 1 .. o
            BY <1>1, <2>2
        <3>2. ~(m > 2 * o)
            BY <1>1, <2>2
        <3> QED
            BY <1>1, <1>2, <3>1, <3>2
    <2> QED
        BY <1>1, <2>1, <2>2
<1>5. ASSUME NEW m \in 1 .. o
      PROVE  \E l \in 1 .. N : Reads[l] = [field |-> "free", port |-> r.outs[m].port]
    <2>0. 2 * m \in 1 .. N /\ ~(2 * m > 2 * o)
        BY <1>1
    <2>1. (2 * m) % 2 # 1 /\ (2 * m + 1) \div 2 = m
        <3>1. m \in Nat
            BY <1>1
        <3> QED
            BY <3>1
    <2>2. Reads[2 * m] = [field |-> "free", port |-> r.outs[m].port]
        BY <1>2, <2>0, <2>1
    <2> QED
        BY <2>0, <2>2
<1>6. ASSUME NEW m \in 1 .. e
      PROVE  \E l \in 1 .. N : Reads[l] = [field |-> "offer", port |-> r.ins[m]]
    <2>1. 2 * o + m \in 1 .. N /\ 2 * o + m > 2 * o /\ (2 * o + m) - 2 * o = m
        BY <1>1
    <2>2. Reads[2 * o + m] = [field |-> "offer", port |-> r.ins[m]]
        BY <1>2, <2>1
    <2> QED
        BY <2>1, <2>2
<1> QED
    BY <1>1, <1>3, <1>4, <1>5, <1>6 DEF Reads

-----------------------------------------------------------------------------
(* A step of a thread in a call, or at the start of one.                     *)

\* A slot is filled by its producer, when empty, and emptied by its consumer.
LEMMA PutField ==
    ASSUME NEW c \in Components, AnyStep(c), TypeOK, CallOK(c), SlotOK(c), NEW p \in Ports
    PROVE  \/ put'[p] = put[p]
           \/ p = at[c] /\ Prod[p] = c /\ PutWrite(c) /\ put[p] = Null /\ put'[p] = reg[c] /\ reg[c] \in Data
           \/ p = at[c] /\ Cons[p] = c /\ GetClear(c) /\ put[p] # Null /\ put'[p] = Null
<1>1. CASE PutWrite(c)
    BY <1>1 DEF PutWrite, Goto, TypeOK, CallOK, SlotOK, PutLabels
<1>2. CASE GetClear(c)
    BY <1>2 DEF GetClear, Goto, TypeOK, CallOK, SlotOK, GetLabels
<1>3. CASE GetSet(c) \/ GetReset(c) \/ QuietStep(c)
    BY <1>3 DEF GetSet, GetReset, QuietStep
<1> QED
    BY <1>1, <1>2, <1>3, StepKinds

\* The field get of a port is written by its consumer.
LEMMA GetField ==
    ASSUME NEW c \in Components, AnyStep(c), TypeOK, CallOK(c), NEW p \in Ports
    PROVE  \/ get'[p] = get[p]
           \/ p = at[c] /\ Cons[p] = c /\ (GetSet(c) \/ (GetReset(c) /\ ~get'[p]))
<1>1. CASE GetSet(c)
    <2>1. Cons[at[c]] = c /\ get' = [get EXCEPT ![at[c]] = TRUE]
        BY <1>1 DEF GetSet, Goto, CallOK, GetLabels
    <2>2. CASE p = at[c]
        BY <1>1, <2>1, <2>2
    <2>3. CASE p # at[c]
        <3>1. get'[p] = get[p]
            BY <2>1, <2>3 DEF TypeOK
        <3> QED
            BY <3>1, Zenon
    <2> QED
        BY <2>2, <2>3
<1>2. CASE GetReset(c)
    <2>1. Cons[at[c]] = c /\ get' = [get EXCEPT ![at[c]] = FALSE]
        BY <1>2 DEF GetReset, Goto, CallOK, GetLabels
    <2>2. CASE p = at[c]
        <3>1. ~get'[p]
            BY <2>1, <2>2 DEF TypeOK
        <3> QED
            BY <1>2, <2>1, <2>2, <3>1
    <2>3. CASE p # at[c]
        <3>1. get'[p] = get[p]
            BY <2>1, <2>3 DEF TypeOK
        <3> QED
            BY <3>1, Zenon
    <2> QED
        BY <2>2, <2>3
<1>3. CASE PutWrite(c) \/ GetClear(c) \/ QuietStep(c)
    BY <1>3 DEF PutWrite, GetClear, QuietStep
<1> QED
    BY <1>1, <1>2, <1>3, StepKinds

\* No other thread takes an input, or fills an output.
LEMMA OthersKeepSlots ==
    ASSUME NEW c \in Components, c # Protocol, AnyStep(c), TypeOK, CallOK(c), SlotOK(c)
    PROVE  /\ \A p \in Inputs : put[p] # Null => put'[p] = put[p]
           /\ \A p \in Outputs : put[p] = Null => put'[p] = Null
BY PutField DEF Inputs, Outputs

\* The part of the invariant that is about the ports and their threads.
PortsOK == TypeOK /\ CallsOK /\ SlotsOK /\ NothingLost /\ ProtocolMonitorsOK

\* A step of a thread keeps it, if it is no call of the protocol from within
\* its own synchronized block.
LEMMA PortsStep ==
    ASSUME NEW c \in Components, AnyStep(c), PortsOK, run' = run,
           run \in {"check", "suspend"} => pc[Protocol] = "idle" /\ (c = Protocol => WaitReturns(c))
    PROVE  PortsOK'
<1> USE DEF PortsOK, CallsOK, SlotsOK, NothingLost, ProtocolMonitorsOK
<1>1. TypeOK'
    BY TypeStep
<1>2. (\A x \in Components : CallOK(x)') /\ (\A x \in Ports : GetOK(x)')
    BY CallStep, GetFieldStep
<1>3. \A x \in Components : SlotOK(x)'
    BY SlotStep
<1>4. \A x \in Ports : LogOK(x)'
    BY LogStep
<1>5. \A x \in Components : x # Protocol => LockOK(x)'
    BY LockStep
<1>6. RunLockOK'
    <2>1. CASE run \in {"check", "suspend"}
        <3>1. locked'[Protocol] = locked[Protocol] /\ pc'[Protocol] = pc[Protocol]
            <4>1. CASE c = Protocol
                BY <2>1, <4>1 DEF WaitReturns, thread
            <4>2. CASE c # Protocol
                BY <4>2, StepKinds, ProtocolAssumption DEF Untouched
            <4> QED
                BY <4>1, <4>2
        <3> QED
            BY <2>1, <3>1 DEF RunLockOK
    <2>2. CASE run \notin {"check", "suspend"}
        <3>1. LockOK(Protocol)
            BY <2>2 DEF RunLockOK, LockOK
        <3>2. LockOK(Protocol)'
            BY <3>1, LockStep, ProtocolAssumption
        <3> QED
            BY <2>2, <3>2 DEF RunLockOK, LockOK
    <2> QED
        BY <2>1, <2>2
<1>7. ASSUME NEW x \in Components PROVE ProducerOK(x)' /\ ConsumerOK(x)'
    <2>1. CASE x = Protocol /\ run \in {"check", "suspend"}
        <3>1. pc'[x] = "idle"
            <4>1. CASE c = Protocol
                BY <2>1, <4>1 DEF WaitReturns, thread
            <4>2. CASE c # Protocol
                BY <2>1, <4>2, StepKinds, ProtocolAssumption DEF Untouched
            <4> QED
                BY <4>1, <4>2
        <3> QED
            BY <3>1 DEF ProducerOK, ConsumerOK, Asleep
    <2>2. CASE ~(x = Protocol /\ run \in {"check", "suspend"})
        <3>1. LockOK(x)
            BY <2>2 DEF RunLockOK, LockOK
        <3>2. at[x] \in Ports
            BY DEF TypeOK
        <3> QED
            BY <3>1, <3>2, ProducerStep, ConsumerStep
    <2> QED
        BY <2>1, <2>2
<1> QED
    BY <1>1, <1>2, <1>3, <1>4, <1>5, <1>6, <1>7

\* The protocol in a call moves as its rule and its knowledge of the slots say.
LEMMA ProtocolInCall ==
    ASSUME AnyStep(Protocol), pc[Protocol] # "idle" \/ WaitReturns(Protocol),
           PortsOK, RunTypeOK, RunCallsOK, SlotsKnown, UNCHANGED <<runVars, mem>>
    PROVE  RunCallsOK' /\ SlotsKnown'
<1> DEFINE r == Rules[k]
<1>1. /\ Protocol \in Components /\ IsRule(r) /\ Rules[k]' = r /\ GuardReads(r)' = GuardReads(r)
      /\ n' = n /\ run' = run /\ k' = k /\ mem' = mem
    BY ProtocolAssumption, RuleFacts DEF runVars, GuardReads
<1>2. TypeOK /\ CallOK(Protocol) /\ SlotOK(Protocol)
    BY <1>1 DEF PortsOK, CallsOK, SlotsOK
<1>3. /\ \A m \in DOMAIN r.outs : r.outs[m].port \in Outputs /\ r.outs[m].from \in Sources(r)
      /\ \A m \in DOMAIN r.ins : r.ins[m] \in Inputs
      /\ \A m1, m2 \in DOMAIN r.outs : r.outs[m1].port = r.outs[m2].port => m1 = m2
      /\ \A m1, m2 \in DOMAIN r.ins : r.ins[m1] = r.ins[m2] => m1 = m2
      /\ DOMAIN r.outs \subseteq Nat /\ DOMAIN r.ins \subseteq Nat /\ n \in Nat
    <2> HIDE DEF r
    <2>1. /\ \A m1, m2 \in DOMAIN r.outs : r.outs[m1].port = r.outs[m2].port => m1 = m2
          /\ \A m1, m2 \in DOMAIN r.ins : r.ins[m1] = r.ins[m2] => m1 = m2
        BY <1>1 DEF IsRule
    <2>2. n \in Nat
        BY DEF RunTypeOK
    <2> QED
        BY <1>1, <2>1, <2>2, RulePorts
<1> HIDE DEF r
<1>4. CASE WaitReturns(Protocol)
    <2>1. UNCHANGED <<pc, at, reg, put, get>>
        BY <1>4 DEF WaitReturns, thread, port
    <2> QED
        BY <1>1, <2>1 DEF r, RunCallsOK, SlotsKnown, InPut, InGet, StillHolds, ReadHolds, Giving,
            Taking, Term
<1>5. CASE pc[Protocol] \in PutLabels /\ ~WaitReturns(Protocol)
    <2>1. run = "puts" /\ n - 1 \in DOMAIN r.outs /\ at[Protocol] = r.outs[n - 1].port
        BY <1>5 DEF RunCallsOK, InPut, InGet, PutLabels, GetLabels, r
    <2>2. /\ \A m \in DOMAIN r.ins : put[r.ins[m]] # Null
          /\ \A m \in DOMAIN r.outs : m >= n => put[r.outs[m].port] = Null
        BY <2>1 DEF SlotsKnown, r
    <2>3. /\ pc'[Protocol] \in PutLabels \cup {"idle"} /\ at' = at
          /\ \A p \in Ports : p # at[Protocol] => put'[p] = put[p]
          /\ \/ ~Giving'
             \/ Giving /\ put' = put /\ reg' = reg
          /\ ~Taking'
        <3>1. CASE PutWrite(Protocol)
            BY <1>2, <3>1, ProtocolAssumption DEF PutWrite, Goto, TypeOK, PutLabels, GetLabels, Giving, Taking
        <3>2. CASE QuietStep(Protocol)
            BY <1>5, <3>2 DEF QuietStep, PutLabels, GetLabels, Placed, Seeking, Giving, Taking
        <3>3. ~GetSet(Protocol) /\ ~GetClear(Protocol) /\ ~GetReset(Protocol)
            BY <1>5 DEF GetSet, GetClear, GetReset, Goto, PutLabels
        <3> QED
            BY <1>1, <1>2, <3>1, <3>2, <3>3, StepKinds
    <2>4. at[Protocol] \in Outputs
        BY <1>3, <2>1
    <2>5. \A m \in DOMAIN r.ins : put'[r.ins[m]] # Null
        BY <1>3, <2>2, <2>3, <2>4, PortFacts
    <2>6. \A m \in DOMAIN r.outs : m >= n => put'[r.outs[m].port] = Null
        <3> SUFFICES ASSUME NEW m \in DOMAIN r.outs, m >= n PROVE put'[r.outs[m].port] = Null
            OBVIOUS
        <3>1. m # n - 1
            BY <1>3
        <3>2. r.outs[m].port # at[Protocol] /\ r.outs[m].port \in Ports
            BY <1>3, <2>1, <3>1, PortFacts
        <3> QED
            BY <2>2, <2>3, <3>2
    <2>7. Giving' => put'[at'[Protocol]] = Null /\ reg'[Protocol] = Term(r.outs[n - 1].from)'
        BY <1>1, <2>3 DEF SlotsKnown, Term, r
    <2>8. SlotsKnown'
        BY <1>1, <2>1, <2>3, <2>5, <2>6, <2>7 DEF SlotsKnown, r
    <2>9. RunCallsOK'
        BY <1>1, <2>1, <2>3 DEF RunCallsOK, InPut, r
    <2> QED
        BY <2>8, <2>9
<1>6. CASE pc[Protocol] \in GetLabels /\ ~WaitReturns(Protocol)
    <2>1. run = "gets" /\ n - 1 \in DOMAIN r.ins /\ at[Protocol] = r.ins[n - 1]
        BY <1>6 DEF RunCallsOK, InPut, InGet, PutLabels, GetLabels, r
    <2>2. \A m \in DOMAIN r.ins : m >= n => put[r.ins[m]] # Null
        BY <2>1 DEF SlotsKnown, r
    <2>3. /\ pc'[Protocol] \in GetLabels \cup {"idle"} /\ at' = at
          /\ \A p \in Ports : p # at[Protocol] => put'[p] = put[p]
          /\ \/ ~Taking'
             \/ Taking /\ put' = put
          /\ ~Giving'
        <3>1. CASE GetClear(Protocol)
            BY <1>2, <3>1, ProtocolAssumption DEF GetClear, Goto, TypeOK, PutLabels, GetLabels, Giving, Taking
        <3>2. CASE GetSet(Protocol) \/ GetReset(Protocol)
            BY <1>2, <3>2, ProtocolAssumption DEF GetSet, GetReset, Goto, TypeOK, PutLabels, GetLabels, Giving, Taking
        <3>3. CASE QuietStep(Protocol)
            BY <1>6, <3>3 DEF QuietStep, PutLabels, GetLabels, Placed, Seeking, Giving, Taking
        <3>4. ~PutWrite(Protocol)
            BY <1>6 DEF PutWrite, Goto, GetLabels
        <3> QED
            BY <1>1, <1>2, <3>1, <3>2, <3>3, <3>4, StepKinds
    <2>4. \A m \in DOMAIN r.ins : m >= n => put'[r.ins[m]] # Null
        <3> SUFFICES ASSUME NEW m \in DOMAIN r.ins, m >= n PROVE put'[r.ins[m]] # Null
            OBVIOUS
        <3>1. m # n - 1
            BY <1>3
        <3>2. r.ins[m] # at[Protocol] /\ r.ins[m] \in Ports
            BY <1>3, <2>1, <3>1, PortFacts
        <3> QED
            BY <2>2, <2>3, <3>2
    <2>5. Taking' => put'[at'[Protocol]] # Null
        BY <2>3 DEF SlotsKnown
    <2>6. SlotsKnown'
        BY <1>1, <2>1, <2>3, <2>4, <2>5 DEF SlotsKnown, r
    <2>7. RunCallsOK'
        BY <1>1, <2>1, <2>3 DEF RunCallsOK, InGet, r
    <2> QED
        BY <2>6, <2>7
<1>7. pc[Protocol] \in Labels
    BY <1>1, <1>2 DEF TypeOK
<1> QED
    BY <1>4, <1>5, <1>6, <1>7 DEF Labels

\* The other threads leave alone what the protocol knows of its slots.
LEMMA OthersInCall ==
    ASSUME NEW c \in Components, c # Protocol, AnyStep(c),
           PortsOK, RunTypeOK, RunCallsOK, SlotsKnown, UNCHANGED <<runVars, mem>>
    PROVE  RunCallsOK' /\ SlotsKnown'
<1> DEFINE r == Rules[k]
<1>1. /\ Protocol \in Components /\ IsRule(r) /\ Rules[k]' = r /\ GuardReads(r)' = GuardReads(r)
      /\ n' = n /\ run' = run /\ k' = k /\ mem' = mem
    BY ProtocolAssumption, RuleFacts DEF runVars, GuardReads
<1>2. TypeOK /\ CallOK(c) /\ SlotOK(c)
    BY <1>1 DEF PortsOK, CallsOK, SlotsOK
<1>3. pc'[Protocol] = pc[Protocol] /\ at'[Protocol] = at[Protocol] /\ reg'[Protocol] = reg[Protocol]
    BY <1>1, <1>2, StepKinds DEF Untouched
<1>4. /\ \A p \in Inputs : put[p] # Null => put'[p] = put[p]
      /\ \A p \in Outputs : put[p] = Null => put'[p] = Null
    BY <1>2, OthersKeepSlots
<1>5. /\ \A m \in DOMAIN r.outs : r.outs[m].port \in Outputs /\ r.outs[m].from \in Sources(r)
      /\ \A m \in DOMAIN r.ins : r.ins[m] \in Inputs
      /\ \A m \in DOMAIN GuardReads(r) :
            LET x == GuardReads(r)[m] IN
            \/ x.field \in {"get", "free"} /\ x.port \in Outputs
            \/ x.field = "offer" /\ x.port \in Inputs
    BY <1>1, RulePorts, GuardReadsAre
<1> HIDE DEF r
<1>6. ASSUME NEW m \in DOMAIN GuardReads(r), StillHolds(GuardReads(r)[m])
      PROVE  StillHolds(GuardReads(r)[m])'
    <2>1. GuardReads(r)[m]' = GuardReads(r)[m]
        BY <1>1
    <2> QED
        BY <1>4, <1>5, <1>6, <2>1 DEF StillHolds, ReadHolds
<1>7. RunCallsOK'
    BY <1>1, <1>3 DEF RunCallsOK, InPut, InGet, r
<1>8. Giving => put'[at[Protocol]] = Null /\ reg[Protocol] = Term(r.outs[n - 1].from)'
    <2> SUFFICES ASSUME Giving PROVE put'[at[Protocol]] = Null /\ reg[Protocol] = Term(r.outs[n - 1].from)'
        OBVIOUS
    <2>1. run = "puts" /\ n - 1 \in DOMAIN r.outs /\ at[Protocol] = r.outs[n - 1].port
        BY DEF Giving, RunCallsOK, InPut, InGet, PutLabels, GetLabels, r
    <2>2. put[at[Protocol]] = Null /\ reg[Protocol] = Term(r.outs[n - 1].from)
        BY DEF SlotsKnown, r
    <2>3. \A m \in DOMAIN r.ins : put[r.ins[m]] # Null
        BY <2>1 DEF SlotsKnown, r
    <2>4. Term(r.outs[n - 1].from)' = Term(r.outs[n - 1].from)
        <3>1. r.outs[n - 1].from \in Sources(r)
            BY <1>5, <2>1
        <3>2. (r.outs[n - 1].from)' = r.outs[n - 1].from
            BY <1>1 DEF r
        <3>3. CASE r.outs[n - 1].from \in Cells
            BY <1>1, <3>2, <3>3 DEF Term
        <3>4. CASE r.outs[n - 1].from \notin Cells
            <4>1. PICK m \in DOMAIN r.ins : r.outs[n - 1].from = r.ins[m]
                BY <3>1, <3>4 DEF Sources
            <4>2. put'[r.ins[m]] = put[r.ins[m]]
                BY <1>4, <1>5, <2>3
            <4> QED
                BY <3>2, <3>4, <4>1, <4>2 DEF Term
        <3> QED
            BY <3>3, <3>4
    <2> QED
        BY <1>4, <1>5, <2>1, <2>2, <2>4
<1>9. Taking => put'[at[Protocol]] # Null
    <2> SUFFICES ASSUME Taking PROVE put'[at[Protocol]] # Null
        OBVIOUS
    <2>1. n - 1 \in DOMAIN r.ins /\ at[Protocol] = r.ins[n - 1]
        BY DEF Taking, RunCallsOK, InPut, InGet, PutLabels, GetLabels, r
    <2>2. put[at[Protocol]] # Null
        BY DEF SlotsKnown
    <2> QED
        BY <1>4, <1>5, <2>1, <2>2
<1>10. (Giving <=> Giving') /\ (Taking <=> Taking') /\ r' = r
    BY <1>1, <1>3 DEF Giving, Taking, r
<1>11. run \in {"fire", "check"} =>
            \A m \in DOMAIN GuardReads(r) : m < n => StillHolds(GuardReads(r)[m])'
    BY <1>6 DEF SlotsKnown, r
<1>12. /\ run = "puts" => /\ \A m \in DOMAIN r.ins : put'[r.ins[m]] # Null
                          /\ \A m \in DOMAIN r.outs : m >= n => put'[r.outs[m].port] = Null
       /\ run = "gets" => \A m \in DOMAIN r.ins : m >= n => put'[r.ins[m]] # Null
    BY <1>4, <1>5 DEF SlotsKnown, r
<1>13. SlotsKnown'
    BY <1>1, <1>3, <1>8, <1>9, <1>10, <1>11, <1>12 DEF SlotsKnown, r
<1> QED
    BY <1>7, <1>13

-----------------------------------------------------------------------------
(* The search for an enabled rule, and the notify that ends the sleep.       *)

LEMMA BusyStep ==
    ASSUME NEW c \in Components, PutStep(c) \/ GetStep(c)
    PROVE  pc[c] # "idle" /\ AnyStep(c)
BY DEF PutStep, GetStep, AnyStep, PutSpin, PutWrite, PutActivate, PutTest, PutSync, PutLoop,
       PutSuspend, PutWake, GetSet, GetActivate, GetTest, GetSync, GetLoop, GetSuspend, GetWake,
       GetRead, GetClear, GetReset, GetNotify, Branch, Goto

\* Only its own thread waits on the monitor of a component.
LEMMA WaitingGrows ==
    ASSUME NEW c \in Components, AnyStep(c), TypeOK
    PROVE  waiting' \subseteq waiting \cup {c}
<1> DEFINE Goal == waiting' \subseteq waiting \cup {c}
<1> SUFFICES Goal
    OBVIOUS
<1>1. ASSUME NEW p \in Ports, NEW d \in Data, CallPut(c, p, d) PROVE Goal
    BY <1>1 DEF CallPut, monitor
<1>2. ASSUME NEW p \in Ports, CallGet(c, p) PROVE Goal
    BY <1>2 DEF CallGet, monitor
<1>3. CASE PutSpin(c) \/ PutWrite(c) \/ PutTest(c) \/ PutSync(c) \/ PutLoop(c) \/ PutWake(c)
    BY <1>3 DEF PutSpin, PutWrite, PutTest, PutSync, PutLoop, PutWake, monitor
<1>4. CASE PutActivate(c) \/ GetActivate(c) \/ GetNotify(c) \/ WaitReturns(c)
    BY <1>4 DEF PutActivate, GetActivate, GetNotify, WaitReturns, Activate
<1>5. CASE PutSuspend(c) \/ GetSuspend(c)
    BY <1>5 DEF PutSuspend, GetSuspend
<1>6. CASE GetSet(c) \/ GetTest(c) \/ GetSync(c) \/ GetLoop(c) \/ GetWake(c) \/ GetRead(c)
           \/ GetClear(c) \/ GetReset(c)
    BY <1>6 DEF GetSet, GetTest, GetSync, GetLoop, GetWake, GetRead, GetClear, GetReset, monitor
<1> HIDE DEF Goal
<1> QED
    BY <1>1, <1>2, <1>3, <1>4, <1>5, <1>6 DEF AnyStep, PutStep, GetStep

\* A thread on its way to activate() the protocol stays so until it has.
LEMMA ActivatorStep ==
    ASSUME NEW c \in Components, AnyStep(c), TypeOK, WillActivate(c)
    PROVE  WillActivate(c)' \/ (~locked[Protocol] /\ Protocol \notin waiting')
<1> DEFINE Goal == WillActivate(c)' \/ (~locked[Protocol] /\ Protocol \notin waiting')
<1> SUFFICES Goal
    OBVIOUS
<1> USE DEF WillActivate
<1>1. ASSUME NEW p \in Ports, NEW d \in Data, CallPut(c, p, d) PROVE Goal
    BY <1>1 DEF CallPut, Goto
<1>2. ASSUME NEW p \in Ports, CallGet(c, p) PROVE Goal
    BY <1>2 DEF CallGet, Goto
<1>3. CASE PutActivate(c)
    BY <1>3 DEF PutActivate, Goto, Activate
<1>4. CASE GetActivate(c)
    BY <1>4 DEF GetActivate, Goto, Activate
<1>5. CASE GetNotify(c)
    BY <1>5 DEF GetNotify, Goto, Activate
<1>6. CASE GetReset(c)
    BY <1>6 DEF GetReset, Goto, TypeOK
<1>7. CASE WaitReturns(c)
    BY <1>7 DEF WaitReturns, thread
<1>8. ~(PutSpin(c) \/ PutWrite(c) \/ PutTest(c) \/ PutSync(c) \/ PutLoop(c) \/ PutSuspend(c)
        \/ PutWake(c))
    BY DEF PutSpin, PutWrite, PutTest, PutSync, PutLoop, PutSuspend, PutWake, Branch, Goto
<1>9. ~(GetSet(c) \/ GetTest(c) \/ GetSync(c) \/ GetLoop(c) \/ GetSuspend(c) \/ GetWake(c)
        \/ GetRead(c) \/ GetClear(c))
    BY DEF GetSet, GetTest, GetSync, GetLoop, GetSuspend, GetWake, GetRead, GetClear, Branch, Goto
<1> HIDE DEF Goal
<1> QED
    BY <1>1, <1>2, <1>3, <1>4, <1>5, <1>6, <1>7, <1>8, <1>9 DEF AnyStep, PutStep, GetStep

\* A step that makes a read of a guard true is followed by an activate().
LEMMA ReadBecomesTrue ==
    ASSUME NEW c \in Components, c # Protocol, AnyStep(c), TypeOK, CallOK(c), SlotOK(c),
           NEW x, \/ x.field \in {"get", "free"} /\ x.port \in Outputs
                  \/ x.field = "offer" /\ x.port \in Inputs,
           ReadHolds(x)', ~ReadHolds(x)
    PROVE  WillActivate(c)'
<1>1. x.port \in Ports
    BY PortFacts
<1>2. CASE x.field = "get"
    <2>1. get'[x.port] /\ ~get[x.port] /\ Prod[x.port] = Protocol
        BY <1>2, PortFacts DEF ReadHolds, Outputs, Inputs
    <2>2. x.port = at[c] /\ GetSet(c)
        BY <1>1, <2>1, GetField
    <2>3. pc'[c] = "get_activate" /\ at' = at
        BY <2>2 DEF GetSet, Goto, TypeOK
    <2> QED
        BY <2>1, <2>2, <2>3 DEF WillActivate
<1>3. CASE x.field = "free"
    <2>1. put'[x.port] = Null /\ put[x.port] # Null /\ Prod[x.port] = Protocol
        BY <1>3 DEF ReadHolds, Outputs
    <2>2. x.port = at[c] /\ GetClear(c)
        BY <1>1, <2>1, PutField
    <2>3. pc'[c] = "get_reset" /\ at' = at
        BY <2>2 DEF GetClear, Goto, TypeOK
    <2> QED
        BY <2>1, <2>2, <2>3 DEF WillActivate
<1>4. CASE x.field = "offer"
    <2>1. put'[x.port] # Null /\ put[x.port] = Null /\ Cons[x.port] = Protocol
        BY <1>4 DEF ReadHolds, Inputs
    <2>2. x.port = at[c] /\ PutWrite(c)
        BY <1>1, <2>1, PutField
    <2>3. pc'[c] = "put_activate" /\ at' = at
        BY <2>2 DEF PutWrite, Goto, TypeOK
    <2> QED
        BY <2>1, <2>2, <2>3 DEF WillActivate
<1> QED
    BY <1>2, <1>3, <1>4

\* While the protocol cannot be notified, no rule becomes enabled unseen.
LEMMA MissedStep ==
    ASSUME NEW c \in Components, c # Protocol, AnyStep(c), PortsOK, RunTypeOK, mem' = mem,
           locked[Protocol] \/ Protocol \in waiting', NEW l, NoneMissed(l)
    PROVE  (NoneMissed(l))'
<1>1. Protocol \in Components /\ TypeOK /\ CallOK(c) /\ SlotOK(c)
    BY ProtocolAssumption DEF PortsOK, CallsOK, SlotsOK
<1>2. CASE \E q \in Components : WillActivate(q)
    <2>1. PICK q \in Components : WillActivate(q)
        BY <1>2
    <2>2. CASE q = c
        BY <1>1, <2>1, <2>2, ActivatorStep DEF NoneMissed
    <2>3. CASE q # c
        <3>1. pc'[q] = pc[q] /\ at'[q] = at[q]
            BY <1>1, <2>3, StepKinds DEF Untouched
        <3>2. WillActivate(q)'
            BY <2>1, <3>1 DEF WillActivate
        <3> QED
            BY <3>2 DEF NoneMissed
    <2> QED
        BY <2>2, <2>3
<1>3. CASE \A m \in DOMAIN Rules : m <= l => ~RuleEnabled(Rules[m])
    <2>1. CASE \A m \in DOMAIN Rules : m <= l => ~(RuleEnabled(Rules[m]))'
        BY <2>1 DEF NoneMissed
    <2>2. ASSUME NEW m \in DOMAIN Rules, m <= l, (RuleEnabled(Rules[m]))' PROVE WillActivate(c)'
        <3>1. IsRule(Rules[m]) /\ ~RuleEnabled(Rules[m])
            BY <1>3, <2>2, ProtocolAssumption
        <3>2. MemoryTest(Rules[m])
            BY <2>2 DEF RuleEnabled, MemoryTest
        <3>3. GuardReads(Rules[m])' = GuardReads(Rules[m])
            BY DEF GuardReads
        <3>4. PICK l1 \in DOMAIN GuardReads(Rules[m]) : ~ReadHolds(GuardReads(Rules[m])[l1])
            BY <3>1, <3>2 DEF RuleEnabled
        <3>5. (ReadHolds(GuardReads(Rules[m])[l1]))'
            BY <2>2, <3>3, <3>4 DEF RuleEnabled
        <3>9. PICK x : x = GuardReads(Rules[m])[l1]
            OBVIOUS
        <3>6. \/ x.field \in {"get", "free"} /\ x.port \in Outputs
              \/ x.field = "offer" /\ x.port \in Inputs
            BY <3>1, <3>4, <3>9, GuardReadsAre
        <3>10. (GuardReads(Rules[m])[l1])' = x
            BY <3>3, <3>9
        <3>7. ReadHolds(x)'
            BY <3>5, <3>10, Zenon DEF ReadHolds
        <3>8. ~ReadHolds(x)
            BY <3>4, <3>9, Zenon
        <3> QED
            BY <1>1, <3>6, <3>7, <3>8, ReadBecomesTrue
    <2> QED
        BY <2>1, <2>2 DEF NoneMissed
<1> QED
    BY <1>2, <1>3 DEF NoneMissed

-----------------------------------------------------------------------------
(* The steps of run(): one lemma per action, each for the whole invariant.   *)

\* What becomes of the ports when run() moves but no thread does.
LEMMA PortsStutter ==
    ASSUME PortsOK, UNCHANGED portVars,
           run \in {"check", "suspend"} <=> run' \in {"check", "suspend"}
    PROVE  PortsOK'
BY DEF PortsOK, portVars, TypeOK, CallsOK, CallOK, GetOK, SlotsOK, SlotOK, NothingLost, LogOK,
       ProtocolMonitorsOK, RunLockOK, LockOK, ProducerOK, ConsumerOK, ConsumerWillBeWoken,
       NoGetSeen, Asleep, Inside

\* What becomes of them when run() enters or leaves its monitor.
LEMMA PortsMonitor ==
    ASSUME PortsOK, pc[Protocol] = "idle",
           UNCHANGED <<port, thread, history>>,
           \E b \in BOOLEAN : /\ locked' = [locked EXCEPT ![Protocol] = b]
                              /\ b <=> run' \in {"check", "suspend"},
           waiting' = waiting \/ waiting' = waiting \cup {Protocol}
    PROVE  PortsOK'
<1> USE ProtocolAssumption DEF port, thread, history
<1>1. PICK b \in BOOLEAN : /\ locked' = [locked EXCEPT ![Protocol] = b]
                           /\ b <=> run' \in {"check", "suspend"}
    OBVIOUS
<1>2. TypeOK'
    BY <1>1 DEF PortsOK, TypeOK
<1>3. CallsOK' /\ SlotsOK' /\ NothingLost'
    BY DEF PortsOK, CallsOK, CallOK, GetOK, SlotsOK, SlotOK, NothingLost, LogOK, Inside
<1>4. RunLockOK'
    <2>1. locked'[Protocol] <=> b
        BY <1>1 DEF PortsOK, TypeOK
    <2> QED
        BY <1>1, <2>1 DEF RunLockOK, LockLabels
<1>5. ASSUME NEW q \in Components, q # Protocol PROVE LockOK(q)'
    <2>1. locked'[q] = locked[q]
        BY <1>1, <1>5 DEF PortsOK, TypeOK
    <2> QED
        BY <1>5, <2>1 DEF PortsOK, ProtocolMonitorsOK, LockOK
<1>6. ASSUME NEW q \in Components PROVE ProducerOK(q)' /\ ConsumerOK(q)'
    <2>1. ProducerOK(q) /\ ConsumerOK(q)
        BY DEF PortsOK, ProtocolMonitorsOK
    <2>2. pc[q] \in {"put_wait", "get_wait"} => (q \in waiting' <=> q \in waiting)
        OBVIOUS
    <2> QED
        BY <2>1, <2>2 DEF ProducerOK, ConsumerOK, ConsumerWillBeWoken, NoGetSeen, Asleep, Inside
<1> QED
    BY <1>2, <1>3, <1>4, <1>5, <1>6 DEF PortsOK, ProtocolMonitorsOK

RunOK == RunTypeOK /\ RunCallsOK /\ SlotsKnown /\ SearchOK

\* What was missed depends on the slots, the threads and the memory alone.
LEMMA MissedStutter ==
    ASSUME UNCHANGED <<put, get, pc, at, mem>>, NEW l, NoneMissed(l)
    PROVE  NoneMissed(l)'
<1>1. ASSUME NEW r, RuleEnabled(r)' PROVE RuleEnabled(r)
    <2>1. GuardReads(r)' = GuardReads(r)
        BY DEF GuardReads
    <2>2. \A x : ReadHolds(x)' <=> ReadHolds(x)
        BY Zenon DEF ReadHolds
    <2>3. MemoryTest(r)
        BY <1>1 DEF RuleEnabled, MemoryTest
    <2>4. \A m \in DOMAIN GuardReads(r) : ReadHolds(GuardReads(r)[m])'
        BY <1>1, <2>1 DEF RuleEnabled
    <2>5. ASSUME NEW m \in DOMAIN GuardReads(r) PROVE ReadHolds(GuardReads(r)[m])
        <3>1. PICK x : x = GuardReads(r)[m]
            OBVIOUS
        <3>2. (GuardReads(r)[m])' = x
            BY <2>1, <3>1
        <3>3. ReadHolds(x)'
            BY <2>4, <3>2, Zenon DEF ReadHolds
        <3> QED
            BY <2>2, <3>1, <3>3
    <2> QED
        BY <2>3, <2>5 DEF RuleEnabled
<1>2. \A q : WillActivate(q) => WillActivate(q)'
    BY DEF WillActivate
<1> QED
    BY <1>1, <1>2 DEF NoneMissed

LEMMA SearchStutter ==
    ASSUME UNCHANGED <<put, get, pc, at, mem, run, k>>, waiting' \subseteq waiting, SearchOK
    PROVE  SearchOK'
<1>1. CASE run = "check"
    <2>1. PICK l : l = k - 1
        OBVIOUS
    <2>2. NoneMissed(l)'
        BY <1>1, <2>1, MissedStutter DEF SearchOK
    <2> QED
        BY <1>1, <2>1, <2>2 DEF SearchOK, NoneMissed
<1>2. CASE run = "suspend" \/ (run = "wait" /\ Protocol \in waiting')
    <2>1. NoneMissed(NRules)'
        BY <1>2, MissedStutter DEF SearchOK
    <2> QED
        BY <1>2, <2>1 DEF SearchOK
<1>3. CASE run \notin {"check", "suspend"} /\ ~(run = "wait" /\ Protocol \in waiting')
    BY <1>3 DEF SearchOK
<1> QED
    BY <1>1, <1>2, <1>3

\* The counters of run() stay in range.
LEMMA AdvanceStep ==
    ASSUME RunTypeOK, Advance, mem' = mem, pc'[Protocol] = "idle"
    PROVE  RunOK'
<1>1. NRules \in Nat \ {0}
    BY ProtocolAssumption
<1>2. i' \in 0 .. NRules - 1 /\ j' \in 0 .. NRules - 1
    <2> USE <1>1 DEF RunTypeOK, Advance
    <2> HIDE DEF NRules
    <2>1. (i + 1) % NRules \in 0 .. NRules - 1 /\ (j + 1) % NRules \in 0 .. NRules - 1
        OBVIOUS
    <2> QED
        BY <2>1
<1>3. RunTypeOK'
    BY <1>2 DEF RunTypeOK, Advance
<1>4. RunCallsOK' /\ SlotsKnown' /\ SearchOK'
    BY DEF Advance, RunCallsOK, SlotsKnown, Giving, Taking, PutLabels, GetLabels, SearchOK
<1> QED
    BY <1>3, <1>4 DEF RunOK

\* A rule whose guard is not true is not enabled.
LEMMA GuardStepKnows ==
    ASSUME RunTypeOK, SlotsKnown, run \in {"fire", "check"}, pc[Protocol] = "idle", GuardStep,
           UNCHANGED <<portVars, mem>>
    PROVE  RunTypeOK' /\ RunCallsOK' /\ SlotsKnown'
<1> DEFINE r == Rules[k]
           reads == GuardReads(r)
<1>1. /\ IsRule(r) /\ reads' = reads /\ n \in Nat \ {0} /\ DOMAIN reads = 1 .. Len(reads)
      /\ Len(reads) \in Nat
    <2>1. IsRule(r) /\ n \in Nat \ {0}
        BY RuleFacts DEF RunTypeOK
    <2>2. reads' = reads
        BY DEF GuardStep, GuardReads
    <2> QED
        BY <2>1, <2>2, GuardReadsAre
<1>2. ReadHolds(reads[n]) /\ n' = n + 1 /\ run' = run /\ k' = k /\ i' = i /\ j' = j /\ n <= Len(reads)
    BY DEF GuardStep
<1> HIDE DEF r, reads
<1>3. \A m \in DOMAIN reads : m < n => StillHolds(reads[m])
    BY DEF SlotsKnown, r, reads
<1>4. \A m \in DOMAIN reads : m < n + 1 => StillHolds(reads[m])
    <2> SUFFICES ASSUME NEW m \in DOMAIN reads, m < n + 1 PROVE StillHolds(reads[m])
        OBVIOUS
    <2>1. m < n \/ m = n
        BY <1>1
    <2> QED
        BY <1>2, <1>3, <2>1 DEF StillHolds
<1>5. \A m \in DOMAIN reads : StillHolds(reads[m]) => StillHolds(reads[m])'
    BY <1>1 DEF StillHolds, ReadHolds, portVars
<1>6. \A m \in DOMAIN reads : m < n' => StillHolds(reads[m])'
    BY <1>2, <1>4, <1>5
<1>7. pc' = pc
    BY DEF portVars
<1>8. SlotsKnown'
    BY <1>2, <1>6, <1>7 DEF SlotsKnown, Giving, Taking, PutLabels, GetLabels, r, reads
<1>9. RunTypeOK' /\ RunCallsOK'
    BY <1>1, <1>2, <1>7 DEF RunTypeOK, RunCallsOK
<1> QED
    BY <1>8, <1>9

LEMMA FireTestStep ==
    ASSUME PortsOK, RunOK, FireTest
    PROVE  PortsOK' /\ RunOK'
<1> DEFINE r == Rules[k]
<1>1. UNCHANGED portVars /\ mem' = mem /\ pc[Protocol] = "idle" /\ run = "fire" /\ pc' = pc
    BY DEF FireTest, At, portVars
<1>2. CASE GuardStep
    <2>1. RunTypeOK' /\ RunCallsOK' /\ SlotsKnown'
        BY <1>1, <1>2, GuardStepKnows DEF RunOK
    <2>2. run' = "fire"
        BY <1>1, <1>2 DEF GuardStep
    <2> QED
        BY <1>1, <2>1, <2>2, PortsStutter DEF RunOK, SearchOK
<1>3. CASE GuardTrue /\ run' = "puts" /\ n' = 1 /\ UNCHANGED <<i, j, k>>
    <2>1. IsRule(r) /\ n \in Nat
        BY RuleFacts DEF RunOK, RunTypeOK
    <2>2. \A m \in DOMAIN GuardReads(r) : StillHolds(GuardReads(r)[m])
        <3>1. \A m \in DOMAIN GuardReads(r) : m < n => StillHolds(GuardReads(r)[m])
            BY <1>1 DEF RunOK, SlotsKnown
        <3>2. \A m \in DOMAIN GuardReads(r) : m < n
            <4>1. n > Len(GuardReads(r)) /\ DOMAIN GuardReads(r) = 1 .. Len(GuardReads(r))
                  /\ Len(GuardReads(r)) \in Nat
                BY <1>3, <2>1, GuardReadsAre DEF GuardTrue
            <4> QED
                BY <2>1, <4>1
        <3> QED
            BY <3>1, <3>2
    <2>3. \A m \in DOMAIN r.ins : put[r.ins[m]] # Null
        <3> SUFFICES ASSUME NEW m \in DOMAIN r.ins PROVE put[r.ins[m]] # Null
            OBVIOUS
        <3>1. PICK l \in DOMAIN GuardReads(r) : GuardReads(r)[l] = [field |-> "offer", port |-> r.ins[m]]
            BY <2>1, GuardReadsAre
        <3>2. StillHolds([field |-> "offer", port |-> r.ins[m]])
            BY <2>2, <3>1
        <3> QED
            BY <3>2 DEF StillHolds, ReadHolds
    <2>4. \A m \in DOMAIN r.outs : put[r.outs[m].port] = Null
        <3> SUFFICES ASSUME NEW m \in DOMAIN r.outs PROVE put[r.outs[m].port] = Null
            OBVIOUS
        <3>1. PICK l \in DOMAIN GuardReads(r) :
                    GuardReads(r)[l] = [field |-> "free", port |-> r.outs[m].port]
            BY <2>1, GuardReadsAre
        <3>2. StillHolds([field |-> "free", port |-> r.outs[m].port])
            BY <2>2, <3>1
        <3> QED
            BY <3>2 DEF StillHolds, ReadHolds
    <2>5. SlotsKnown'
        BY <1>1, <1>3, <2>3, <2>4 DEF SlotsKnown, portVars, Giving, Taking, PutLabels, GetLabels
    <2>6. RunTypeOK' /\ RunCallsOK' /\ SearchOK'
        BY <1>1, <1>3 DEF RunOK, RunTypeOK, RunCallsOK, SearchOK
    <2>7. PortsOK'
        BY <1>1, <1>3, PortsStutter
    <2> QED
        BY <2>5, <2>6, <2>7 DEF RunOK
<1>4. CASE GuardFalse /\ Advance
    <2>1. RunOK'
        BY <1>1, <1>4, AdvanceStep DEF RunOK
    <2>2. PortsOK'
        BY <1>1, <1>4, PortsStutter DEF Advance
    <2> QED
        BY <2>1, <2>2
<1> QED
    BY <1>2, <1>3, <1>4 DEF FireTest

\* FirePut calls put() with an output of the rule and a datum that the rule has at hand.
LEMMA PutIsCall ==
    ASSUME PortsOK, RunOK, FirePut
    PROVE  AnyStep(Protocol)
<1> DEFINE r == Rules[k]
           p == r.outs[n].port
           d == Term(r.outs[n].from)
<1>1. n <= Len(r.outs) /\ CallPut(Protocol, p, d)
    BY DEF FirePut
<1>2. IsRule(r) /\ n \in Nat \ {0}
    BY RuleFacts DEF RunOK, RunTypeOK
<1>3. n \in DOMAIN r.outs
    BY <1>1, <1>2, RulePorts
<1>4. p \in Ports /\ r.outs[n].from \in Cells \cup Ports
    <2>1. p \in Outputs /\ r.outs[n].from \in Sources(r)
        BY <1>2, <1>3, RulePorts
    <2>2. Sources(r) \subseteq Cells \cup Ports
        BY <1>2, RulePorts, PortFacts DEF Sources
    <2> QED
        BY <2>1, <2>2, PortFacts
<1>5. d \in Data
    BY <1>1, <1>4 DEF CallPut, Term, RunOK, RunTypeOK, PortsOK, TypeOK
<1> HIDE DEF p, d
<1> QED
    BY <1>1, <1>4, <1>5 DEF AnyStep

LEMMA FirePutStep ==
    ASSUME PortsOK, RunOK, FirePut
    PROVE  PortsOK' /\ RunOK'
<1> DEFINE r == Rules[k]
           p == r.outs[n].port
           d == Term(r.outs[n].from)
<1>1. /\ run = "puts" /\ pc[Protocol] = "idle" /\ n <= Len(r.outs) /\ CallPut(Protocol, p, d)
      /\ n' = n + 1 /\ run' = run /\ i' = i /\ j' = j /\ k' = k /\ mem' = mem
    BY DEF FirePut, At
<1>2. IsRule(r) /\ n \in Nat \ {0} /\ Protocol \in Components
    BY RuleFacts, ProtocolAssumption DEF RunOK, RunTypeOK
<1>3. n \in DOMAIN r.outs /\ DOMAIN r.outs \subseteq Nat
    BY <1>1, <1>2, RulePorts
<1>4. AnyStep(Protocol)
    BY PutIsCall
<1> HIDE DEF p, d
<1>5. PortsOK'
    BY <1>1, <1>2, <1>4, PortsStep
<1>6. /\ pc'[Protocol] = "put_spin" /\ at'[Protocol] = p /\ reg'[Protocol] = d /\ put' = put
      /\ put[p] = Null
    <2>1. put[p] = Null
        BY <1>1, <1>2, <1>3 DEF RunOK, SlotsKnown, p
    <2> QED
        BY <1>1, <1>2, <2>1 DEF CallPut, Goto, PortsOK, TypeOK, port
<1>7. RunTypeOK' /\ SearchOK'
    BY <1>1, <1>2 DEF RunOK, RunTypeOK, SearchOK
<1>8. n' - 1 = n /\ r' = r /\ d = Term(r.outs[n - 1].from)' /\ p = r.outs[n].port
    <2>1. n' - 1 = n /\ r' = r
        BY <1>1, <1>2
    <2>2. Term(r.outs[n - 1].from)' = IF r.outs[n].from \in Cells THEN mem[r.outs[n].from]
                                      ELSE put[r.outs[n].from]
        BY <1>1, <1>6, <2>1 DEF Term
    <2> QED
        BY <2>1, <2>2 DEF Term, p, d
<1> HIDE DEF r
<1>9. RunCallsOK'
    <2>1. InPut(r)'
        BY <1>3, <1>6, <1>8 DEF InPut, PutLabels
    <2> QED
        BY <1>1, <2>1 DEF RunCallsOK, r
<1>10. \A m \in DOMAIN r.outs : m >= n + 1 => m >= n
    BY <1>2, <1>3
<1>11. /\ \A m \in DOMAIN r.ins : put[r.ins[m]] # Null
       /\ \A m \in DOMAIN r.outs : m >= n => put[r.outs[m].port] = Null
    BY <1>1 DEF RunOK, SlotsKnown, r
<1>12. /\ \A m \in DOMAIN r'.ins : put'[r'.ins[m]] # Null
       /\ \A m \in DOMAIN r'.outs : m >= n' => put'[r'.outs[m].port] = Null
       /\ put'[at'[Protocol]] = Null /\ reg'[Protocol] = Term(r.outs[n - 1].from)'
       /\ ~Taking'
    BY <1>1, <1>6, <1>8, <1>10, <1>11 DEF Taking, GetLabels
<1>13. SlotsKnown'
    BY <1>1, <1>12 DEF SlotsKnown, r
<1> QED
    BY <1>5, <1>7, <1>9, <1>13 DEF RunOK

LEMMA FireMemoryStep ==
    ASSUME PortsOK, RunOK, FireMemory
    PROVE  PortsOK' /\ RunOK'
<1> DEFINE r == Rules[k]
<1>1. /\ run = "puts" /\ pc[Protocol] = "idle" /\ run' = "gets" /\ n' = 1
      /\ i' = i /\ j' = j /\ k' = k /\ UNCHANGED portVars
    BY DEF FireMemory, At
<1>2. mem' \in Memories
    <2>1. PICK order \in S!SetToSeqs(DOMAIN r.store) : mem' = Assigned(r, order)
        BY DEF FireMemory
    <2>2. IsRule(r) /\ mem \in Memories /\ put \in [Ports -> Data \cup {Null}]
        BY RuleFacts DEF RunOK, RunTypeOK, PortsOK, TypeOK, Memories
    <2> QED
        BY <2>1, <2>2, UpdateType
<1>3. RunTypeOK' /\ SearchOK'
    BY <1>1, <1>2 DEF RunOK, RunTypeOK, SearchOK, Memories
<1>4. RunCallsOK' /\ SlotsKnown'
    BY <1>1 DEF RunOK, RunCallsOK, SlotsKnown, Giving, Taking, PutLabels, GetLabels, portVars
<1> QED
    BY <1>1, <1>3, <1>4, PortsStutter DEF RunOK

LEMMA FireGetStep ==
    ASSUME PortsOK, RunOK, FireGet
    PROVE  PortsOK' /\ RunOK'
<1> DEFINE r == Rules[k]
           p == r.ins[n]
<1>1. /\ run = "gets" /\ pc[Protocol] = "idle" /\ n <= Len(r.ins) /\ CallGet(Protocol, p)
      /\ n' = n + 1 /\ run' = run /\ i' = i /\ j' = j /\ k' = k /\ mem' = mem
    BY DEF FireGet, At
<1>2. IsRule(r) /\ n \in Nat \ {0} /\ Protocol \in Components
    BY RuleFacts, ProtocolAssumption DEF RunOK, RunTypeOK
<1>3. n \in DOMAIN r.ins /\ DOMAIN r.ins \subseteq Nat /\ p \in Inputs
    BY <1>1, <1>2, RulePorts
<1> HIDE DEF p
<1>4. AnyStep(Protocol)
    BY <1>1, <1>3, PortFacts DEF AnyStep
<1>5. PortsOK'
    BY <1>1, <1>2, <1>4, PortsStep
<1>6. /\ pc'[Protocol] = "get_set" /\ at'[Protocol] = p /\ put' = put /\ put[p] # Null
    BY <1>1, <1>2, <1>3 DEF CallGet, Goto, PortsOK, TypeOK, port, RunOK, SlotsKnown, p
<1>7. RunTypeOK' /\ SearchOK'
    BY <1>1, <1>2 DEF RunOK, RunTypeOK, SearchOK
<1>8. n' - 1 = n /\ r' = r
    BY <1>1, <1>2
<1>9. RunCallsOK'
    BY <1>1, <1>3, <1>6, <1>8 DEF RunCallsOK, InGet, GetLabels, p
<1>10. \A m \in DOMAIN r.ins : m >= n + 1 => m >= n
    BY <1>2, <1>3
<1>11. \A m \in DOMAIN r.ins : m >= n => put[r.ins[m]] # Null
    BY <1>1 DEF RunOK, SlotsKnown
<1>12. SlotsKnown'
    BY <1>1, <1>6, <1>8, <1>10, <1>11 DEF SlotsKnown, Giving
<1> QED
    BY <1>5, <1>7, <1>9, <1>12 DEF RunOK

LEMMA FireDoneStep ==
    ASSUME PortsOK, RunOK, FireDone
    PROVE  PortsOK' /\ RunOK'
<1>1. /\ run = "gets" /\ run' = "sync" /\ Advance /\ UNCHANGED portVars /\ mem' = mem
      /\ pc' = pc /\ pc[Protocol] = "idle"
    BY DEF FireDone, At, Advance, portVars
<1> QED
    BY <1>1, AdvanceStep, PortsStutter DEF RunOK

\* The thread enters its monitor to try the guards from the first rule on.
LEMMA SearchStep ==
    ASSUME PortsOK, RunOK, RunSync \/ RunWake
    PROVE  PortsOK' /\ RunOK'
<1>1. /\ pc[Protocol] = "idle" /\ run' = "check" /\ k' = 1 /\ n' = 1 /\ i' = i /\ j' = j /\ mem' = mem
      /\ UNCHANGED <<port, thread, waiting, history>> /\ Lock(Protocol)
    BY DEF RunSync, RunWake, At
<1>2. PortsOK'
    BY <1>1, PortsMonitor DEF Lock
<1>3. NRules \in Nat \ {0} /\ DOMAIN Rules = 1 .. NRules /\ \A m \in DOMAIN Rules : IsRule(Rules[m])
    BY ProtocolAssumption
<1>4. RunTypeOK'
    BY <1>1, <1>3 DEF RunOK, RunTypeOK
<1>5. RunCallsOK'
    BY <1>1 DEF RunCallsOK, thread
<1>6. SlotsKnown'
    <2>1. DOMAIN GuardReads(Rules[k]') \subseteq Nat \ {0}
        BY <1>1, <1>3, GuardReadsAre
    <2>2. \A m \in DOMAIN GuardReads(Rules[k]') : ~(m < n')
        BY <1>1, <2>1
    <2>3. GuardReads(Rules[k])' = GuardReads(Rules[k]')
        BY DEF GuardReads
    <2> QED
        BY <1>1, <2>2, <2>3 DEF SlotsKnown, Giving, Taking, PutLabels, GetLabels, thread
<1>7. SearchOK'
    <2>1. \A m \in DOMAIN Rules : ~(m <= k' - 1)
        BY <1>1, <1>3
    <2> QED
        BY <1>1, <2>1 DEF SearchOK, NoneMissed
<1> QED
    BY <1>2, <1>4, <1>5, <1>6, <1>7 DEF RunOK

LEMMA RunCheckStep ==
    ASSUME PortsOK, RunOK, RunCheck
    PROVE  PortsOK' /\ RunOK'
<1>1. /\ run = "check" /\ pc[Protocol] = "idle" /\ mem' = mem
      /\ UNCHANGED <<port, thread, waiting, history>> /\ pc' = pc
    BY DEF RunCheck, At, thread
<1>2. /\ NRules \in Nat \ {0} /\ DOMAIN Rules = 1 .. NRules
      /\ \A m \in DOMAIN Rules : IsRule(Rules[m])
      /\ k \in DOMAIN Rules
    BY ProtocolAssumption DEF RunOK, RunTypeOK
<1>3. CASE GuardStep /\ UNCHANGED locked
    <2>1. UNCHANGED portVars
        BY <1>1, <1>3 DEF portVars, port, thread, history
    <2>2. RunTypeOK' /\ RunCallsOK' /\ SlotsKnown'
        BY <1>1, <1>3, <2>1, GuardStepKnows DEF RunOK
    <2>3. run' = run /\ k' = k
        BY <1>3 DEF GuardStep
    <2>4. PortsOK'
        BY <2>1, <2>3, PortsStutter
    <2>5. SearchOK'
        BY <1>1, <2>1, <2>3, SearchStutter DEF RunOK, portVars
    <2> QED
        BY <2>2, <2>4, <2>5 DEF RunOK
<1>4. CASE /\ GuardTrue /\ Unlock(Protocol)
           /\ run' = "fire" /\ k' = ((i + j) % NRules) + 1 /\ n' = 1
           /\ UNCHANGED <<i, j>>
    <2>1. PortsOK'
        BY <1>1, <1>4, PortsMonitor DEF Unlock
    <2>2. k' \in 1 .. NRules
        <3> HIDE DEF NRules
        <3>1. i + j \in Nat
            BY <1>2 DEF RunOK, RunTypeOK
        <3>2. (i + j) % NRules \in 0 .. NRules - 1
            BY <1>2, <3>1
        <3> QED
            BY <1>2, <1>4, <3>2
    <2>3. RunTypeOK'
        BY <1>1, <1>4, <2>2 DEF RunOK, RunTypeOK
    <2>4. SlotsKnown'
        <3>1. DOMAIN GuardReads(Rules[k]') \subseteq Nat \ {0}
            BY <1>2, <2>2, GuardReadsAre
        <3>2. \A m \in DOMAIN GuardReads(Rules[k]') : ~(m < n')
            BY <1>4, <3>1
        <3>3. GuardReads(Rules[k])' = GuardReads(Rules[k]')
            BY DEF GuardReads
        <3> QED
            BY <1>1, <1>4, <3>2, <3>3 DEF SlotsKnown, Giving, Taking, PutLabels, GetLabels
    <2>5. RunCallsOK' /\ SearchOK'
        BY <1>1, <1>4 DEF RunCallsOK, SearchOK
    <2> QED
        BY <2>1, <2>3, <2>4, <2>5 DEF RunOK
<1>5. CASE /\ GuardFalse
           /\ IF k < NRules THEN run' = run /\ k' = k + 1 ELSE run' = "suspend" /\ k' = 1
           /\ n' = 1
           /\ UNCHANGED <<locked, i, j>>
    <2>1. UNCHANGED portVars
        BY <1>1, <1>5 DEF portVars, port, thread, history
    <2>2. PortsOK'
        BY <1>1, <1>5, <2>1, PortsStutter
    <2>3. k' \in DOMAIN Rules
        BY <1>2, <1>5
    <2>4. RunTypeOK'
        BY <1>1, <1>2, <1>5, <2>3 DEF RunOK, RunTypeOK
    <2>5. SlotsKnown'
        <3>1. DOMAIN GuardReads(Rules[k]') \subseteq Nat \ {0}
            BY <1>2, <2>3, GuardReadsAre
        <3>2. \A m \in DOMAIN GuardReads(Rules[k]') : ~(m < n')
            BY <1>5, <3>1
        <3>3. GuardReads(Rules[k])' = GuardReads(Rules[k]')
            BY DEF GuardReads
        <3> QED
            BY <1>1, <1>5, <3>2, <3>3 DEF SlotsKnown, Giving, Taking, PutLabels, GetLabels
    <2>6. ~RuleEnabled(Rules[k])
        <3>1. n \in Nat \ {0} /\ DOMAIN GuardReads(Rules[k]) = 1 .. Len(GuardReads(Rules[k]))
              /\ Len(GuardReads(Rules[k])) \in Nat
            BY <1>2, GuardReadsAre DEF RunOK, RunTypeOK
        <3>2. n <= Len(GuardReads(Rules[k])) => n \in DOMAIN GuardReads(Rules[k])
            BY <3>1
        <3> QED
            BY <1>5, <3>2 DEF GuardFalse, RuleEnabled
    <2>7. NoneMissed(k)
        <3>1. NoneMissed(k - 1)
            BY <1>1 DEF RunOK, SearchOK
        <3>2. \A m \in DOMAIN Rules : m <= k => m <= k - 1 \/ m = k
            BY <1>2
        <3> QED
            BY <2>6, <3>1, <3>2 DEF NoneMissed
    <2>8. ASSUME NEW l, NoneMissed(l) PROVE NoneMissed(l)'
        BY <1>1, <2>1, <2>8, MissedStutter DEF portVars
    <2>9. SearchOK'
        <3>1. CASE k < NRules
            <4>1. run' = "check" /\ k' - 1 = k
                BY <1>1, <1>2, <1>5, <3>1
            <4>2. PICK l : l = k
                OBVIOUS
            <4>3. NoneMissed(l)'
                BY <2>7, <2>8, <4>2
            <4> QED
                BY <4>1, <4>2, <4>3 DEF SearchOK, NoneMissed
        <3>2. CASE ~(k < NRules)
            <4>1. run' = "suspend" /\ k = NRules
                BY <1>1, <1>2, <1>5, <3>2
            <4>2. NoneMissed(NRules)'
                BY <2>7, <2>8, <4>1
            <4> QED
                BY <4>1, <4>2 DEF SearchOK
        <3> QED
            BY <3>1, <3>2
    <2>10. RunCallsOK'
        BY <1>1 DEF RunCallsOK
    <2> QED
        BY <2>2, <2>4, <2>5, <2>9, <2>10 DEF RunOK
<1> QED
    BY <1>3, <1>4, <1>5 DEF RunCheck

LEMMA RunSuspendStep ==
    ASSUME PortsOK, RunOK, RunSuspend
    PROVE  PortsOK' /\ RunOK'
<1>1. /\ run = "suspend" /\ pc[Protocol] = "idle" /\ run' = "wait" /\ Unlock(Protocol)
      /\ UNCHANGED <<port, thread, history>> /\ waiting' = waiting \cup {Protocol}
      /\ UNCHANGED <<i, j, k, n, mem>> /\ pc' = pc /\ at' = at /\ put' = put /\ get' = get
    BY DEF RunSuspend, At, thread, port
<1>2. PortsOK'
    BY <1>1, PortsMonitor DEF Unlock
<1>3. RunTypeOK' /\ RunCallsOK' /\ SlotsKnown'
    BY <1>1 DEF RunOK, RunTypeOK, RunCallsOK, SlotsKnown, Giving, Taking, PutLabels, GetLabels
<1>4. SearchOK'
    BY <1>1 DEF RunOK, SearchOK, NoneMissed, WillActivate, RuleEnabled, MemoryTest, ReadHolds,
        GuardReads
<1> QED
    BY <1>2, <1>3, <1>4 DEF RunOK

\* A step of a thread in a call, of the protocol or of another component.
LEMMA CallsStep ==
    ASSUME NEW c \in Components, AnyStep(c), PortsOK, RunOK, UNCHANGED <<runVars, mem>>,
           c = Protocol => pc[c] # "idle" \/ WaitReturns(c)
    PROVE  PortsOK' /\ RunOK'
<1>1. run' = run /\ i' = i /\ j' = j /\ k' = k /\ n' = n /\ mem' = mem /\ Protocol \in Components
    BY ProtocolAssumption DEF runVars
<1>2. RunTypeOK'
    BY <1>1 DEF RunOK, RunTypeOK
<1>3. run \in {"check", "suspend", "wait"} => pc[Protocol] = "idle"
    BY DEF RunOK, RunCallsOK
<1>4. PortsOK'
    BY <1>1, <1>3, PortsStep
<1>5. TypeOK
    BY DEF PortsOK
<1>6. CASE c = Protocol
    <2>1. RunCallsOK' /\ SlotsKnown'
        BY <1>6, ProtocolInCall DEF RunOK
    <2>2. SearchOK'
        <3>1. CASE run \in {"check", "suspend", "wait"}
            <4>1. WaitReturns(Protocol)
                BY <1>3, <1>6, <3>1
            <4>2. UNCHANGED <<put, get, pc, at>> /\ waiting' \subseteq waiting
                BY <4>1 DEF WaitReturns, thread, port
            <4> QED
                BY <1>1, <4>2, SearchStutter DEF RunOK
        <3>2. CASE run \notin {"check", "suspend", "wait"}
            BY <1>1, <3>2 DEF SearchOK
        <3> QED
            BY <3>1, <3>2
    <2> QED
        BY <1>2, <1>4, <2>1, <2>2 DEF RunOK
<1>7. CASE c # Protocol
    <2>1. RunCallsOK' /\ SlotsKnown'
        BY <1>7, OthersInCall DEF RunOK
    <2>2. run \in {"check", "suspend"} => locked[Protocol]
        BY DEF PortsOK, ProtocolMonitorsOK, RunLockOK
    <2>3. Protocol \in waiting' => Protocol \in waiting
        BY <1>5, <1>7, WaitingGrows
    <2>4. ASSUME NEW l, NoneMissed(l), locked[Protocol] \/ Protocol \in waiting'
          PROVE  NoneMissed(l)'
        BY <1>1, <1>7, <2>4, MissedStep DEF RunOK
    <2>5. SearchOK'
        <3>1. CASE run = "check"
            <4>1. PICK l : l = k - 1
                OBVIOUS
            <4>2. NoneMissed(l)'
                BY <2>2, <2>4, <3>1, <4>1 DEF RunOK, SearchOK
            <4> QED
                BY <1>1, <3>1, <4>1, <4>2 DEF SearchOK, NoneMissed
        <3>2. CASE run = "suspend" \/ (run = "wait" /\ Protocol \in waiting')
            <4>1. NoneMissed(NRules)'
                BY <2>2, <2>3, <2>4, <3>2 DEF RunOK, SearchOK
            <4> QED
                BY <1>1, <3>2, <4>1 DEF SearchOK
        <3>3. CASE run \notin {"check", "suspend"} /\ ~(run = "wait" /\ Protocol \in waiting')
            BY <1>1, <3>3 DEF SearchOK
        <3> QED
            BY <3>1, <3>2, <3>3
    <2> QED
        BY <1>2, <1>4, <2>1, <2>5 DEF RunOK
<1> QED
    BY <1>6, <1>7

-----------------------------------------------------------------------------
\* Every program starts in the invariant.
LEMMA ProtocolInit == Init => ProtocolInv
<1> SUFFICES ASSUME Init PROVE ProtocolInv
    OBVIOUS
<1>1. PortInv /\ pc[Protocol] = "idle" /\ run = "fire"
    BY InitInv, ProtocolAssumption DEF Init, PortInit
<1>2. ProtocolMonitorsOK
    BY <1>1, ProtocolAssumption DEF PortInv, MonitorsOK, ProtocolMonitorsOK, RunLockOK, LockOK
<1>3. NRules \in Nat \ {0} /\ DOMAIN Rules = 1 .. NRules /\ \A m \in DOMAIN Rules : IsRule(Rules[m])
    BY ProtocolAssumption
<1>4. RunTypeOK
    <2>1. 0 \in 0 .. NRules - 1 /\ 1 \in 1 .. NRules
        BY <1>3
    <2> QED
        BY <2>1, ProtocolAssumption DEF Init, RunTypeOK
<1>5. SlotsKnown
    <2>1. k \in DOMAIN Rules /\ n = 1
        BY <1>3 DEF Init
    <2>2. DOMAIN GuardReads(Rules[k]) \subseteq Nat \ {0}
        BY <1>3, <2>1, GuardReadsAre
    <2>3. \A m \in DOMAIN GuardReads(Rules[k]) : ~(m < n)
        BY <2>1, <2>2
    <2> QED
        BY <1>1, <2>3 DEF SlotsKnown, Giving, Taking, PutLabels, GetLabels
<1> QED
    BY <1>1, <1>2, <1>4, <1>5 DEF ProtocolInv, PortInv, RunCallsOK, SearchOK

\* A step of the program, or one that changes nothing, preserves the invariant.
LEMMA ProtocolStep == ProtocolInv /\ [Next]_vars => ProtocolInv'
<1> SUFFICES ASSUME ProtocolInv, [Next]_vars PROVE ProtocolInv'
    OBVIOUS
<1>1. PortsOK /\ RunOK
    BY DEF ProtocolInv, PortsOK, RunOK
<1>2. PortsOK' /\ RunOK' => ProtocolInv'
    BY DEF ProtocolInv, PortsOK, RunOK
<1>3. CASE RunStep
    BY <1>1, <1>2, <1>3, FireTestStep, FirePutStep, FireMemoryStep, FireGetStep, FireDoneStep,
       SearchStep, RunCheckStep, RunSuspendStep DEF RunStep
<1>4. ASSUME NEW c \in Components, PortStep(c) PROVE ProtocolInv'
    BY <1>1, <1>2, <1>4, BusyStep, CallsStep DEF PortStep
<1>5. ASSUME NEW c \in Components, Call(c) PROVE ProtocolInv'
    <2>1. AnyStep(c)
        BY <1>5, StepsAreSteps DEF Call, ThreadStep
    <2> QED
        BY <1>1, <1>2, <1>5, <2>1, CallsStep DEF Call
<1>6. ASSUME NEW c \in Components, Interrupted(c) PROVE ProtocolInv'
    BY <1>1, <1>2, <1>6, CallsStep DEF Interrupted, AnyStep
<1>7. CASE UNCHANGED vars
    <2>1. UNCHANGED <<portVars, run, i, j, k, n, mem>>
        BY <1>7 DEF vars, runVars
    <2>2. PortsOK'
        BY <1>1, <2>1, PortsStutter
    <2>3. RunTypeOK'
        BY <1>1, <2>1 DEF RunOK, RunTypeOK
    <2>4. RunCallsOK'
        BY <1>1, <2>1 DEF RunOK, RunCallsOK, InPut, InGet, portVars
    <2>5. SlotsKnown'
        BY <1>1, <2>1 DEF RunOK, SlotsKnown, StillHolds, ReadHolds, Giving, Taking, Term,
            GuardReads, portVars
    <2>6. SearchOK'
        BY <1>1, <2>1, SearchStutter DEF RunOK, portVars
    <2> QED
        BY <1>2, <2>2, <2>3, <2>4, <2>5, <2>6 DEF RunOK
<1> QED
    BY <1>3, <1>4, <1>5, <1>6, <1>7 DEF Next

\* ProtocolInv holds in every state of every program around a generated
\* protocol (Java.stg), whatever its rules.
THEOREM ProtocolInvariance == Spec => []ProtocolInv
BY ProtocolInit, ProtocolStep, PTL DEF Spec

\* The loop counters of run() stay within the arrays of rules, and the memory
\* cells hold data.
THEOREM RunTypeCorrect == Spec => []RunTypeOK
<1>1. ProtocolInv => RunTypeOK
    BY DEF ProtocolInv
<1> QED
    BY <1>1, ProtocolInvariance, PTL

\* A rule that fires never waits, in PortWaitNotify.put, for room and never, in
\* get, for a datum: no other thread falsifies the part of its guard it needs.
THEOREM ReadySafe == Spec => []FiresReady
<1>1. ProtocolInv => FiresReady
    <2> SUFFICES ASSUME ProtocolInv PROVE FiresReady
        OBVIOUS
    <2> QED
        BY DEF ProtocolInv, SlotsKnown, Giving, Taking, FiresReady
<1> QED
    BY <1>1, ProtocolInvariance, PTL

\* The protocol never sleeps through an enabled rule, although it reads the
\* ports without a lock that their other ends respect.
THEOREM SleepSafe == Spec => []NoSleepingRule
<1>1. ProtocolInv => NoSleepingRule
    <2> SUFFICES ASSUME ProtocolInv, run = "wait", Protocol \in waiting
                 PROVE  \/ \A m \in DOMAIN Rules : ~RuleEnabled(Rules[m])
                        \/ \E c \in Components : WillActivate(c)
        BY DEF NoSleepingRule
    <2>1. NoneMissed(NRules)
        BY DEF ProtocolInv, SearchOK
    <2>2. \A m \in DOMAIN Rules : m <= NRules
        BY ProtocolAssumption
    <2> QED
        BY <2>1, <2>2 DEF NoneMissed
<1> QED
    BY <1>1, ProtocolInvariance, PTL

\* The protocol and the components hand over every datum exactly once and in
\* order.
THEOREM ProtocolDataSafe == Spec => []NothingLost
<1>1. ProtocolInv => NothingLost
    BY DEF ProtocolInv
<1> QED
    BY <1>1, ProtocolInvariance, PTL
=============================================================================
