------------------------ MODULE JavaRefinementProof -------------------------
(***************************************************************************)
(* The generated protocol and its ports implement Connector: a proof that  *)
(* every step of every thread is, in the view of the rules, the firing of  *)
(* one rule, a step of one component, or no step at all.  A rule fires at  *)
(* the moment its guard has been evaluated; from then on the view shows    *)
(* its inputs taken, its outputs offered and its cells assigned, and the   *)
(* invariant says that the puts, the memory update and the gets that are   *)
(* still to come do just that.                                             *)
(***************************************************************************)
EXTENDS JavaProtocolProof

\* No rule moves a datum from one cell it stores to into another one.
Sequential == \A m \in DOMAIN Rules : \A x \in DOMAIN Rules[m].store :
    Rules[m].store[x] \in DOMAIN Rules[m].store => Rules[m].store[x] = x

-----------------------------------------------------------------------------
(* The memory update of a rule, in whatever order it is evaluated.           *)

\* The new contents of cell x, seen before the update.
Stored(r, x) == IF x \in DOMAIN r.store THEN Term(r.store[x]) ELSE mem[x]

LEMMA OrderCovers ==
    ASSUME NEW r, IsRule(r), NEW order \in S!SetToSeqs(DOMAIN r.store)
    PROVE  \A x \in DOMAIN r.store : \E q \in 1 .. Len(order) : order[q] = x
<1> DEFINE D == DOMAIN r.store
           N == Cardinality(D)
<1>1. IsFiniteSet(D)
    BY ProtocolAssumption, FS_Subset DEF IsRule
<1>2. N \in Nat
    BY <1>1, FS_CardinalityType
<1>3. order \in [1 .. N -> D] /\ \A q1, q2 \in 1 .. N : q1 # q2 => order[q1] # order[q2]
    BY DEF S!SetToSeqs, S!Cardinality, Cardinality, S!IsFiniteSet, IsFiniteSet
<1>4. IsFiniteSet(1 .. N) /\ Cardinality(1 .. N) = N
    <2> HIDE DEF N
    <2>1. N \in Int /\ 1 \in Int /\ (IF 1 > N THEN 0 ELSE N - 1 + 1) = N
        BY <1>2
    <2> QED
        BY <2>1, FS_Interval
<1>5. order \in Injection(1 .. N, D)
    BY <1>3 DEF Injection, IsInjective
<1>6. order \in Surjection(1 .. N, D)
    BY <1>1, <1>4, <1>5, FS_Injection
<1> HIDE DEF N, D
<1>7. order \in Seq(D) /\ Len(order) = N
    BY <1>2, <1>3
<1> QED
    BY <1>6, <1>7 DEF Surjection, D

\* Each cell is assigned from the old values, in any order.
LEMMA AssignedOnce ==
    ASSUME mem \in Memories, put \in [Ports -> Data \cup {Null}],
           NEW r, IsRule(r), NEW order \in S!SetToSeqs(DOMAIN r.store),
           \A x \in DOMAIN r.store : r.store[x] \in DOMAIN r.store => r.store[x] = x
    PROVE  Assigned(r, order) = [x \in Cells |-> IF x \in r.clear THEN Null ELSE Stored(r, x)]
<1> DEFINE L == Len(order)
           Before(q, x) == \E l \in 1 .. L : l <= q /\ order[l] = x
           Right(m, q) == m \in Memories /\ \A x \in Cells :
                            m[x] = IF Before(q, x) THEN Term(r.store[x]) ELSE mem[x]
<1>1. L \in Nat /\ \A q \in 1 .. L : order[q] \in DOMAIN r.store /\ order[q] \in Cells
    <2>1. DOMAIN r.store \subseteq Cells
        BY DEF IsRule
    <2>2. L \in Nat /\ order \in [1 .. L -> DOMAIN r.store]
        BY OrderType
    <2> QED
        BY <2>1, <2>2
<1>2. PICK after : /\ RunsThrough(r, order, after, L)
                   /\ Assigned(r, order) = [x \in Cells |-> IF x \in r.clear THEN Null ELSE after[L][x]]
    BY UpdateRuns
<1>3. \A q \in 0 .. L : after[q] = IF q = 0 THEN mem ELSE AssignCell(r, after[q - 1], order[q])
    BY <1>2 DEF RunsThrough
<1>4. \A x \in DOMAIN r.store : r.store[x] \in Cells \/ r.store[x] \in Ports
    <2>1. \A m \in DOMAIN r.ins : r.ins[m] \in Ports
        BY RulePorts, PortFacts
    <2> QED
        BY <2>1 DEF IsRule, Sources
<1>5. \A x \in Cells : ~Before(0, x)
    BY <1>1
<1>6. ASSUME NEW q \in 1 .. L, Right(after[q - 1], q - 1) PROVE Right(after[q], q)
    <2> DEFINE y == order[q]
               m == after[q - 1]
               s == r.store[y]
    <2>1. y \in DOMAIN r.store /\ y \in Cells /\ q \in Nat
        BY <1>1
    <2>2. after[q] = [m EXCEPT ![y] = IF s \in Cells THEN m[s] ELSE put[s]]
        <3>1. q \in 0 .. L /\ q # 0
            BY <1>1, <2>1
        <3>2. after[q] = AssignCell(r, m, y)
            BY <1>3, <3>1
        <3> QED
            BY <3>2 DEF AssignCell
    <2>3. \A x \in Cells : Before(q, x) <=> Before(q - 1, x) \/ x = y
        <3>1. \A l \in 1 .. L : l <= q <=> l <= q - 1 \/ l = q
            BY <1>1, <2>1
        <3> QED
            BY <3>1
    <2> HIDE DEF Before, y, m
    <2>4. m \in Memories /\ \A x \in Cells : m[x] = IF Before(q - 1, x) THEN Term(r.store[x]) ELSE mem[x]
        BY <1>6 DEF m
    <2>5. (IF s \in Cells THEN m[s] ELSE put[s]) = Term(s)
        <3>1. CASE s \notin Cells
            BY <3>1 DEF Term
        <3>2. CASE s \in Cells /\ s \in DOMAIN r.store
            BY <2>1, <2>4, <3>2 DEF Term
        <3>3. CASE s \in Cells /\ s \notin DOMAIN r.store
            <4>1. ~Before(q - 1, s)
                BY <1>1, <3>3 DEF Before
            <4> QED
                BY <2>4, <3>3, <4>1 DEF Term
        <3> QED
            BY <3>1, <3>2, <3>3
    <2>6. Term(s) \in Data \cup {Null}
        BY <1>4, <2>1 DEF Term, Memories
    <2>7. after[q] = [m EXCEPT ![y] = Term(s)]
        BY <2>2, <2>5
    <2> HIDE DEF s
    <2>8. after[q] \in Memories
        BY <2>1, <2>4, <2>6, <2>7 DEF Memories
    <2>9. \A x \in Cells : after[q][x] = IF Before(q, x) THEN Term(r.store[x]) ELSE mem[x]
        BY <2>1, <2>3, <2>4, <2>7 DEF Memories, s
    <2> QED
        BY <2>8, <2>9
<1>7. Right(after[0], 0)
    BY <1>1, <1>3, <1>5
<1> HIDE DEF Before, Right
<1>8. Right(after[L], L)
    <2> SUFFICES ASSUME ~Right(after[L], L) PROVE FALSE
        OBVIOUS
    <2> DEFINE T == {q \in 0 .. L : ~Right(after[q], q)}
    <2>0. T \subseteq Nat /\ T # {}
        BY <1>1
    <2>1. PICK q \in T : \A l \in T : q <= l
        <3> HIDE DEF T
        <3> QED BY <2>0, LeastElement
    <2>2. q \in 0 .. L /\ ~Right(after[q], q) /\ q # 0
        BY <1>7, <2>1
    <2>3. q \in 1 .. L /\ q - 1 \in 0 .. L /\ ~(q <= q - 1)
        BY <1>1, <2>2
    <2>4. Right(after[q - 1], q - 1)
        BY <2>1, <2>3
    <2> QED
        BY <1>6, <2>2, <2>3, <2>4
<1>9. \A x \in Cells : Before(L, x) <=> x \in DOMAIN r.store
    BY <1>1, OrderCovers DEF Before
<1>10. \A x \in Cells : after[L][x] = Stored(r, x)
    BY <1>8, <1>9 DEF Right, Stored
<1> QED
    BY <1>2, <1>10

\* The update of the memory is the one the rule states.
LEMMA UpdateIsRule ==
    ASSUME Sequential, PortsOK, RunOK, FireMemory
    PROVE  mem' = MemView
<1>1. PICK order \in S!SetToSeqs(DOMAIN Rules[k].store) : mem' = Assigned(Rules[k], order)
    BY DEF FireMemory
<1>2. /\ IsRule(Rules[k]) /\ mem \in Memories /\ put \in [Ports -> Data \cup {Null}]
      /\ \A x \in DOMAIN Rules[k].store :
            Rules[k].store[x] \in DOMAIN Rules[k].store => Rules[k].store[x] = x
    BY RuleFacts DEF RunOK, RunTypeOK, PortsOK, TypeOK, Memories, Sequential
<1>3. mem' = [x \in Cells |-> IF x \in Rules[k].clear THEN Null ELSE Stored(Rules[k], x)]
    BY <1>1, <1>2, AssignedOnce
<1> QED
    BY <1>3 DEF FireMemory, At, MemView, Stored

-----------------------------------------------------------------------------
(* The slots in the view of the rules.                                       *)

\* The m-th get of the action in progress has its datum still to take; the
\* m-th put has its datum still to write.
ToTake(m) == Firing /\ (run = "puts" \/ m >= n \/ (m = n - 1 /\ Taking))
ToGive(m) == run = "puts" /\ (m >= n \/ (m = n - 1 /\ Giving))

TakenAt(p) == \E m \in DOMAIN Rules[k].ins : Rules[k].ins[m] = p /\ ToTake(m)
GivenAt(p) == \E m \in DOMAIN Rules[k].outs : Rules[k].outs[m].port = p /\ ToGive(m)

SlotsSeen == RunTypeOK =>
    /\ SlotView = [p \in Inputs \cup Outputs |-> SlotView[p]]
    /\ \A p \in Inputs : SlotView[p] = IF TakenAt(p) THEN Null ELSE put[p]
    /\ \A p \in Outputs : ~GivenAt(p) => SlotView[p] = put[p]
    /\ \A m \in DOMAIN Rules[k].outs : ToGive(m) =>
            SlotView[Rules[k].outs[m].port] = Term(Rules[k].outs[m].from)

LEMMA SlotsAreSeen == SlotsSeen
<1> SUFFICES ASSUME RunTypeOK
             PROVE  /\ SlotView = [p \in Inputs \cup Outputs |-> SlotView[p]]
                    /\ \A p \in Inputs : SlotView[p] = IF TakenAt(p) THEN Null ELSE put[p]
                    /\ \A p \in Outputs : ~GivenAt(p) => SlotView[p] = put[p]
                    /\ \A m \in DOMAIN Rules[k].outs : ToGive(m) =>
                            SlotView[Rules[k].outs[m].port] = Term(Rules[k].outs[m].from)
    BY DEF SlotsSeen
<1> DEFINE r == Rules[k]
           FromOf(p) == (CHOOSE o \in {r.outs[m] : m \in DOMAIN r.outs} : o.port = p).from
<1>1. IsRule(r)
    BY RuleFacts
<1>2. /\ \A m \in DOMAIN r.outs : r.outs[m].port \in Outputs
      /\ \A m1, m2 \in DOMAIN r.outs : r.outs[m1].port = r.outs[m2].port => m1 = m2
    BY <1>1, RulePorts DEF IsRule
<1>3. \A p \in Inputs : Firing /\ p \in DoneInputs <=> TakenAt(p)
    BY DEF DoneInputs, TakenAt, ToTake, Taking, Firing
<1>4. \A p \in Outputs : Firing /\ p \in DueOutputs <=> GivenAt(p)
    BY DEF DueOutputs, GivenAt, ToGive, Giving, Firing
<1>5. \A p \in Inputs : p \notin DueOutputs
    BY PortFacts DEF DueOutputs
<1>6. \A p \in Outputs : p \notin DoneInputs
    BY PortFacts DEF DoneInputs
<1>7. ASSUME NEW m \in DOMAIN r.outs PROVE FromOf(r.outs[m].port) = r.outs[m].from
    <2> DEFINE o == r.outs[m]
               O == {r.outs[l] : l \in DOMAIN r.outs}
    <2>1. o \in O /\ \A o2 \in O : o2.port = o.port => o2 = o
        BY <1>2
    <2> HIDE DEF O
    <2>2. (CHOOSE o2 \in O : o2.port = o.port) = o
        BY <2>1
    <2> QED
        BY <2>2 DEF O
<1>8. SlotView = [p \in Inputs \cup Outputs |->
        IF Firing /\ p \in DoneInputs THEN Null
        ELSE IF Firing /\ p \in DueOutputs THEN Term(FromOf(p)) ELSE put[p]]
    BY DEF SlotView
<1> HIDE DEF FromOf
<1>9. SlotView = [p \in Inputs \cup Outputs |-> SlotView[p]]
    BY <1>8
<1>10. \A p \in Inputs : SlotView[p] = IF TakenAt(p) THEN Null ELSE put[p]
    BY <1>3, <1>5, <1>8
<1>11. \A p \in Outputs : ~GivenAt(p) => SlotView[p] = put[p]
    BY <1>4, <1>6, <1>8
<1>12. ASSUME NEW m \in DOMAIN r.outs, ToGive(m)
       PROVE  SlotView[r.outs[m].port] = Term(r.outs[m].from)
    <2>1. GivenAt(r.outs[m].port)
        BY <1>12 DEF GivenAt
    <2>2. Term(FromOf(r.outs[m].port)) = Term(r.outs[m].from)
        BY <1>7
    <2> QED
        BY <1>2, <1>4, <1>6, <1>8, <2>1, <2>2
<1> QED
    BY <1>9, <1>10, <1>11, <1>12

LEMMA SlotsAreSeenNext == SlotsSeen'
BY SlotsAreSeen, PTL

\* The view of a slot changes with its field or with its turn in the action.
LEMMA SlotsStay ==
    ASSUME RunTypeOK, RunTypeOK', k' = k, NEW Q,
           \A p \in (Inputs \cup Outputs) \ Q : put'[p] = put[p],
           \A m \in DOMAIN Rules[k].ins : Rules[k].ins[m] \notin Q => (ToTake(m)' <=> ToTake(m)),
           \A m \in DOMAIN Rules[k].outs : Rules[k].outs[m].port \notin Q => (ToGive(m)' <=> ToGive(m)),
           \A m \in DOMAIN Rules[k].outs : ToGive(m) =>
                Term(Rules[k].outs[m].from)' = Term(Rules[k].outs[m].from)
    PROVE  \A p \in (Inputs \cup Outputs) \ Q : SlotView'[p] = SlotView[p]
<1> DEFINE r == Rules[k]
<1>1. Rules[k]' = r
    OBVIOUS
<1>2. /\ \A p \in Inputs : SlotView[p] = IF TakenAt(p) THEN Null ELSE put[p]
      /\ \A p \in Outputs : ~GivenAt(p) => SlotView[p] = put[p]
      /\ \A m \in DOMAIN r.outs : ToGive(m) => SlotView[r.outs[m].port] = Term(r.outs[m].from)
    BY SlotsAreSeen DEF SlotsSeen
<1>3. /\ \A p \in Inputs : SlotView'[p] = IF TakenAt(p)' THEN Null ELSE put'[p]
      /\ \A p \in Outputs : ~GivenAt(p)' => SlotView'[p] = put'[p]
      /\ \A m \in DOMAIN r.outs : ToGive(m)' => SlotView'[r.outs[m].port] = Term(r.outs[m].from)'
    BY <1>1, SlotsAreSeenNext DEF SlotsSeen
<1>4. \A p \in Inputs \ Q : TakenAt(p)' <=> TakenAt(p)
    BY <1>1 DEF TakenAt
<1>5. \A p \in Inputs \ Q : SlotView'[p] = SlotView[p]
    BY <1>2, <1>3, <1>4
<1>6. ASSUME NEW p \in Outputs \ Q PROVE SlotView'[p] = SlotView[p]
    <2>1. CASE GivenAt(p)
        <3>1. PICK m \in DOMAIN r.outs : r.outs[m].port = p /\ ToGive(m)
            BY <2>1 DEF GivenAt
        <3>2. ToGive(m)' /\ Term(r.outs[m].from)' = Term(r.outs[m].from)
            BY <1>6, <3>1
        <3> QED
            BY <1>2, <1>3, <3>1, <3>2
    <2>2. CASE ~GivenAt(p)
        <3>1. ~GivenAt(p)'
            BY <1>1, <1>6, <2>2 DEF GivenAt
        <3> QED
            BY <1>2, <1>3, <1>6, <2>2, <3>1
    <2> QED
        BY <2>1, <2>2
<1> QED
    BY <1>5, <1>6

LEMMA SlotViewStays ==
    ASSUME RunTypeOK, RunTypeOK', \A p \in Inputs \cup Outputs : SlotView'[p] = SlotView[p]
    PROVE  SlotView' = SlotView
<1>1. SlotView = [p \in Inputs \cup Outputs |-> SlotView[p]]
    BY SlotsAreSeen DEF SlotsSeen
<1>2. SlotView' = [p \in Inputs \cup Outputs |-> SlotView'[p]]
    BY SlotsAreSeenNext DEF SlotsSeen
<1> QED
    BY <1>1, <1>2

-----------------------------------------------------------------------------
(* The steps of the threads in their calls.                                  *)

\* While a rule puts, what it has to put or to store does not change.
LEMMA SourcesStay ==
    ASSUME NEW c \in Components, AnyStep(c), PortsOK, RunOK, UNCHANGED <<runVars, mem>>,
           c = Protocol => pc[c] # "idle" \/ WaitReturns(c),
           run = "puts", NEW s \in Sources(Rules[k])
    PROVE  Term(s)' = Term(s)
<1>1. /\ Protocol \in Components /\ TypeOK /\ CallOK(c) /\ SlotOK(c) /\ IsRule(Rules[k])
      /\ mem' = mem
    BY ProtocolAssumption, RuleFacts DEF PortsOK, CallsOK, SlotsOK, RunOK
<1>2. CASE s \in Cells
    BY <1>1, <1>2 DEF Term
<1>3. CASE s \notin Cells
    <2>1. PICK m \in DOMAIN Rules[k].ins : s = Rules[k].ins[m]
        BY <1>3 DEF Sources
    <2>2. s \in Inputs /\ put[s] # Null
        BY <1>1, <2>1, RulePorts DEF RunOK, SlotsKnown
    <2>3. put'[s] = put[s]
        <3>1. CASE c = Protocol
            <4>1. pc[c] \in PutLabels \cup {"idle"}
                BY <3>1 DEF RunOK, RunCallsOK, InPut
            <4>2. ~GetClear(c)
                BY <4>1 DEF GetClear, Goto, PutLabels
            <4>3. s \in Ports /\ Prod[s] # c
                BY <2>2, <3>1, PortFacts DEF Outputs
            <4> QED
                BY <1>1, <4>2, <4>3, PutField
        <3>2. CASE c # Protocol
            BY <1>1, <2>2, <3>2, OthersKeepSlots
        <3> QED
            BY <3>1, <3>2
    <2> QED
        BY <1>3, <2>3 DEF Term
<1> QED
    BY <1>2, <1>3

\* What a call shows of the request at each port.
Ask == [p \in Outputs |-> GetOf(p)]

LEMMA AskStays ==
    ASSUME NEW c \in Components, AnyStep(c), TypeOK, NEW p \in Ports, get'[p] = get[p],
           \/ pc[c] # "get_reset" /\ pc'[c] # "get_reset"
           \/ pc'[c] = pc[c] /\ at'[c] = at[c]
           \/ at[c] # p /\ at'[c] # p
    PROVE  GetOf(p)' = GetOf(p)
<1>1. \A q \in Components : q # c => pc'[q] = pc[q] /\ at'[q] = at[q]
    BY StepKinds DEF Untouched
<1>2. Cons[p] \in Components
    BY PortAssumption
<1>3. Inside(Cons[p], p, {"get_reset"})' <=> Inside(Cons[p], p, {"get_reset"})
    <2>1. CASE Cons[p] # c
        BY <1>1, <1>2, <2>1 DEF Inside
    <2>2. CASE Cons[p] = c
        BY <2>2 DEF Inside
    <2> QED
        BY <2>1, <2>2
<1> QED
    BY <1>3 DEF GetOf

\* The view of the memory is that of the rule, already applied.
LEMMA MemViewStays ==
    ASSUME RunOK, UNCHANGED <<runVars, mem>>,
           run = "puts" => \A s \in Sources(Rules[k]) : Term(s)' = Term(s)
    PROVE  MemView' = MemView
<1>1. IsRule(Rules[k]) /\ run' = run /\ k' = k /\ mem' = mem
    BY RuleFacts DEF RunOK, runVars
<1>2. \A x \in DOMAIN Rules[k].store : Rules[k].store[x] \in Sources(Rules[k])
    BY <1>1 DEF IsRule
<1>3. CASE run # "puts"
    BY <1>1, <1>3 DEF MemView
<1>4. CASE run = "puts"
    <2>1. \A x \in DOMAIN Rules[k].store : Term(Rules[k].store[x])' = Term(Rules[k].store[x])
        <3> SUFFICES ASSUME NEW x \in DOMAIN Rules[k].store
                     PROVE  Term(Rules[k].store[x])' = Term(Rules[k].store[x])
            OBVIOUS
        <3>1. PICK s \in Sources(Rules[k]) : s = Rules[k].store[x]
            BY <1>2
        <3>2. Term(s)' = Term(s)
            BY <1>4
        <3> QED
            BY <1>1, <3>1, <3>2 DEF Term
    <2> QED
        BY <1>1, <1>4, <2>1 DEF MemView
<1> QED
    BY <1>3, <1>4

\* The facts about a step in a call that each kind of step needs.
InCall(c) ==
    /\ AnyStep(c) /\ PortsOK /\ RunOK /\ RunTypeOK' /\ UNCHANGED <<runVars, mem>>
    /\ c = Protocol => pc[c] # "idle" \/ WaitReturns(c)

Given == [p \in Inputs |-> sent[p]]
Got == [p \in Outputs |-> received[p]]

\* A step that writes no field of a port of the protocol, and moves the
\* protocol's thread within one phase of its call.
LEMMA UnseenStep ==
    ASSUME NEW c \in Components, InCall(c),
           \A p \in Inputs \cup Outputs : put'[p] = put[p],
           \A p \in Outputs : GetOf(p)' = GetOf(p),
           \A p \in Inputs : sent'[p] = sent[p], \A p \in Outputs : received'[p] = received[p],
           c = Protocol => (Giving' <=> Giving) /\ (Taking' <=> Taking)
    PROVE  UNCHANGED C!connVars
<1>1. /\ run' = run /\ k' = k /\ n' = n /\ Protocol \in Components /\ TypeOK
      /\ IsRule(Rules[k]) /\ RunTypeOK /\ RunTypeOK'
    BY ProtocolAssumption, RuleFacts DEF InCall, runVars, PortsOK, RunOK
<1>2. (Giving' <=> Giving) /\ (Taking' <=> Taking)
    <2>1. CASE c # Protocol
        <3>1. pc'[Protocol] = pc[Protocol]
            BY <1>1, <2>1, StepKinds DEF InCall, Untouched
        <3> QED
            BY <3>1 DEF Giving, Taking
    <2> QED
        BY <2>1
<1>3. run = "puts" => \A s \in Sources(Rules[k]) : Term(s)' = Term(s)
    BY SourcesStay DEF InCall
<1>4. MemView' = MemView
    BY <1>3, MemViewStays DEF InCall
<1>5. \A m : (ToTake(m)' <=> ToTake(m)) /\ (ToGive(m)' <=> ToGive(m))
    BY <1>1, <1>2 DEF ToTake, ToGive, Firing
<1>6. \A m \in DOMAIN Rules[k].outs : ToGive(m) =>
            Term(Rules[k].outs[m].from)' = Term(Rules[k].outs[m].from)
    <2> SUFFICES ASSUME NEW m \in DOMAIN Rules[k].outs, ToGive(m)
                 PROVE  Term(Rules[k].outs[m].from)' = Term(Rules[k].outs[m].from)
        OBVIOUS
    <2>1. PICK s \in Sources(Rules[k]) : s = Rules[k].outs[m].from
        BY <1>1, RulePorts
    <2>2. Term(s)' = Term(s)
        BY <1>3 DEF ToGive
    <2> QED
        BY <1>1, <2>1, <2>2 DEF Term
<1>7. \A p \in (Inputs \cup Outputs) \ {} : SlotView'[p] = SlotView[p]
    BY <1>1, <1>5, <1>6, SlotsStay
<1>8. SlotView' = SlotView
    BY <1>1, <1>7, SlotViewStays
<1> QED
    BY <1>4, <1>8 DEF C!connVars

\* A write to put shows at its own port alone.
LEMMA WriteElsewhere ==
    ASSUME NEW c \in Components, InCall(c), PutWrite(c) \/ GetClear(c)
    PROVE  /\ MemView' = MemView
           /\ \A p \in (Inputs \cup Outputs) \ {at[c]} : SlotView'[p] = SlotView[p]
<1> DEFINE r == Rules[k]
<1>1. /\ run' = run /\ k' = k /\ n' = n /\ Protocol \in Components /\ TypeOK
      /\ IsRule(r) /\ RunTypeOK /\ RunTypeOK' /\ RunCallsOK /\ n \in Nat
    BY ProtocolAssumption, RuleFacts DEF InCall, runVars, PortsOK, RunOK, RunTypeOK
<1>2. DOMAIN r.outs \subseteq Nat /\ DOMAIN r.ins \subseteq Nat
    BY <1>1, RulePorts
<1>3. run = "puts" => \A s \in Sources(r) : Term(s)' = Term(s)
    BY SourcesStay DEF InCall
<1>4. MemView' = MemView
    BY <1>3, MemViewStays DEF InCall
<1>5. \A p \in (Inputs \cup Outputs) \ {at[c]} : put'[p] = put[p]
    BY <1>1, PortFacts DEF PutWrite, GetClear, TypeOK
<1>6. /\ \A m \in DOMAIN r.ins : r.ins[m] # at[c] => (ToTake(m)' <=> ToTake(m))
      /\ \A m \in DOMAIN r.outs : r.outs[m].port # at[c] => (ToGive(m)' <=> ToGive(m))
    <2>1. CASE c # Protocol
        <3>1. pc'[Protocol] = pc[Protocol]
            BY <1>1, <2>1, StepKinds DEF InCall, Untouched
        <3> QED
            BY <1>1, <3>1 DEF ToTake, ToGive, Firing, Giving, Taking
    <2>2. CASE c = Protocol /\ PutWrite(c)
        <3>1. run = "puts" /\ at[c] = r.outs[n - 1].port
            BY <1>1, <2>2 DEF PutWrite, Goto, RunCallsOK, InPut, InGet, GetLabels
        <3>2. \A m \in DOMAIN r.outs : r.outs[m].port # at[c] => m # n - 1
            BY <3>1
        <3> HIDE DEF r
        <3> QED
            BY <1>1, <3>1, <3>2 DEF ToTake, ToGive, Firing
    <2>3. CASE c = Protocol /\ GetClear(c)
        <3>1. run = "gets" /\ at[c] = r.ins[n - 1]
            BY <1>1, <2>3 DEF GetClear, Goto, RunCallsOK, InPut, InGet, PutLabels
        <3>2. \A m \in DOMAIN r.ins : r.ins[m] # at[c] => m # n - 1
            BY <3>1
        <3> HIDE DEF r
        <3> QED
            BY <1>1, <3>1, <3>2 DEF ToTake, ToGive, Firing
    <2> QED
        BY <2>1, <2>2, <2>3
<1>7. \A m \in DOMAIN r.outs : ToGive(m) => Term(r.outs[m].from)' = Term(r.outs[m].from)
    <2> SUFFICES ASSUME NEW m \in DOMAIN r.outs, ToGive(m)
                 PROVE  Term(r.outs[m].from)' = Term(r.outs[m].from)
        OBVIOUS
    <2>1. PICK s \in Sources(r) : s = r.outs[m].from
        BY <1>1, RulePorts
    <2>2. Term(s)' = Term(s)
        BY <1>3 DEF ToGive
    <2> QED
        BY <1>1, <2>1, <2>2 DEF Term
<1>8. \A p \in (Inputs \cup Outputs) \ {at[c]} : SlotView'[p] = SlotView[p]
    <2>1. /\ \A m \in DOMAIN r.ins : r.ins[m] \notin {at[c]} => (ToTake(m)' <=> ToTake(m))
          /\ \A m \in DOMAIN r.outs : r.outs[m].port \notin {at[c]} => (ToGive(m)' <=> ToGive(m))
        BY <1>6
    <2>2. PICK Q : Q = {at[c]}
        OBVIOUS
    <2>3. \A p \in (Inputs \cup Outputs) \ Q : SlotView'[p] = SlotView[p]
        BY <1>1, <1>5, <1>7, <2>1, <2>2, SlotsStay
    <2> QED
        BY <2>2, <2>3
<1> QED
    BY <1>4, <1>8

\* What the invariant says of a slot the rule in progress has yet to visit.
LEMMA Turns ==
    ASSUME PortsOK, RunOK
    PROVE  /\ \A p \in Inputs : TakenAt(p) => put[p] # Null
           /\ \A p \in Outputs : GivenAt(p) => put[p] = Null
<1> DEFINE r == Rules[k]
<1>1. RunCallsOK /\ SlotsKnown /\ IsRule(r)
    BY RuleFacts DEF RunOK
<1>2. ASSUME NEW m \in DOMAIN r.ins, ToTake(m) PROVE put[r.ins[m]] # Null
    <2>1. CASE Firing /\ (run = "puts" \/ m >= n)
        BY <1>1, <2>1 DEF Firing, SlotsKnown
    <2>2. CASE m = n - 1 /\ Taking
        <3>1. at[Protocol] = r.ins[n - 1]
            BY <1>1, <2>2 DEF RunCallsOK, InPut, InGet, Taking, PutLabels, GetLabels
        <3> QED
            BY <1>1, <2>2, <3>1 DEF SlotsKnown
    <2> QED
        BY <1>2, <2>1, <2>2 DEF ToTake
<1>3. ASSUME NEW m \in DOMAIN r.outs, ToGive(m) PROVE put[r.outs[m].port] = Null
    <2>1. CASE run = "puts" /\ m >= n
        BY <1>1, <2>1 DEF SlotsKnown
    <2>2. CASE m = n - 1 /\ Giving
        <3>1. at[Protocol] = r.outs[n - 1].port
            BY <1>1, <2>2 DEF RunCallsOK, InPut, InGet, Giving, PutLabels, GetLabels
        <3> QED
            BY <1>1, <2>2, <3>1 DEF SlotsKnown
    <2> QED
        BY <1>3, <2>1, <2>2 DEF ToGive
<1> QED
    BY <1>2, <1>3 DEF TakenAt, GivenAt

\* The views before and after a step, in terms of the fields.
LEMMA ViewsOfSlots ==
    ASSUME PortsOK, RunOK
    PROVE  /\ \A p \in Inputs : SlotView[p] = IF TakenAt(p) THEN Null ELSE put[p]
           /\ \A p \in Inputs : put[p] = Null => SlotView[p] = Null
           /\ \A p \in Outputs : put[p] # Null => SlotView[p] = put[p]
           /\ DOMAIN SlotView = Inputs \cup Outputs
<1>1. SlotsSeen /\ RunTypeOK
    BY SlotsAreSeen DEF RunOK
<1>2. SlotView = [p \in Inputs \cup Outputs |-> SlotView[p]]
    BY <1>1 DEF SlotsSeen
<1> QED
    BY <1>1, <1>2, Turns DEF SlotsSeen

\* The put of another component is an offer at an input.
LEMMA OfferedStep ==
    ASSUME NEW c \in Components, InCall(c), c # Protocol, PutWrite(c), at[c] \in Inputs
    PROVE  \E d \in Data : C!Offered(at[c], d)
<1> DEFINE p == at[c]
           d == reg[c]
<1>1. /\ PortsOK /\ RunOK /\ TypeOK /\ CallOK(c) /\ SlotOK(c) /\ p \in Ports /\ RunTypeOK /\ RunTypeOK'
    BY PortFacts DEF InCall, PortsOK, CallsOK, SlotsOK, RunOK
<1>2. put[p] = Null /\ put'[p] = d /\ d \in Data /\ sent' = [sent EXCEPT ![p] = Append(sent[p], d)]
      /\ get' = get /\ received' = received /\ at' = at
    BY <1>1 DEF PutWrite, Goto, TypeOK, SlotOK
<1>3. SlotView[p] = Null
    BY <1>1, <1>2, ViewsOfSlots
<1>4. SlotView'[p] = d
    <2>1. ~TakenAt(p)'
        <3>1. k' = k /\ n' = n /\ run' = run /\ (Taking' <=> Taking)
            BY <1>1, StepKinds, ProtocolAssumption DEF InCall, runVars, Untouched, Taking
        <3>2. \A m : ToTake(m)' <=> ToTake(m)
            BY <3>1 DEF ToTake, Firing
        <3>3. TakenAt(p)' => TakenAt(p)
            BY <1>2, <3>1, <3>2 DEF TakenAt
        <3>4. ~TakenAt(p)
            BY <1>1, <1>2, Turns
        <3> QED
            BY <3>3, <3>4
    <2>2. SlotView'[at'[c]] = IF TakenAt(at[c])' THEN Null ELSE put'[at'[c]]
        BY <1>1, <1>2, SlotsAreSeenNext DEF SlotsSeen
    <2> QED
        BY <1>2, <2>1, <2>2
<1>5. MemView' = MemView /\ \A q \in (Inputs \cup Outputs) \ {p} : SlotView'[q] = SlotView[q]
    BY WriteElsewhere
<1>6. SlotView' = [SlotView EXCEPT ![p] = d]
    <2>1. SlotView = [q \in Inputs \cup Outputs |-> SlotView[q]]
        BY <1>1, SlotsAreSeen DEF SlotsSeen
    <2>2. SlotView' = [q \in Inputs \cup Outputs |-> SlotView'[q]]
        BY <1>1, SlotsAreSeenNext DEF SlotsSeen
    <2> QED
        BY <1>4, <1>5, <2>1, <2>2
<1>7. \A q \in Outputs : GetOf(q)' = GetOf(q)
    <2>1. pc[c] # "get_reset" /\ pc'[c] # "get_reset"
        BY <1>1 DEF PutWrite, Goto, TypeOK
    <2> QED
        BY <1>1, <1>2, <2>1, AskStays, PortFacts DEF InCall
<1>8. Given' = [Given EXCEPT ![p] = Append(@, d)]
    BY <1>1, <1>2, PortFacts DEF Given, TypeOK
<1>9. Got' = Got /\ Ask' = Ask
    BY <1>2, <1>7 DEF Got, Ask
<1> QED
    BY <1>2, <1>3, <1>5, <1>6, <1>8, <1>9 DEF C!Offered, Given, Got, Ask

\* The get of another component takes the datum of an output.
LEMMA TakenStep ==
    ASSUME NEW c \in Components, InCall(c), c # Protocol, GetClear(c), at[c] \in Outputs
    PROVE  C!Taken(at[c])
<1> DEFINE p == at[c]
<1>1. /\ PortsOK /\ RunOK /\ TypeOK /\ CallOK(c) /\ SlotOK(c) /\ GetOK(p) /\ p \in Ports
      /\ RunTypeOK /\ RunTypeOK'
    BY PortFacts DEF InCall, PortsOK, CallsOK, SlotsOK, RunOK
<1>2. /\ put[p] # Null /\ put'[p] = Null /\ get' = get /\ sent' = sent /\ at' = at
      /\ received' = [received EXCEPT ![p] = Append(received[p], put[p])]
      /\ pc[c] = "get_clear" /\ pc'[c] = "get_reset" /\ Cons[p] = c /\ get[p]
    BY <1>1 DEF GetClear, Goto, TypeOK, SlotOK, CallOK, GetLabels, GetOK, Inside, AskLabels
<1>3. SlotView[p] = put[p]
    BY <1>1, <1>2, ViewsOfSlots
<1>4. SlotView'[p] = Null
    <2>1. ~GivenAt(p)'
        <3>1. k' = k /\ n' = n /\ run' = run /\ (Giving' <=> Giving)
            BY <1>1, StepKinds, ProtocolAssumption DEF InCall, runVars, Untouched, Giving
        <3>2. \A m : ToGive(m)' <=> ToGive(m)
            BY <3>1 DEF ToGive
        <3>3. GivenAt(p)' => GivenAt(p)
            BY <1>2, <3>1, <3>2 DEF GivenAt
        <3>4. ~GivenAt(p)
            BY <1>1, <1>2, Turns
        <3> QED
            BY <3>3, <3>4
    <2>2. ~GivenAt(at[c])' => SlotView'[at'[c]] = put'[at'[c]]
        BY <1>1, <1>2, SlotsAreSeenNext DEF SlotsSeen
    <2> QED
        BY <1>2, <2>1, <2>2
<1>5. MemView' = MemView /\ \A q \in (Inputs \cup Outputs) \ {p} : SlotView'[q] = SlotView[q]
    BY WriteElsewhere
<1>6. SlotView' = [SlotView EXCEPT ![p] = Null]
    <2>1. SlotView = [q \in Inputs \cup Outputs |-> SlotView[q]]
        BY <1>1, SlotsAreSeen DEF SlotsSeen
    <2>2. SlotView' = [q \in Inputs \cup Outputs |-> SlotView'[q]]
        BY <1>1, SlotsAreSeenNext DEF SlotsSeen
    <2> QED
        BY <1>4, <1>5, <2>1, <2>2
<1>7. \A q \in Outputs : GetOf(q)' = IF q = p THEN "taken" ELSE GetOf(q)
    <2>1. \A q \in Outputs : q # p => GetOf(q)' = GetOf(q)
        BY <1>1, <1>2, AskStays, PortFacts DEF InCall
    <2>2. GetOf(p)' = "taken"
        BY <1>2 DEF GetOf, Inside
    <2> QED
        BY <1>2, <2>1, <2>2
<1>8. Ask[p] = "asking" /\ Ask' = [Ask EXCEPT ![p] = "taken"]
    BY <1>2, <1>7 DEF Ask, GetOf, Inside
<1>9. Got' = [Got EXCEPT ![p] = Append(@, put[p])] /\ Given' = Given
    BY <1>1, <1>2, PortFacts DEF Got, Given, TypeOK
<1> QED
    BY <1>2, <1>3, <1>5, <1>6, <1>8, <1>9 DEF C!Taken, Given, Got, Ask

\* A step at the field get moves neither slots, memory nor the protocol.
LEMMA FieldGetElsewhere ==
    ASSUME NEW c \in Components, InCall(c), GetSet(c) \/ GetReset(c)
    PROVE  SlotView' = SlotView /\ MemView' = MemView /\ Given' = Given /\ Got' = Got
<1>1. /\ run' = run /\ k' = k /\ n' = n /\ Protocol \in Components /\ TypeOK
      /\ IsRule(Rules[k]) /\ RunTypeOK /\ RunTypeOK' /\ put' = put /\ mem' = mem
    BY ProtocolAssumption, RuleFacts DEF InCall, runVars, PortsOK, RunOK, GetSet, GetReset
<1>2. (Giving' <=> Giving) /\ (Taking' <=> Taking)
    <2>1. CASE c # Protocol
        <3>1. pc'[Protocol] = pc[Protocol]
            BY <1>1, <2>1, StepKinds DEF InCall, Untouched
        <3> QED
            BY <3>1 DEF Giving, Taking
    <2>2. CASE c = Protocol
        BY <1>1, <2>2 DEF GetSet, GetReset, Goto, TypeOK, Giving, Taking, GetLabels
    <2> QED
        BY <2>1, <2>2
<1>3. MemView' = MemView
    BY <1>1, MemViewStays DEF InCall, Term
<1>4. \A m : (ToTake(m)' <=> ToTake(m)) /\ (ToGive(m)' <=> ToGive(m))
    BY <1>1, <1>2 DEF ToTake, ToGive, Firing
<1>5. \A m \in DOMAIN Rules[k].outs : Term(Rules[k].outs[m].from)' = Term(Rules[k].outs[m].from)
    BY <1>1 DEF Term
<1>6. \A p \in (Inputs \cup Outputs) \ {} : SlotView'[p] = SlotView[p]
    BY <1>1, <1>4, <1>5, SlotsStay
<1>7. SlotView' = SlotView
    BY <1>1, <1>6, SlotViewStays
<1> QED
    BY <1>3, <1>7 DEF Given, Got, GetSet, GetReset, history

\* The start of a get at an output is a request, its end the answer.
LEMMA RequestSteps ==
    ASSUME NEW c \in Components, InCall(c), at[c] \in Outputs
    PROVE  (GetSet(c) => C!Asked(at[c])) /\ (GetReset(c) => C!Answered(at[c]))
<1> DEFINE p == at[c]
<1>1. /\ PortsOK /\ TypeOK /\ CallOK(c) /\ p \in Ports /\ AnyStep(c)
      /\ \A q \in Ports : GetOK(q)
    BY PortFacts DEF InCall, PortsOK, CallsOK
<1>2. ASSUME GetSet(c) PROVE C!Asked(p)
    <2>1. /\ pc[c] = "get_set" /\ pc'[c] = "get_activate" /\ Cons[p] = c /\ at' = at
          /\ get' = [get EXCEPT ![p] = TRUE]
        BY <1>1, <1>2 DEF GetSet, Goto, TypeOK, CallOK, GetLabels
    <2>2. GetOf(p) = "none"
        BY <1>1, <2>1 DEF GetOK, Inside, AskLabels, GetOf
    <2>3. \A q \in Outputs : q # p => GetOf(q)' = GetOf(q)
        <3>1. \A q \in Ports : q # p => get'[q] = get[q]
            BY <1>1, <2>1 DEF TypeOK
        <3> QED
            BY <1>1, <2>1, <3>1, AskStays, PortFacts
    <2>4. GetOf(p)' = "asking"
        <3>1. get'[p]
            BY <1>1, <2>1 DEF TypeOK
        <3> QED
            BY <2>1, <3>1 DEF GetOf, Inside
    <2>5. Ask' = [Ask EXCEPT ![p] = "asking"] /\ Ask[p] = "none"
        BY <2>1, <2>2, <2>3, <2>4 DEF Ask
    <2> QED
        BY <1>2, <2>5, FieldGetElsewhere DEF C!Asked, Ask, Given, Got
<1>3. ASSUME GetReset(c) PROVE C!Answered(p)
    <2>1. /\ pc[c] = "get_reset" /\ pc'[c] = "get_notify" /\ Cons[p] = c /\ at' = at
          /\ get' = [get EXCEPT ![p] = FALSE]
        BY <1>1, <1>3 DEF GetReset, Goto, TypeOK, CallOK, GetLabels
    <2>2. GetOf(p) = "taken"
        BY <1>1, <2>1 DEF GetOK, Inside, AskLabels, GetOf
    <2>3. \A q \in Outputs : q # p => GetOf(q)' = GetOf(q)
        <3>1. \A q \in Ports : q # p => get'[q] = get[q]
            BY <1>1, <2>1 DEF TypeOK
        <3> QED
            BY <1>1, <2>1, <3>1, AskStays, PortFacts
    <2>4. GetOf(p)' = "none"
        <3>1. ~get'[p]
            BY <1>1, <2>1 DEF TypeOK
        <3> QED
            BY <2>1, <3>1 DEF GetOf
    <2>5. Ask' = [Ask EXCEPT ![p] = "none"] /\ Ask[p] = "taken"
        BY <2>1, <2>2, <2>3, <2>4 DEF Ask
    <2> QED
        BY <1>3, <2>5, FieldGetElsewhere DEF C!Answered, Ask, Given, Got
<1> QED
    BY <1>2, <1>3

\* The protocol's own put and get were shown when its rule fired.
LEMMA OwnWrite ==
    ASSUME InCall(Protocol), PutWrite(Protocol) \/ GetClear(Protocol)
    PROVE  UNCHANGED C!connVars
<1> DEFINE c == Protocol
           p == at[c]
           r == Rules[k]
<1>1. /\ PortsOK /\ RunOK /\ TypeOK /\ RunCallsOK /\ SlotsKnown /\ c \in Components /\ RunTypeOK
      /\ RunTypeOK' /\ IsRule(r) /\ run' = run /\ k' = k /\ n' = n /\ n \in Nat /\ AnyStep(c)
      /\ SlotOK(c) /\ Rules[k]' = r
    BY ProtocolAssumption, RuleFacts DEF InCall, PortsOK, RunOK, runVars, RunTypeOK, SlotsOK
<1>2. \A q \in Outputs : GetOf(q)' = GetOf(q)
    <2>1. get' = get /\ at' = at
        BY DEF PutWrite, GetClear
    <2>2. CASE PutWrite(c)
        <3>1. pc[c] # "get_reset" /\ pc'[c] # "get_reset"
            BY <1>1, <2>2 DEF PutWrite, Goto, TypeOK
        <3> QED
            BY <1>1, <2>1, <3>1, AskStays, PortFacts
    <2>3. CASE GetClear(c)
        <3>1. at[c] \in Inputs
            BY <1>1, <2>3, RulePorts DEF GetClear, Goto, RunCallsOK, InGet, InPut, PutLabels
        <3> QED
            BY <1>1, <2>1, <3>1, AskStays, PortFacts
    <2> QED
        BY <2>2, <2>3
<1>3. MemView' = MemView /\ \A q \in (Inputs \cup Outputs) \ {p} : SlotView'[q] = SlotView[q]
    BY <1>1, WriteElsewhere
<1>4. /\ p \in Inputs \cup Outputs => SlotView'[p] = SlotView[p]
      /\ \A q \in Inputs : sent'[q] = sent[q]
      /\ \A q \in Outputs : received'[q] = received[q]
    <2>1. CASE PutWrite(c)
        <3>1. /\ run = "puts" /\ n - 1 \in DOMAIN r.outs /\ p = r.outs[n - 1].port
              /\ pc[c] = "put_write" /\ pc'[c] = "put_activate" /\ at' = at
              /\ put'[p] = reg[c] /\ received' = received
              /\ sent' = [sent EXCEPT ![p] = Append(sent[p], reg[c])]
            <4>1. p \in Ports
                BY <1>1 DEF TypeOK
            <4> QED
                BY <1>1, <2>1, <4>1 DEF PutWrite, Goto, RunCallsOK, InPut, InGet, GetLabels, TypeOK
        <3>2. p \in Outputs /\ p \in Ports
            BY <1>1, <3>1, RulePorts, PortFacts
        <3>3. ToGive(n - 1) /\ reg[c] = Term(r.outs[n - 1].from)
            BY <1>1, <3>1 DEF ToGive, Giving, SlotsKnown
        <3>4. SlotView[p] = reg[c]
            BY <1>1, <3>1, <3>3, SlotsAreSeen DEF SlotsSeen
        <3>5. ~GivenAt(p)'
            <4>1. \A m \in DOMAIN r.outs : r.outs[m].port = p => m = n - 1
                BY <1>1, <3>1 DEF IsRule
            <4>2. ~ToGive(n - 1)'
                BY <1>1, <3>1 DEF ToGive, Giving
            <4>3. \A m \in DOMAIN r.outs : r.outs[m].port = p => ~ToGive(m)'
                BY <1>1, <4>1, <4>2 DEF ToGive
            <4> QED
                BY <1>1, <3>1, <4>3 DEF GivenAt
        <3>6. ~GivenAt(at[c])' => SlotView'[at'[c]] = put'[at'[c]]
            BY <1>1, <3>1, <3>2, SlotsAreSeenNext DEF SlotsSeen
        <3>7. \A q \in Inputs : sent'[q] = sent[q]
            BY <1>1, <3>1, <3>2, PortFacts DEF TypeOK
        <3> QED
            BY <3>1, <3>4, <3>5, <3>6, <3>7
    <2>2. CASE GetClear(c)
        <3>1. /\ run = "gets" /\ n - 1 \in DOMAIN r.ins /\ p = r.ins[n - 1]
              /\ pc[c] = "get_clear" /\ at' = at /\ put'[p] = Null /\ sent' = sent
              /\ received' = [received EXCEPT ![p] = Append(received[p], reg[c])]
            <4>1. p \in Ports
                BY <1>1 DEF TypeOK
            <4> QED
                BY <1>1, <2>2, <4>1 DEF GetClear, Goto, RunCallsOK, InPut, InGet, PutLabels, TypeOK
        <3>2. p \in Inputs /\ p \in Ports
            BY <1>1, <3>1, RulePorts, PortFacts
        <3>3. TakenAt(p)
            BY <3>1 DEF TakenAt, ToTake, Firing, Taking, GetLabels
        <3>4. SlotView[p] = Null
            BY <1>1, <3>2, <3>3, ViewsOfSlots
        <3>5. SlotView'[at'[c]] = IF TakenAt(at[c])' THEN Null ELSE put'[at'[c]]
            BY <1>1, <3>1, <3>2, SlotsAreSeenNext DEF SlotsSeen
        <3>6. \A q \in Outputs : received'[q] = received[q]
            BY <1>1, <3>1, <3>2, PortFacts DEF TypeOK
        <3> QED
            BY <3>1, <3>4, <3>5, <3>6
    <2> QED
        BY <2>1, <2>2
<1>5. SlotView' = SlotView
    BY <1>1, <1>3, <1>4, SlotViewStays
<1> QED
    BY <1>2, <1>3, <1>4, <1>5 DEF C!connVars

\* A step of a thread in a call is a step of a component, or shows nothing.
LEMMA CallImplements ==
    ASSUME NEW c \in Components, InCall(c)
    PROVE  [C!ConnNext]_(C!connVars)
<1>1. /\ PortsOK /\ RunOK /\ TypeOK /\ CallOK(c) /\ at[c] \in Ports /\ AnyStep(c)
    BY DEF InCall, PortsOK, CallsOK, TypeOK
<1>2. c = Protocol => at[c] \notin Outputs \/ pc[c] \in PutLabels \cup {"idle"}
    BY <1>1, RuleFacts, RulePorts, PortFacts DEF RunOK, RunCallsOK, InGet, InPut
<1>3. CASE PutWrite(c)
    <2>1. CASE c = Protocol
        BY <1>3, <2>1, OwnWrite
    <2>2. CASE c # Protocol /\ at[c] \in Inputs
        BY <1>3, <2>2, OfferedStep DEF C!ConnNext
    <2>3. CASE c # Protocol /\ at[c] \notin Inputs
        <3>1. at[c] \notin Inputs \cup Outputs
            BY <1>1, <1>3, <2>3 DEF PutWrite, Goto, CallOK, PutLabels, Outputs
        <3>2. /\ \A p \in Inputs \cup Outputs : put'[p] = put[p]
              /\ \A p \in Inputs : sent'[p] = sent[p]
              /\ \A p \in Outputs : received'[p] = received[p]
            BY <1>1, <1>3, <3>1, PortFacts DEF PutWrite, TypeOK
        <3>3. \A p \in Outputs : GetOf(p)' = GetOf(p)
            <4>1. pc[c] # "get_reset" /\ pc'[c] # "get_reset" /\ get' = get
                BY <1>1, <1>3 DEF PutWrite, Goto, TypeOK
            <4> QED
                BY <1>1, <4>1, AskStays, PortFacts
        <3> QED
            BY <2>3, <3>2, <3>3, UnseenStep
    <2> QED
        BY <2>1, <2>2, <2>3
<1>4. CASE GetClear(c)
    <2>1. CASE c = Protocol
        BY <1>4, <2>1, OwnWrite
    <2>2. CASE c # Protocol /\ at[c] \in Outputs
        <3>1. C!Taken(at[c])
            BY <1>4, <2>2, TakenStep
        <3>2. PICK p \in Outputs : p = at[c]
            BY <2>2
        <3>3. C!Taken(p)
            BY <3>1, <3>2 DEF C!Taken
        <3>4. C!ConnNext
            BY <3>3 DEF C!ConnNext
        <3> QED
            BY <3>4
    <2>3. CASE c # Protocol /\ at[c] \notin Outputs
        <3>1. at[c] \notin Inputs \cup Outputs
            BY <1>1, <1>4, <2>3 DEF GetClear, Goto, CallOK, GetLabels, Inputs
        <3>2. /\ \A p \in Inputs \cup Outputs : put'[p] = put[p]
              /\ \A p \in Inputs : sent'[p] = sent[p]
              /\ \A p \in Outputs : received'[p] = received[p]
            BY <1>1, <1>4, <3>1, PortFacts DEF GetClear, TypeOK
        <3>3. \A p \in Outputs : GetOf(p)' = GetOf(p)
            <4>1. get' = get /\ at' = at
                BY <1>4 DEF GetClear
            <4> QED
                BY <1>1, <3>1, <4>1, AskStays, PortFacts
        <3> QED
            BY <2>3, <3>2, <3>3, UnseenStep
    <2> QED
        BY <2>1, <2>2, <2>3
<1>5. CASE GetSet(c) \/ GetReset(c)
    <2>1. CASE at[c] \in Outputs
        <3>1. C!Asked(at[c]) \/ C!Answered(at[c])
            BY <1>5, <2>1, RequestSteps
        <3> QED
            BY <2>1, <3>1 DEF C!ConnNext
    <2>2. CASE at[c] \notin Outputs
        <3>1. \A p \in Outputs : get'[p] = get[p]
            BY <1>1, <1>5, <2>2, PortFacts DEF GetSet, GetReset, TypeOK
        <3>2. at' = at
            BY <1>5 DEF GetSet, GetReset
        <3>3. \A p \in Outputs : GetOf(p)' = GetOf(p)
            BY <1>1, <2>2, <3>1, <3>2, AskStays, PortFacts
        <3>4. Ask' = Ask
            BY <3>3 DEF Ask
        <3> QED
            BY <1>5, <3>4, FieldGetElsewhere DEF C!connVars, Given, Got, Ask
    <2> QED
        BY <2>1, <2>2
<1>6. CASE QuietStep(c)
    <2>1. \A p \in Outputs : GetOf(p)' = GetOf(p)
        <3>1. /\ get' = get
              /\ \/ pc[c] # "get_reset" /\ pc'[c] # "get_reset"
                 \/ pc'[c] = pc[c] /\ at'[c] = at[c]
            BY <1>6 DEF QuietStep, Placed, Seeking, PutLabels, GetLabels
        <3> QED
            BY <1>1, <3>1, AskStays, PortFacts
    <2>2. c = Protocol => (Giving' <=> Giving) /\ (Taking' <=> Taking)
        <3>1. c = Protocol => pc[c] # "idle" \/ UNCHANGED <<pc, at, reg>>
            BY DEF InCall, WaitReturns, thread
        <3> QED
            BY <1>6, <3>1 DEF QuietStep, Placed, Seeking, Giving, Taking, PutLabels, GetLabels
    <2>3. put' = put /\ sent' = sent /\ received' = received
        BY <1>6 DEF QuietStep
    <2> QED
        BY <2>1, <2>2, <2>3, UnseenStep
<1> QED
    BY <1>1, <1>3, <1>4, <1>5, <1>6, StepKinds

-----------------------------------------------------------------------------
(* The steps of run().                                                       *)

\* A step of run() that moves no slot, no request and no cell shows nothing
\* unless it changes the turn of a slot.
LEMMA UnseenRun ==
    ASSUME RunOK, RunTypeOK', MemView' = MemView, UNCHANGED <<port, sent, received>>,
           \A p \in Outputs : GetOf(p)' = GetOf(p), k' = k,
           \A m \in DOMAIN Rules[k].ins : ToTake(m)' <=> ToTake(m),
           \A m \in DOMAIN Rules[k].outs : (ToGive(m)' <=> ToGive(m)) /\ (ToGive(m) => mem' = mem)
    PROVE  UNCHANGED C!connVars
<1>1. RunTypeOK /\ RunTypeOK' /\ put' = put
    BY DEF RunOK, port
<1>2. \A m \in DOMAIN Rules[k].outs : ToGive(m) =>
            Term(Rules[k].outs[m].from)' = Term(Rules[k].outs[m].from)
    BY <1>1 DEF Term
<1>3. \A p \in (Inputs \cup Outputs) \ {} : SlotView'[p] = SlotView[p]
    BY <1>1, <1>2, SlotsStay
<1>4. SlotView' = SlotView
    BY <1>1, <1>3, SlotViewStays
<1> QED
    BY <1>4 DEF C!connVars

\* Outside update() the view is what the fields and the cells hold.
LEMMA UnseenSearch ==
    ASSUME ~Firing, ~Firing', UNCHANGED <<port, sent, received, mem>>,
           \A p \in Outputs : GetOf(p)' = GetOf(p)
    PROVE  UNCHANGED C!connVars
BY DEF C!connVars, SlotView, MemView, Firing, port

\* The evaluation of a guard to true is the firing of its rule.
LEMMA GuardFires ==
    ASSUME PortsOK, RunOK, SlotsKnown', FireTest, GuardTrue, run' = "puts", n' = 1, k' = k
    PROVE  C!Fire(Rules[k])
<1> DEFINE r == Rules[k]
<1>1. /\ run = "fire" /\ UNCHANGED portVars /\ mem' = mem /\ put' = put /\ pc[Protocol] = "idle"
      /\ Rules[k]' = r /\ IsRule(r) /\ MemoryTest(r)
    BY RuleFacts DEF FireTest, At, GuardTrue, portVars, RunOK
<1>2. /\ \A m \in DOMAIN r.ins : put[r.ins[m]] # Null
      /\ \A m \in DOMAIN r.outs : m >= 1 => put[r.outs[m].port] = Null
    BY <1>1 DEF SlotsKnown
<1>3. /\ \A m \in DOMAIN r.ins : r.ins[m] \in Inputs
      /\ \A m \in DOMAIN r.outs : r.outs[m].port \in Outputs /\ r.outs[m].from \in Sources(r) /\ m >= 1
      /\ \A m1, m2 \in DOMAIN r.outs : r.outs[m1].port = r.outs[m2].port => m1 = m2
    <2>1. \A m1, m2 \in DOMAIN r.outs : r.outs[m1].port = r.outs[m2].port => m1 = m2
        BY <1>1 DEF IsRule
    <2>2. \A m \in DOMAIN r.outs : m >= 1
        <3> HIDE DEF r
        <3> QED
            BY <1>1, RulePorts
    <2> QED
        BY <1>1, <2>1, <2>2, RulePorts
<1>4. SlotView = [p \in Inputs \cup Outputs |-> put[p]]
    BY <1>1 DEF SlotView, Firing
<1>5. MemView = mem
    BY <1>1 DEF MemView
<1>6. C!CanFire(r)
    BY <1>1, <1>2, <1>3, <1>4, <1>5 DEF C!CanFire, C!Ins, C!Outs, C!MemoryReady, MemoryTest
<1>7. \A x \in Sources(r) : C!ValueIn(SlotView, MemView, x) = Term(x)
    BY <1>3, <1>4, <1>5 DEF Sources, C!ValueIn, Term
<1>8. SlotView' = [p \in Inputs \cup Outputs |->
                        IF p \in C!Ins(r) THEN Null
                        ELSE IF p \in C!Outs(r) THEN C!ValueIn(SlotView, MemView, C!SourceOf(r, p))
                        ELSE SlotView[p]]
    <2>1. DoneInputs' = C!Ins(r)
        BY <1>1, <1>3 DEF DoneInputs, C!Ins
    <2>2. DueOutputs' = C!Outs(r)
        BY <1>1, <1>3 DEF DueOutputs, C!Outs
    <2>3. ASSUME NEW p \in C!Outs(r) PROVE C!SourceOf(r, p) \in Sources(r)
        <3> DEFINE O == {r.outs[m] : m \in DOMAIN r.outs}
        <3>1. \E o \in O : o.port = p
            BY <2>3 DEF C!Outs
        <3>2. (CHOOSE o \in O : o.port = p) \in O
            <4> HIDE DEF O
            <4> QED BY <3>1
        <3>3. \A o \in O : o.from \in Sources(r)
            BY <1>3
        <3> QED
            BY <3>2, <3>3 DEF C!SourceOf
    <2>4. \A x : Term(x)' = Term(x)
        BY <1>1 DEF Term
    <2>5. SlotView' = [p \in Inputs \cup Outputs |->
            IF p \in DoneInputs' THEN Null
            ELSE IF p \in DueOutputs' THEN Term(C!SourceOf(r, p))' ELSE put[p]]
        BY <1>1 DEF SlotView, Firing, C!SourceOf
    <2>6. \A p \in C!Outs(r) : Term(C!SourceOf(r, p)) = C!ValueIn(SlotView, MemView, C!SourceOf(r, p))
        BY <1>7, <2>3
    <2> QED
        BY <1>4, <2>1, <2>2, <2>4, <2>5, <2>6
<1>9. MemView' = C!Updated(r, SlotView, MemView)
    <2>1. \A x \in DOMAIN r.store : r.store[x] \in Sources(r)
        BY <1>1 DEF IsRule
    <2>2. MemView' = [x \in Cells |-> IF x \in r.clear THEN Null
                                      ELSE IF x \in DOMAIN r.store THEN Term(r.store[x]) ELSE mem[x]]
        BY <1>1 DEF MemView, Term
    <2> QED
        BY <1>5, <1>7, <2>1, <2>2 DEF C!Updated
<1>10. \A p \in Outputs : GetOf(p)' = GetOf(p)
    BY <1>1 DEF GetOf, Inside, portVars
<1>11. sent' = sent /\ received' = received
    BY <1>1 DEF portVars
<1> QED
    BY <1>6, <1>8, <1>9, <1>10, <1>11 DEF C!Fire

\* A step of run() fires a rule, or shows nothing.
LEMMA RunImplements ==
    ASSUME Sequential, PortsOK, RunOK, PortsOK', RunOK', RunStep
    PROVE  [C!ConnNext]_(C!connVars)
<1> DEFINE r == Rules[k]
<1>1. /\ RunTypeOK /\ RunTypeOK' /\ IsRule(r) /\ k \in DOMAIN Rules /\ n \in Nat
      /\ DOMAIN r.ins = 1 .. Len(r.ins) /\ DOMAIN r.outs = 1 .. Len(r.outs)
      /\ Len(r.ins) \in Nat /\ Len(r.outs) \in Nat /\ Protocol \in Components
    <2>1. RunTypeOK /\ RunTypeOK' /\ n \in Nat
        BY DEF RunOK, RunTypeOK
    <2> QED
        BY <2>1, RuleFacts, RulePorts, ProtocolAssumption
<1>2. CASE FireTest
    <2>1. /\ run = "fire" /\ UNCHANGED <<port, sent, received, mem>>
          /\ \A p \in Outputs : GetOf(p)' = GetOf(p)
        BY <1>2 DEF FireTest, At, portVars, port, GetOf, Inside
    <2>2. CASE GuardTrue /\ run' = "puts" /\ n' = 1 /\ UNCHANGED <<i, j, k>>
        <3>1. C!Fire(r)
            BY <1>2, <2>2, GuardFires DEF RunOK
        <3> QED
            BY <1>1, <3>1 DEF C!ConnNext
    <2>3. CASE GuardStep \/ (GuardFalse /\ Advance)
        <3>1. ~Firing /\ ~Firing'
            BY <2>1, <2>3 DEF GuardStep, Advance, Firing
        <3> QED
            BY <2>1, <3>1, UnseenSearch
    <2> QED
        BY <1>2, <2>2, <2>3 DEF FireTest
<1>3. CASE FirePut
    <2> DEFINE c == Protocol
    <2>1. /\ run = "puts" /\ run' = run /\ k' = k /\ n' = n + 1 /\ mem' = mem /\ pc[c] = "idle"
          /\ UNCHANGED <<port, sent, received>> /\ pc'[c] = "put_spin"
        BY <1>1, <1>3 DEF FirePut, At, CallPut, Goto, history, PortsOK, TypeOK
    <2>2. AnyStep(c)
        BY <1>1, <1>3, PutIsCall
    <2>3. get' = get /\ TypeOK
        BY <2>1 DEF port, PortsOK
    <2>4. \A p \in Outputs : GetOf(p)' = GetOf(p)
        BY <1>1, <2>1, <2>2, <2>3, AskStays, PortFacts
    <2>5. MemView' = MemView
        BY <2>1 DEF MemView, Term, port
    <2>6. \A m \in DOMAIN r.ins : ToTake(m)' <=> ToTake(m)
        BY <2>1 DEF ToTake, Firing
    <2>7. \A m \in DOMAIN r.outs : ToGive(m)' <=> ToGive(m)
        <3>1. Giving' /\ ~Giving
            BY <2>1 DEF Giving
        <3>2. \A m \in DOMAIN r.outs : m >= n <=> m >= n + 1 \/ m = (n + 1) - 1
            BY <1>1
        <3> QED
            BY <2>1, <3>1, <3>2 DEF ToGive
    <2> QED
        BY <1>1, <2>1, <2>4, <2>5, <2>6, <2>7, UnseenRun
<1>4. CASE FireMemory
    <2>1. /\ run = "puts" /\ run' = "gets" /\ k' = k /\ n' = 1 /\ n > Len(r.outs)
          /\ UNCHANGED <<port, sent, received>> /\ pc[Protocol] = "idle"
          /\ \A p \in Outputs : GetOf(p)' = GetOf(p)
        BY <1>4 DEF FireMemory, At, portVars, port, GetOf, Inside
    <2>2. mem' = MemView
        BY <1>4, UpdateIsRule
    <2>3. MemView' = MemView
        BY <2>1, <2>2 DEF MemView
    <2>4. \A m \in DOMAIN r.ins : ToTake(m)' /\ ToTake(m)
        BY <1>1, <2>1 DEF ToTake, Firing
    <2>5. \A m \in DOMAIN r.outs : ~ToGive(m)' /\ ~ToGive(m)
        BY <1>1, <2>1 DEF ToGive, Giving
    <2> QED
        BY <1>1, <2>1, <2>3, <2>4, <2>5, UnseenRun
<1>5. CASE FireGet
    <2> DEFINE c == Protocol
    <2>1. /\ run = "gets" /\ run' = run /\ k' = k /\ n' = n + 1 /\ mem' = mem /\ pc[c] = "idle"
          /\ UNCHANGED <<port, sent, received>> /\ pc'[c] = "get_set"
          /\ n <= Len(r.ins) /\ CallGet(c, r.ins[n])
        BY <1>1, <1>5 DEF FireGet, At, CallGet, Goto, history, PortsOK, TypeOK
    <2>2. AnyStep(c)
        <3>1. n \in DOMAIN r.ins
            BY <1>1, <2>1 DEF RunTypeOK
        <3> QED
            BY <1>1, <2>1, <3>1, RulePorts, PortFacts DEF AnyStep
    <2>3. get' = get /\ TypeOK
        BY <2>1 DEF port, PortsOK
    <2>4. \A p \in Outputs : GetOf(p)' = GetOf(p)
        BY <1>1, <2>1, <2>2, <2>3, AskStays, PortFacts
    <2>5. MemView' = MemView
        BY <2>1 DEF MemView
    <2>6. \A m \in DOMAIN r.ins : ToTake(m)' <=> ToTake(m)
        <3>1. Taking' /\ ~Taking
            BY <2>1 DEF Taking, GetLabels
        <3>2. \A m \in DOMAIN r.ins : m >= n <=> m >= n + 1 \/ m = (n + 1) - 1
            BY <1>1
        <3> QED
            BY <2>1, <3>1, <3>2 DEF ToTake, Firing
    <2>7. \A m \in DOMAIN r.outs : ~ToGive(m)' /\ ~ToGive(m)
        BY <2>1 DEF ToGive
    <2> QED
        BY <1>1, <2>1, <2>4, <2>5, <2>6, <2>7, UnseenRun
<1>6. CASE FireDone
    <2>1. /\ run = "gets" /\ run' = "sync" /\ k' = k /\ n > Len(r.ins) /\ mem' = mem
          /\ UNCHANGED <<port, sent, received>> /\ pc[Protocol] = "idle"
          /\ \A p \in Outputs : GetOf(p)' = GetOf(p)
        BY <1>6 DEF FireDone, Advance, At, portVars, port, GetOf, Inside
    <2>2. MemView' = MemView
        BY <2>1 DEF MemView
    <2>3. \A m \in DOMAIN r.ins : ~ToTake(m)' /\ ~ToTake(m)
        BY <1>1, <2>1 DEF ToTake, Firing, Taking, GetLabels
    <2>4. \A m \in DOMAIN r.outs : ~ToGive(m)' /\ ~ToGive(m)
        BY <2>1 DEF ToGive
    <2> QED
        BY <1>1, <2>1, <2>2, <2>3, <2>4, UnseenRun
<1>7. CASE RunSync \/ RunCheck \/ RunSuspend \/ RunWake
    <2>1. /\ UNCHANGED <<port, sent, received, mem>> /\ \A p \in Outputs : GetOf(p)' = GetOf(p)
          /\ ~Firing /\ ~Firing'
        BY <1>7 DEF RunSync, RunCheck, RunSuspend, RunWake, At, GuardStep, port, thread, history,
            GetOf, Inside, Firing
    <2> QED
        BY <2>1, UnseenSearch
<1> QED
    BY <1>2, <1>3, <1>4, <1>5, <1>6, <1>7 DEF RunStep

-----------------------------------------------------------------------------
LEMMA ViewStep ==
    ASSUME Sequential, ProtocolInv, ProtocolInv', [Next]_vars
    PROVE  [C!ConnNext]_(C!connVars)
<1>1. PortsOK /\ RunOK /\ PortsOK' /\ RunOK' /\ RunTypeOK'
    BY DEF ProtocolInv, PortsOK, RunOK
<1>2. CASE RunStep
    BY <1>1, <1>2, RunImplements
<1>3. ASSUME NEW c \in Components, PortStep(c) PROVE [C!ConnNext]_(C!connVars)
    BY <1>1, <1>3, BusyStep, CallImplements DEF PortStep, InCall
<1>4. ASSUME NEW c \in Components, Call(c) PROVE [C!ConnNext]_(C!connVars)
    <2>1. AnyStep(c)
        BY <1>4, StepsAreSteps DEF Call, ThreadStep
    <2> QED
        BY <1>1, <1>4, <2>1, CallImplements DEF Call, InCall
<1>5. ASSUME NEW c \in Components, Interrupted(c) PROVE [C!ConnNext]_(C!connVars)
    BY <1>1, <1>5, CallImplements DEF Interrupted, AnyStep, InCall
<1>6. CASE UNCHANGED vars
    BY <1>6 DEF vars, portVars, runVars, C!connVars, SlotView, MemView, Firing, DoneInputs,
        DueOutputs, Term, GetOf, Inside
<1> QED
    BY <1>2, <1>3, <1>4, <1>5, <1>6 DEF Next

LEMMA ViewInit == Init => C!ConnInit
<1> SUFFICES ASSUME Init PROVE C!ConnInit
    OBVIOUS
<1>1. /\ run = "fire" /\ mem = InitMem /\ put = [p \in Ports |-> Null]
      /\ get = [p \in Ports |-> FALSE] /\ sent = [p \in Ports |-> <<>>]
      /\ received = [p \in Ports |-> <<>>]
    BY DEF Init, PortInit
<1>2. SlotView = [p \in Inputs \cup Outputs |-> Null] /\ MemView = InitMem
    BY <1>1, PortFacts DEF SlotView, MemView, Firing
<1>3. \A p \in Outputs : GetOf(p) = "none"
    BY <1>1, PortFacts DEF GetOf
<1> QED
    BY <1>1, <1>2, <1>3, PortFacts DEF C!ConnInit

\* Step by step, and with every interleaving of its thread and the threads of
\* the components, the generated protocol (Java.stg) with its ports implements
\* its rules, each fired in one atomic step, provided that no rule moves data
\* between cells that it stores to.
THEOREM AtomicFiring == Sequential => (Spec => FiresAtomically)
<1> SUFFICES ASSUME Sequential PROVE Spec => FiresAtomically
    OBVIOUS
<1>1. Init => C!ConnInit
    BY ViewInit
<1>2. ProtocolInv /\ ProtocolInv' /\ [Next]_vars => [C!ConnNext]_(C!connVars)
    BY ViewStep
<1> QED
    BY <1>1, <1>2, ProtocolInvariance, PTL DEF Spec, FiresAtomically, C!ConnSpec

\* Under the same condition the order in which update() evaluates the entries
\* of the map does not matter (Commands.java promises one that does not).
THEOREM OrderFree == Sequential => (Spec => SequentialUpdate)
<1> SUFFICES ASSUME Sequential PROVE Spec => SequentialUpdate
    OBVIOUS
<1>1. ProtocolInv /\ [Next]_vars => [FireMemory => mem' = MemView]_vars
    <2>1. ProtocolInv => PortsOK /\ RunOK
        BY DEF ProtocolInv, PortsOK, RunOK
    <2>2. ProtocolInv /\ FireMemory => mem' = MemView
        BY <2>1, UpdateIsRule
    <2> QED
        BY <2>2
<1> QED
    BY <1>1, ProtocolInvariance, PTL DEF Spec, SequentialUpdate
=============================================================================
