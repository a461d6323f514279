----------------------- MODULE LykosRefinementProof ------------------------
(***************************************************************************)
(* A generated Lykos protocol implements Exchange: every step of every     *)
(* thread is, in the view of the components, the start or the end of an    *)
(* operation, one exchange, or no step at all.  An exchange happens at the *)
(* moment a thread that holds the semaphore finds that its transition can  *)
(* fire and solves the constraint; the statements that follow are only     *)
(* seen as done already.  The invariant says that they will do what is     *)
(* seen, and that nobody comes in between who would see otherwise.         *)
(***************************************************************************)
EXTENDS LykosProof

RuleView == UNION {RulesOf(m) : m \in Automata}
RequestView == [p \in Ports |-> Request(p)]
StoreView == [s \in Slaves |-> IF Holds(s) THEN cell[s] ELSE None]

\* The thread of p does not come to, nor leave, where its request is not pending.
Stays(p) == (At(p, "idle")' <=> At(p, "idle")) /\ (At(p, "throw")' <=> At(p, "throw"))

-----------------------------------------------------------------------------
(* Steps that nobody sees                                                  *)

LEMMA RulesStay == circuit' = circuit => RuleView' = RuleView
<1> SUFFICES ASSUME circuit' = circuit
             PROVE  RuleView' = RuleView
    OBVIOUS
<1>1. ASSUME NEW m
      PROVE  RulesOf(m)' = RulesOf(m)
    <2>1. /\ Grouped(m)' = Grouped(m) /\ Public(m)' = Public(m) /\ Alone(m)' = Alone(m)
          /\ Private(m)' = Private(m) /\ Source(m)' = Source(m) /\ group' = group
        BY Same
    <2> QED
        BY <2>1 DEF RulesOf
<1> QED
    BY <1>1, Same DEF RuleView

LEMMA ViewStays ==
    ASSUME UNCHANGED <<circuit, buffer, cell>>,
           \A p \in Ports : Request(p)' = Request(p),
           \A s \in Slaves : Holds(s)' <=> Holds(s)
    PROVE  UNCHANGED Promise!vars
<1>1. RuleView' = RuleView
    BY RulesStay
<1>2. RequestView' = RequestView
    BY DEF RequestView
<1>3. StoreView' = StoreView
    BY DEF StoreView
<1> QED
    BY <1>1, <1>2, <1>3 DEF Promise!vars, RuleView, RequestView, StoreView

\* What is still to be done does not change, so neither do the slaves.
LEMMA HoldsStays ==
    ASSUME UNCHANGED <<todo, full>>
    PROVE  /\ \A do : \A x : Pending(do, x)' <=> Pending(do, x)
           /\ \A s : Holds(s)' <=> Holds(s)
BY DEF Holds, Pending, Does

LEMMA QuietStep ==
    ASSUME UNCHANGED <<circuit, status, buffer, cell, full, todo>>,
           \A p \in Ports : Stays(p)
    PROVE  UNCHANGED Promise!vars
<1>1. \A p \in Ports : Request(p)' = Request(p)
    BY HoldsStays DEF Request, Stays
<1> QED
    BY <1>1, HoldsStays, ViewStays

-----------------------------------------------------------------------------
(* Operations start and end                                                *)

LEMMA StartAsks ==
    ASSUME LykosInv, NEW p \in Ports, Start(p)
    PROVE  Promise!Ask(p)
<1> USE DEF LykosInv
<1>1. /\ op[p].at = "idle"
      /\ status' = [status EXCEPT ![p] = "pending"]
      /\ UNCHANGED <<circuit, cell, full, todo>>
      /\ \A q \in Ports : q # p => op'[q] = op[q] /\ status'[q] = status[q]
      /\ op'[p].at = "flag" /\ status'[p] = "pending"
    BY DEF Start, At, LykosTypeOK, slaveVars
<1>2. PICK d \in IF p \in OutPorts THEN Data[p] ELSE {None} : buffer' = [buffer EXCEPT ![p] = d]
    BY DEF Start
<1>3. p \in OutPorts => d \in UNION Range(Data)
    BY <1>2, LykosAssumption DEF Range
<1>4. ~Pending("complete", p)
    BY <1>1 DEF RequestsOK, Open
<1>5. Request(p) = "none" /\ Request(p)' = "pending"
    BY <1>1, <1>4, HoldsStays DEF Request, At
<1>6. \A q \in Ports : q # p => Request(q)' = Request(q)
    BY <1>1, HoldsStays DEF Request, At
<1>7. RequestView[p] = "none" /\ RequestView' = [RequestView EXCEPT ![p] = "pending"]
    BY <1>5, <1>6 DEF RequestView
<1>8. \E e \in IF p \in OutPorts THEN UNION Range(Data) ELSE {None} : buffer' = [buffer EXCEPT ![p] = e]
    BY <1>2, <1>3
<1>9. StoreView' = StoreView
    BY <1>1, HoldsStays DEF StoreView
<1>10. RuleView' = RuleView
    BY <1>1, RulesStay
<1> QED
    BY <1>7, <1>8, <1>9, <1>10 DEF Promise!Ask, RuleView, RequestView, StoreView

\* An operation that has been served returns.
LEMMA OperationReturns ==
    ASSUME NEW p \in Ports, op[p].at \notin {"idle", "throw"}, At(p, "idle")',
           status[p] = "completed" \/ Pending("complete", p),
           UNCHANGED <<circuit, buffer, cell, full, todo>>,
           \A q \in Ports : q # p => op'[q] = op[q] /\ status'[q] = status[q]
    PROVE  Promise!Return(p)
<1>1. Request(p) = "done" /\ Request(p)' = "none"
    BY DEF Request, At
<1>2. \A q \in Ports : q # p => Request(q)' = Request(q)
    BY HoldsStays DEF Request, At
<1>3. RequestView[p] = "done" /\ RequestView' = [RequestView EXCEPT ![p] = "none"]
    BY <1>1, <1>2 DEF RequestView
<1>4. StoreView' = StoreView
    BY HoldsStays DEF StoreView
<1>5. RuleView' = RuleView
    BY RulesStay
<1> QED
    BY <1>3, <1>4, <1>5 DEF Promise!Return, RuleView, RequestView, StoreView

\* A put or a get that returns normally has been served ...
LEMMA ThreadStepSeen ==
    ASSUME LykosInv, NEW p \in Ports,
           Flag(p) \/ Offer(p) \/ Publish(p) \/ Check(p) \/ Wake(p) \/ Interrupt(p)
               \/ Resume(p) \/ Expire(p) \/ Fired(p)
    PROVE  Promise!Return(p) \/ UNCHANGED Promise!vars
<1> USE DEF LykosInv
<1>1. UNCHANGED <<circuit, status, buffer, cell, full, todo>>
    BY DEF Flag, Offer, Publish, Check, Wake, Interrupt, Resume, Expire, Fired, portVars, slaveVars
<1>2. op \in [Ports -> OpType]
    BY DEF LykosTypeOK, OpType
<1>3. \A q \in Ports : q # p => op'[q] = op[q]
    BY <1>2 DEF Flag, Offer, Publish, Check, Wake, Interrupt, Resume, Expire, Fired, Goto
<1>4. op[p].at \notin {"idle", "throw"} /\ op'[p].at # "throw"
    <2>1. op[p].at \notin {"idle", "throw"}
        BY DEF Flag, Offer, Publish, Check, Wake, Interrupt, Resume, Expire, Fired, At
    <2>2. \A l \in Labels : Goto(p, l) /\ l # "throw" => op'[p].at # "throw"
        BY <1>2 DEF Goto, OpType, Idle
    <2>3. CASE Interrupt(p)
        BY <1>2, <2>3 DEF Interrupt, OpType
    <2>4. CASE Fired(p)
        BY <2>1, <2>2, <2>4 DEF Fired, AfterCall, Labels
    <2>5. CASE Flag(p) \/ Offer(p)
        <3>1. PICK l \in {"check", "call", "publish"} : Goto(p, l)
            BY <2>5 DEF Flag, Offer
        <3> QED
            BY <2>1, <2>2, <3>1 DEF Labels
    <2>6. CASE Check(p) \/ Wake(p)
        <3>1. PICK l \in {"idle", "check", "call", "wait"} : Goto(p, l)
            BY <2>6 DEF Check, Wake, Retry
        <3> QED
            BY <2>1, <2>2, <3>1 DEF Labels
    <2>7. CASE Publish(p) \/ Resume(p) \/ Expire(p)
        <3>1. PICK l \in {"call", "cancel"} : Goto(p, l)
            BY <2>7 DEF Publish, Resume, Expire
        <3> QED
            BY <2>1, <2>2, <3>1 DEF Labels
    <2> QED
        BY <2>1, <2>3, <2>4, <2>5, <2>6, <2>7
<1>5. op'[p].at = "idle" => status[p] = "completed" \/ Pending("complete", p)
    <2> SUFFICES ASSUME op'[p].at = "idle"
                 PROVE  status[p] = "completed" \/ Pending("complete", p)
        OBVIOUS
    <2>1. CASE Check(p)
        BY <1>2, <2>1 DEF Check, Goto, OpType
    <2>2. CASE Fired(p)
        <3>1. op[p].at = "firing" /\ Goto(p, AfterCall(p, TRUE))
            BY <2>2 DEF Fired, At
        <3>2. op[p].timed
            BY <1>2, <3>1 DEF AfterCall, Goto, OpType
        <3> QED
            BY <3>1, <3>2 DEF OpsOK, At
    <2>3. CASE Flag(p) \/ Offer(p) \/ Publish(p) \/ Wake(p) \/ Interrupt(p) \/ Resume(p) \/ Expire(p)
        BY <1>2, <2>3 DEF Flag, Offer, Publish, Wake, Interrupt, Resume, Expire, Goto, Retry, OpType
    <2> QED
        BY <2>1, <2>2, <2>3
<1>6. CASE op'[p].at = "idle"
    BY <1>1, <1>3, <1>4, <1>5, <1>6, OperationReturns DEF At
<1>7. CASE op'[p].at # "idle"
    <2>1. \A q \in Ports : Stays(q)
        BY <1>3, <1>4, <1>7 DEF Stays, At
    <2> QED
        BY <1>1, <2>1, QuietStep
<1> QED
    BY <1>6, <1>7

\* ... and one that times out has not: cancelSync withdraws the request, unless
\* it finds it completed.
LEMMA CancelSeen ==
    ASSUME LykosInv, NEW p \in Ports, CancelSync(p)
    PROVE  Promise!Return(p) \/ Promise!Withdraw(p)
<1> USE DEF LykosInv
<1>1. /\ op \in [Ports -> OpType] /\ status \in [Ports -> {None, "pending", "completed"}]
    BY DEF LykosTypeOK, OpType
<1>2. /\ op[p].at = "cancel" /\ lock[Master(p)] = None /\ status' = [status EXCEPT ![p] = None]
      /\ Goto(p, IF status[p] = "completed" THEN "idle" ELSE "throw")
      /\ UNCHANGED <<circuit, buffer, cell, full, todo>>
    BY DEF CancelSync, At, slaveVars
<1>3. \A q \in Ports : q # p => op'[q] = op[q] /\ status'[q] = status[q]
    BY <1>1, <1>2 DEF Goto
<1>4. CASE status[p] = "completed"
    <2>1. At(p, "idle")'
        BY <1>1, <1>2, <1>4 DEF Goto, Idle, At
    <2> QED
        BY <1>2, <1>3, <1>4, <2>1, OperationReturns
<1>5. CASE status[p] # "completed"
    <2>1. op'[p].at = "throw"
        BY <1>1, <1>2, <1>5 DEF Goto, OpType
    <2>2. todo[Master(p)] = <<>>
        BY <1>2, UserFacts DEF TodoOK, At
    <2>3. ~Pending("complete", p)
        BY <1>2, <2>2, NotPending DEF At
    <2>4. Request(p) = "pending" /\ Request(p)' = "withdrawn"
        <3>1. status'[p] # "completed" /\ ~Pending("complete", p)'
            BY <1>1, <1>2, <2>3, HoldsStays, LykosAssumption
        <3>2. Request(p) = "pending"
            BY <1>2, <1>5, <2>3 DEF Request, At
        <3>3. Request(p)' = "withdrawn"
            BY <2>1, <3>1 DEF Request, At
        <3> QED
            BY <3>2, <3>3
    <2>5. \A q \in Ports : q # p => Request(q)' = Request(q)
        BY <1>2, <1>3, HoldsStays DEF Request, At
    <2>6. RequestView[p] = "pending" /\ RequestView' = [RequestView EXCEPT ![p] = "withdrawn"]
        BY <2>4, <2>5 DEF RequestView
    <2>7. StoreView' = StoreView /\ RuleView' = RuleView
        BY <1>2, HoldsStays, RulesStay DEF StoreView
    <2> QED
        BY <1>2, <2>6, <2>7 DEF Promise!Withdraw, RuleView, RequestView, StoreView
<1> QED
    BY <1>4, <1>5

\* A TimeoutException is thrown for a request that has been withdrawn.
LEMMA ThrowSeen ==
    ASSUME LykosInv, NEW p \in Ports, Throw(p)
    PROVE  Promise!Fail(p)
<1>1. op \in [Ports -> OpType]
    BY DEF LykosInv, LykosTypeOK, OpType
<1>2. /\ op[p].at = "throw" /\ Goto(p, "idle")
      /\ UNCHANGED <<circuit, status, buffer, cell, full, todo>>
    BY DEF Throw, At, portVars, slaveVars
<1>3. op'[p].at = "idle" /\ \A q \in Ports : q # p => op'[q] = op[q]
    BY <1>1, <1>2 DEF Goto, Idle
<1>4. Request(p) = "withdrawn" /\ Request(p)' = "none"
    <2>1. status[p] = None /\ ~Pending("complete", p)
        BY <1>2, LykosAssumption DEF LykosInv, OpsOK, RequestsOK, Open, At
    <2>2. Request(p) = "withdrawn"
        BY <1>2, <2>1, LykosAssumption DEF Request, At
    <2>3. Request(p)' = "none"
        BY <1>3 DEF Request, At
    <2> QED
        BY <2>2, <2>3
<1>5. \A q \in Ports : q # p => Request(q)' = Request(q)
    BY <1>2, <1>3, HoldsStays DEF Request, At
<1>6. RequestView[p] = "withdrawn" /\ RequestView' = [RequestView EXCEPT ![p] = "none"]
    BY <1>4, <1>5 DEF RequestView
<1>7. StoreView' = StoreView /\ RuleView' = RuleView
    BY <1>2, HoldsStays, RulesStay DEF StoreView
<1> QED
    BY <1>2, <1>6, <1>7 DEF Promise!Fail, RuleView, RequestView, StoreView

-----------------------------------------------------------------------------
(* A transition fires: the exchange                                        *)

LEMMA RuleFacts ==
    ASSUME LykosInv, NEW m \in Automata, NEW holder, Fire(m, holder), todo[m] = <<>>
    PROVE  \E r \in RuleView :
              /\ r.ports = Range(Served(m))
              /\ r.fills = {s \in Slaves : <<"in", s>> \in Range(Private(m))}
              /\ r.empties = {s \in Slaves : <<"out", s>> \in Range(Private(m))}
              /\ r.from \in Slaves => /\ <<"out", r.from>> \in Range(Private(m))
                                      /\ Datum(m) = cell[r.from]
              /\ r.from \notin Slaves => Datum(m) = buffer[r.from]
<1> USE DEF LykosInv
<1>1. /\ items[m] \in Seq(Grouped(m)) /\ (Grouped(m) # {} => items[m] # <<>>)
    BY FireFacts
<1>2. /\ Alone(m) \in Seq(Ports) /\ Grouped(m) \subseteq Ports
      /\ \/ Source(m) \in Public(m) \cap OutPorts
         \/ Source(m) \in Slaves /\ <<"out", Source(m)>> \in Range(Private(m))
    BY MasterFacts DEF Public
<1>3. group \subseteq Ports /\ Ports \cap Slaves = {} /\ OutPorts \subseteq Ports
    BY OwnerFacts, LykosAssumption DEF Ports
<1>4. Source(m) \in Slaves => /\ <<"out", Source(m)>> \in Range(Private(m))
                              /\ Source(m) \notin group /\ Datum(m) = cell[Source(m)]
    BY <1>2, <1>3 DEF Datum
<1>5. Source(m) \notin Slaves /\ Source(m) \notin group => Datum(m) = buffer[Source(m)]
    BY DEF Datum
<1>6. Source(m) \in group => Datum(m) = buffer[Head(items[m])]
    BY <1>3 DEF Datum
<1>7. CASE Grouped(m) = {}
    <2> DEFINE r == [ports |-> Public(m), from |-> Source(m),
                     fills |-> {s \in Slaves : <<"in", s>> \in Range(Private(m))},
                     empties |-> {s \in Slaves : <<"out", s>> \in Range(Private(m))}]
    <2>1. r \in RuleView
        BY <1>7 DEF RuleView, RulesOf
    <2>2. Range(Served(m)) = Public(m)
        <3>1. Served(m) = Alone(m) \o <<>>
            BY <1>7 DEF Served
        <3>2. Served(m) = Alone(m)
            BY <1>2, <3>1, ConcatEmptySeq
        <3> QED
            BY <1>7, <3>2 DEF Public
    <2>3. Source(m) \notin group
        <3>1. Source(m) \in Public(m) => (Source(m) \in group <=> Source(m) \in Grouped(m))
            BY OwnerFacts
        <3> QED
            BY <1>2, <1>4, <1>7, <3>1
    <2> QED
        BY <1>4, <1>5, <2>1, <2>2, <2>3
<1>8. CASE Grouped(m) # {}
    <2> DEFINE q == Head(items[m])
               f == IF Source(m) \in group THEN q ELSE Source(m)
               r == [ports |-> Range(Alone(m)) \cup {q}, from |-> f,
                     fills |-> {s \in Slaves : <<"in", s>> \in Range(Private(m))},
                     empties |-> {s \in Slaves : <<"out", s>> \in Range(Private(m))}]
    <2>1. q \in Grouped(m)
        BY <1>1, <1>8, TailFacts
    <2>2. r \in RuleView
        BY <1>8, <2>1 DEF RuleView, RulesOf
    <2>3. Range(Served(m)) = Range(Alone(m)) \cup {q}
        BY <1>1, <1>8, ServedFacts
    <2>4. q \notin Slaves
        BY <1>2, <1>3, <2>1
    <2> HIDE DEF q
    <2>5. /\ f \in Slaves => <<"out", f>> \in Range(Private(m)) /\ Datum(m) = cell[f]
          /\ f \notin Slaves => Datum(m) = buffer[f]
        BY <1>4, <1>5, <1>6, <2>4 DEF q
    <2> QED
        BY <2>2, <2>3, <2>5
<1> QED
    BY <1>7, <1>8

\* Whose request is served, and which slave is moved, is done by nobody else:
\* m has nothing left to do, and no other master has these ports.
LEMMA NobodyElse ==
    ASSUME LykosInv, NEW m \in Automata, todo[m] = <<>>
    PROVE  /\ \A p \in Public(m) : ~Pending("complete", p)
           /\ \A x \in PrivatePorts : Opposite(x) \in Range(Private(m)) => ~Pending("reach", x)
<1> USE DEF LykosInv
<1>1. ASSUME NEW n \in Masters, NEW do, NEW x, Does(n, do, x)
      PROVE  n \in Automata /\ n # m
    <2>1. todo[n] # <<>>
        BY <1>1, EmptySeq DEF Does
    <2> QED
        BY <2>1 DEF TodoOK
<1>2. ASSUME NEW p \in Public(m), NEW n \in Masters, Does(n, "complete", p)
      PROVE  FALSE
    <2>1. p \in Ports
        BY MasterFacts
    <2>2. p \in Public(n)
        BY <1>2, <2>1 DEF TodoOK
    <2> QED
        BY <1>1, <1>2, <2>2, OwnerFacts
<1>3. ASSUME NEW x \in PrivatePorts, Opposite(x) \in Range(Private(m)),
             NEW n \in Masters, Does(n, "reach", x)
      PROVE  FALSE
    <2>1. Opposite(x) \in Range(Private(n))
        BY <1>3 DEF TodoOK
    <2> QED
        BY <1>1, <1>3, <2>1, OwnerFacts
<1> QED
    BY <1>2, <1>3 DEF Pending

\* After the transition has fired its ports are as good as completed, and its
\* slaves as good as moved; no other port and no other slave is.
LEMMA FirePending ==
    ASSUME LykosInv, NEW m \in Automata, NEW holder, Fire(m, holder), todo[m] = <<>>
    PROVE  /\ \A p : Pending("complete", p)' <=> Pending("complete", p) \/ p \in Range(Served(m))
           /\ \A x \in PrivatePorts : Pending("reach", x)' <=>
                 Pending("reach", x) \/ Opposite(x) \in Range(Private(m))
<1>1. m \in Masters
    BY MasterFacts DEF LykosInv
<1>2. /\ items[m] \in Seq(Grouped(m)) /\ (Grouped(m) # {} => items[m] # <<>>)
      /\ \A n \in Masters : n # m => \A do : \A x : Does(n, do, x)' <=> Does(n, do, x)
      /\ \A do : \A x : ~Does(m, do, x) /\ (Does(m, do, x)' <=> <<do, x>> \in Range(Statements(m)))
    BY FireFacts
<1>3. /\ \A p : <<"complete", p>> \in Range(Statements(m)) <=> p \in Range(Served(m))
      /\ \A x \in PrivatePorts :
            <<"reach", x>> \in Range(Statements(m)) <=> Opposite(x) \in Range(Private(m))
    BY <1>2, StatementsFacts DEF LykosInv
<1>4. \A do : \A x : Pending(do, x)' <=> Pending(do, x) \/ <<do, x>> \in Range(Statements(m))
    BY <1>1, <1>2 DEF Pending
<1> QED
    BY <1>3, <1>4

\* The slaves that are filled were empty, those that are emptied full; both are
\* seen to be moved at once.
LEMMA FireHolds ==
    ASSUME LykosInv, NEW m \in Automata, NEW holder, Fire(m, holder), todo[m] = <<>>,
           full' = full, NEW s \in Slaves
    PROVE  /\ <<"in", s>> \in Range(Private(m)) => ~Holds(s) /\ Holds(s)'
           /\ <<"out", s>> \in Range(Private(m)) => Holds(s) /\ ~Holds(s)'
           /\ <<"in", s>> \notin Range(Private(m)) /\ <<"out", s>> \notin Range(Private(m))
                 => (Holds(s)' <=> Holds(s))
<1> USE DEF LykosInv
<1> DEFINE in == <<"in", s>>
           out == <<"out", s>>
<1>1. /\ in \in PrivatePorts /\ out \in PrivatePorts /\ Opposite(in) = out /\ Opposite(out) = in
    BY DEF PrivatePorts, Opposite
<1>2. /\ Usable(in) <=> s \notin full
      /\ Usable(out) <=> s \in full
    BY DEF Usable
<1>3. /\ in \in Range(Private(m)) => s \notin full
      /\ out \in Range(Private(m)) => s \in full
    BY <1>2, FireFacts
<1>4. /\ in \in Range(Private(m)) => ~Pending("reach", out)
      /\ out \in Range(Private(m)) => ~Pending("reach", in)
    BY <1>1, NobodyElse
<1>5. /\ Pending("reach", in)' <=> Pending("reach", in) \/ out \in Range(Private(m))
      /\ Pending("reach", out)' <=> Pending("reach", out) \/ in \in Range(Private(m))
    BY <1>1, FirePending
<1>6. Pending("reach", out) => s \notin full
    BY <1>1, <1>2 DEF Pending, TodoOK
<1>7. /\ Holds(s) <=> Pending("reach", out) \/ (s \in full /\ ~Pending("reach", in))
      /\ Holds(s)' <=> Pending("reach", out)' \/ (s \in full /\ ~Pending("reach", in)')
    BY DEF Holds
<1> HIDE DEF in, out
<1>8. /\ in \in Range(Private(m)) => ~Holds(s) /\ Holds(s)'
      /\ out \in Range(Private(m)) => Holds(s) /\ ~Holds(s)'
      /\ in \notin Range(Private(m)) /\ out \notin Range(Private(m)) => (Holds(s)' <=> Holds(s))
    BY <1>3, <1>4, <1>5, <1>6, <1>7
<1> QED
    BY <1>8 DEF in, out

LEMMA FireServes ==
    ASSUME LykosInv, NEW m \in Automata, NEW holder, Fire(m, holder), todo[m] = <<>>,
           UNCHANGED <<circuit, status, full>>, \A p \in Ports : Stays(p)
    PROVE  \E r \in RuleView : Promise!Serve(r)
<1> USE DEF LykosInv
<1>1. PICK r \in RuleView :
          /\ r.ports = Range(Served(m))
          /\ r.fills = {s \in Slaves : <<"in", s>> \in Range(Private(m))}
          /\ r.empties = {s \in Slaves : <<"out", s>> \in Range(Private(m))}
          /\ r.from \in Slaves => /\ <<"out", r.from>> \in Range(Private(m))
                                  /\ Datum(m) = cell[r.from]
          /\ r.from \notin Slaves => Datum(m) = buffer[r.from]
    BY RuleFacts
<1>2. Range(Served(m)) \subseteq Public(m) /\ Public(m) \subseteq Ports
    BY FireFacts, MasterFacts
<1>3. \A p \in Range(Served(m)) :
          /\ status[p] = "pending" /\ ~At(p, "idle") /\ ~At(p, "throw") /\ ~Pending("complete", p)
    BY <1>2, FireFacts, NobodyElse, LykosAssumption DEF Open, At, OpsOK
<1>4. \A p \in Range(Served(m)) : Request(p) = "pending" /\ Request(p)' = "done"
    BY <1>2, <1>3, FirePending DEF Request, Stays
<1>5. \A p \in Ports \ Range(Served(m)) : Request(p)' = Request(p)
    BY FirePending DEF Request, Stays
<1>6. /\ \A p \in r.ports : RequestView[p] = "pending"
      /\ RequestView' = [p \in Ports |-> IF p \in r.ports THEN "done" ELSE RequestView[p]]
    BY <1>1, <1>2, <1>4, <1>5 DEF RequestView
<1>7. \A s \in Slaves : StoreView[s] = IF Holds(s) THEN cell[s] ELSE None
    BY DEF StoreView
<1>8. /\ \A s \in r.fills : StoreView[s] = None
      /\ \A s \in r.empties : StoreView[s] = cell[s] /\ StoreView[s] # None
    BY <1>1, <1>7, FireHolds DEF DataOK
<1> DEFINE v == IF r.from \in Slaves THEN StoreView[r.from] ELSE buffer[r.from]
<1>9. Datum(m) = v
    BY <1>1, <1>8
<1>10. buffer' = [p \in Ports |-> IF p \in r.ports \cap InPorts THEN v ELSE buffer[p]]
    <2>1. buffer' = [p \in Ports |-> IF p \in InPorts \cap Range(Served(m))
                                     THEN Datum(m) ELSE buffer[p]]
        BY DEF Fire, Solve
    <2> HIDE DEF v
    <2> QED
        BY <1>1, <1>9, <2>1
<1>11. StoreView' = [s \in Slaves |-> IF s \in r.fills THEN v
                                      ELSE IF s \in r.empties THEN None ELSE StoreView[s]]
    <2>1. cell' = [s \in Slaves |-> IF <<"in", s>> \in Range(Private(m)) THEN Datum(m) ELSE cell[s]]
        BY DEF Fire, Solve
    <2>2. StoreView' = [s \in Slaves |-> IF Holds(s)' THEN cell'[s] ELSE None]
        BY DEF StoreView
    <2>3. ASSUME NEW s \in Slaves
          PROVE  (IF Holds(s)' THEN cell'[s] ELSE None)
                     = IF s \in r.fills THEN Datum(m)
                       ELSE IF s \in r.empties THEN None ELSE StoreView[s]
        BY <1>1, <1>7, <2>1, FireHolds
    <2> HIDE DEF v
    <2> QED
        BY <1>9, <2>2, <2>3
<1>12. RuleView' = RuleView
    BY RulesStay
<1> QED
    BY <1>6, <1>8, <1>10, <1>11, <1>12 DEF Promise!Serve, Promise!Ports, Ports, RuleView, RequestView, StoreView

\* callSync: the operation has been completed, or is served now, or waits.
LEMMA CallSyncSeen ==
    ASSUME LykosInv, NEW p \in Ports, CallSync(p)
    PROVE  \/ Promise!Return(p) \/ (\E r \in RuleView : Promise!Serve(r))
           \/ UNCHANGED Promise!vars
<1> USE DEF LykosInv
<1> DEFINE m == Master(p)
<1>1. /\ op[p].at = "call" /\ lock[m] = None /\ UNCHANGED <<circuit, status, full>>
    BY DEF CallSync, At
<1>2. op \in [Ports -> OpType]
    BY DEF LykosTypeOK, OpType
<1>3. m \in Automata
    BY <1>1, UserFacts DEF At
<1>4. \A q \in Ports : q # p => op'[q] = op[q]
    BY <1>2 DEF CallSync, Goto
<1>5. CASE status[p] # "completed" /\ Fire(m, p) /\ Goto(p, "firing")
    <2>1. todo[m] = <<>>
        BY <1>1, <1>3, MasterFacts DEF TodoOK
    <2>2. op'[p].at = "firing"
        BY <1>2, <1>5 DEF Goto, OpType
    <2>3. \A q \in Ports : Stays(q)
        BY <1>1, <1>4, <2>2 DEF Stays, At
    <2> HIDE DEF m
    <2> QED
        BY <1>1, <1>3, <1>5, <2>1, <2>3, FireServes
<1>6. CASE UNCHANGED <<buffer, cell, todo>>
    <2>1. (op'[p].at = "idle" => status[p] = "completed") /\ op'[p].at # "throw"
        <3>1. PICK result \in BOOLEAN : /\ Goto(p, AfterCall(p, result)) \/ Goto(p, "firing")
                                        /\ result => status[p] = "completed"
            BY DEF CallSync
        <3>2. CASE Goto(p, "firing")
            BY <1>2, <3>2 DEF Goto, OpType
        <3>3. CASE Goto(p, AfterCall(p, result))
            <4>1. /\ AfterCall(p, result) = "idle" => result
                  /\ AfterCall(p, result) \in {"idle", "check", "wait"}
                BY DEF AfterCall
            <4>2. op'[p].at = AfterCall(p, result)
                BY <1>2, <3>3 DEF Goto, Idle, OpType
            <4> QED
                BY <3>1, <4>1, <4>2
        <3> QED
            BY <3>1, <3>2, <3>3
    <2>2. CASE op'[p].at = "idle"
        BY <1>1, <1>4, <1>6, <2>1, <2>2, OperationReturns DEF At
    <2>3. CASE op'[p].at # "idle"
        <3>1. \A q \in Ports : Stays(q)
            BY <1>1, <1>4, <2>1, <2>3 DEF Stays, At
        <3> QED
            BY <1>1, <1>6, <3>1, QuietStep
    <2> QED
        BY <2>2, <2>3
<1> QED
    BY <1>5, <1>6 DEF CallSync

LEMMA RunSeen ==
    ASSUME LykosInv, NEW m \in Automata, Run(m)
    PROVE  (\E r \in RuleView : Promise!Serve(r)) \/ UNCHANGED Promise!vars
<1>1. UNCHANGED <<circuit, op, status, full>>
    BY DEF Run, Dequeue, Call, NextHandler, portVars, slaveVars
<1>2. \A q \in Ports : Stays(q)
    BY <1>1 DEF Stays, At
<1>3. CASE Call(m) /\ Fire(m, m)
    <2>1. todo[m] = <<>>
        BY <1>3, MasterFacts DEF Call, LykosInv, LockOK, TodoOK
    <2> QED
        BY <1>1, <1>2, <1>3, <2>1, FireServes
<1>4. CASE UNCHANGED <<buffer, cell, todo>>
    BY <1>1, <1>2, <1>4, QuietStep
<1> QED
    BY <1>3, <1>4 DEF Run, Dequeue, Call, NextHandler, portVars, slaveVars

-----------------------------------------------------------------------------
(* What has been seen is done                                              *)

\* A statement that does nothing that is seen.
LEMMA OtherStatement ==
    ASSUME LykosInv, NEW m \in Automata, Statement(m), Do(m) \notin {"complete", "reach"},
           UNCHANGED <<status, full>>
    PROVE  UNCHANGED Promise!vars
<1>1. UNCHANGED <<circuit, op, buffer, cell>>
    BY StatementFacts
<1>2. \A do \in {"complete", "reach"} : \A x : \A n \in Masters : Does(n, do, x)' <=> Does(n, do, x)
    BY StatementFacts
<1>3. \A do \in {"complete", "reach"} : \A x : Pending(do, x)' <=> Pending(do, x)
    BY <1>2 DEF Pending
<1>4. \A p \in Ports : Request(p)' = Request(p)
    BY <1>1, <1>3 DEF Request, At
<1>5. \A s \in Slaves : Holds(s)' <=> Holds(s)
    BY <1>3 DEF Holds
<1> QED
    BY <1>1, <1>4, <1>5, ViewStays

LEMMA CompleteSeen ==
    ASSUME LykosInv, NEW m \in Automata, Statement(m), Do(m) = "complete", Complete(On(m))
    PROVE  UNCHANGED Promise!vars
<1>0. PICK p : p = On(m)
    OBVIOUS
<1>1. /\ UNCHANGED <<circuit, op, buffer, cell>> /\ m \in Masters
      /\ Does(m, "complete", p) /\ <<"complete", p>> \in Steps
    BY <1>0, StatementFacts
<1>2. p \in Ports
    BY <1>1 DEF Steps
<1>3. status' = [status EXCEPT ![p] = "completed"] /\ full' = full
    BY <1>0 DEF Complete
<1>4. status \in [Ports -> {None, "pending", "completed"}]
    BY DEF LykosInv, LykosTypeOK
<1>5. \A do : \A x : <<do, x>> # <<"complete", p>> => (Pending(do, x)' <=> Pending(do, x))
    BY <1>0, StatementFacts DEF Pending
<1>6. \A q \in Ports : q # p => Request(q)' = Request(q)
    BY <1>1, <1>3, <1>4, <1>5 DEF Request, At
<1>7. Request(p)' = Request(p)
    <2>1. Pending("complete", p) /\ status'[p] = "completed"
        BY <1>1, <1>2, <1>3, <1>4 DEF Pending
    <2> QED
        BY <1>1, <2>1 DEF Request, At
<1>8. \A s \in Slaves : Holds(s)' <=> Holds(s)
    BY <1>3, <1>5 DEF Holds
<1> QED
    BY <1>1, <1>6, <1>7, <1>8, ViewStays

\* A slave is moved to where it is seen to be already: no other move of it is
\* pending, because there is one master at each side, and one state.
LEMMA ReachSeen ==
    ASSUME LykosInv, NEW m \in Automata, Statement(m), Do(m) = "reach", Reach(On(m))
    PROVE  UNCHANGED Promise!vars
<1>0. PICK x : x = On(m)
    OBVIOUS
<1>1. /\ UNCHANGED <<circuit, op, buffer, cell>> /\ m \in Masters
      /\ Does(m, "reach", x) /\ <<"reach", x>> \in Steps
    BY <1>0, StatementFacts
<1>2. x \in PrivatePorts
    BY <1>1 DEF Steps
<1>3. /\ status' = status
      /\ full' = IF x[1] = "out" THEN full \cup {x[2]} ELSE full \ {x[2]}
    BY <1>0 DEF Reach
<1>4. \A do : \A y : <<do, y>> # <<"reach", x>> => (Pending(do, y)' <=> Pending(do, y))
    BY <1>0, StatementFacts DEF Pending
<1>5. ~Usable(x) /\ Pending("reach", x)
    BY <1>1, <1>2 DEF Pending, TodoOK, LykosInv
<1>6. \A y \in PrivatePorts : Pending("reach", y) => ~Usable(y)
    BY DEF Pending, TodoOK, LykosInv
<1>7. \A q \in Ports : Request(q)' = Request(q)
    BY <1>1, <1>3, <1>4 DEF Request, At
<1>8. ASSUME NEW s \in Slaves
      PROVE  Holds(s)' <=> Holds(s)
    <2> DEFINE in == <<"in", s>>
               out == <<"out", s>>
    <2>1. /\ in \in PrivatePorts /\ out \in PrivatePorts /\ in # out
          /\ Usable(in) <=> s \notin full
          /\ Usable(out) <=> s \in full
        BY DEF PrivatePorts, Usable
    <2>2. CASE x = out
        <3>1. s \notin full /\ s \in full' /\ Pending("reach", out)
            BY <1>3, <1>5, <2>1, <2>2
        <3>2. ~Pending("reach", in)
            BY <1>6, <2>1, <3>1
        <3>3. ~Pending("reach", in)'
            BY <1>4, <2>2, <3>2
        <3> QED
            BY <3>1, <3>3 DEF Holds
    <2>3. CASE x = in
        <3>1. s \in full /\ s \notin full' /\ Pending("reach", in)
            BY <1>3, <1>5, <2>1, <2>3
        <3>2. ~Pending("reach", out)
            BY <1>6, <2>1, <3>1
        <3>3. ~Pending("reach", out)'
            BY <1>4, <2>3, <3>2
        <3> QED
            BY <3>1, <3>2, <3>3 DEF Holds
    <2>4. CASE x # in /\ x # out
        <3>1. x[2] # s
            BY <1>2, <2>4 DEF PrivatePorts
        <3>2. s \in full' <=> s \in full
            BY <1>3, <3>1
        <3>3. /\ Pending("reach", in)' <=> Pending("reach", in)
              /\ Pending("reach", out)' <=> Pending("reach", out)
            BY <1>4, <2>4
        <3> QED
            BY <3>2, <3>3 DEF Holds
    <2> QED
        BY <2>2, <2>3, <2>4
<1> QED
    BY <1>1, <1>7, <1>8, ViewStays

LEMMA StatementSeen ==
    ASSUME LykosInv, NEW m \in Automata, Statement(m)
    PROVE  UNCHANGED Promise!vars
<1>1. \/ Do(m) = "take" /\ Take(On(m))
      \/ Do(m) = "complete" /\ Complete(On(m))
      \/ Do(m) = "release" /\ Release(On(m))
      \/ Do(m) = "reach" /\ Reach(On(m))
      \/ Do(m) = "kick" /\ Kick(On(m))
    BY DEF Statement, Do, On
<1>2. CASE Do(m) = "take" /\ Take(On(m))
    BY <1>2, OtherStatement DEF Take
<1>3. CASE Do(m) = "release" /\ Release(On(m))
    BY <1>3, OtherStatement DEF Release
<1>4. CASE Do(m) = "kick" /\ Kick(On(m))
    BY <1>4, OtherStatement DEF Kick
<1> QED
    BY <1>1, <1>2, <1>3, <1>4, CompleteSeen, ReachSeen

-----------------------------------------------------------------------------

LEMMA ExchangeInit == Init => Promise!Init
<1> SUFFICES ASSUME Init
             PROVE  Promise!Init
    OBVIOUS
<1>1. /\ \A p \in Ports : op[p].at = "idle"
      /\ buffer = [p \in Ports |-> None]
      /\ \A s \in Slaves : cell[s] = None
    BY DEF Init, Idle
<1>2. RequestView = [p \in Ports |-> "none"]
    BY <1>1 DEF RequestView, Request, At
<1>3. StoreView = [s \in Slaves |-> None]
    BY <1>1 DEF StoreView
<1> QED
    BY <1>1, <1>2, <1>3 DEF Promise!Init, Promise!Ports, Ports, RequestView, StoreView

LEMMA ExchangeStep == LykosInv /\ [Next]_vars => [Promise!Next]_(Promise!vars)
<1> SUFFICES ASSUME LykosInv, [Next]_vars
             PROVE  Promise!Next \/ UNCHANGED Promise!vars
    OBVIOUS
<1>1. ASSUME NEW p \in Ports, Promise!Ask(p) \/ Promise!Return(p) \/ Promise!Withdraw(p) \/ Promise!Fail(p)
      PROVE  Promise!Next
    BY <1>1 DEF Promise!Next, Promise!Ports, Ports
<1>2. ASSUME NEW r \in RuleView, Promise!Serve(r)
      PROVE  Promise!Next
    BY <1>2 DEF Promise!Next, RuleView
<1>3. ASSUME NEW p \in Ports, Start(p) \/ Progress(p) \/ Interrupt(p) \/ Expire(p)
      PROVE  Promise!Next \/ UNCHANGED Promise!vars
    <2>1. CASE Start(p)
        BY <1>1, <2>1, StartAsks
    <2>2. CASE CallSync(p)
        BY <1>1, <1>2, <2>2, CallSyncSeen
    <2>3. CASE CancelSync(p)
        BY <1>1, <2>3, CancelSeen
    <2>4. CASE Throw(p)
        BY <1>1, <2>4, ThrowSeen
    <2>5. CASE Flag(p) \/ Offer(p) \/ Publish(p) \/ Check(p) \/ Wake(p) \/ Interrupt(p)
                   \/ Resume(p) \/ Expire(p) \/ Fired(p)
        BY <1>1, <2>5, ThreadStepSeen
    <2> QED
        BY <1>3, <2>1, <2>2, <2>3, <2>4, <2>5 DEF Progress
<1>4. ASSUME NEW m \in Automata, Statement(m) \/ Run(m)
      PROVE  Promise!Next \/ UNCHANGED Promise!vars
    BY <1>2, <1>4, StatementSeen, RunSeen
<1>5. CASE UNCHANGED vars
    BY <1>5, QuietStep DEF vars, portVars, slaveVars, Stays, At
<1> QED
    BY <1>3, <1>4, <1>5 DEF Next

\* Step by step, and with every interleaving of threads of components and
\* masters, time-outs, interrupts and resumptions, the generated protocol
\* (java-protocol.stg) implements the exchanges of its transitions: requests
\* are served all at once or not at all, those that return normally once, and
\* those that throw a TimeoutException never.
THEOREM ProtocolExchanges == Spec => Exchanges
<1>1. Init => Promise!Init
    BY ExchangeInit
<1>2. LykosInv /\ [Next]_vars => [Promise!Next]_(Promise!vars)
    BY ExchangeStep
<1> QED
    BY <1>1, <1>2, LykosInvariance, PTL DEF Spec, Exchanges, Promise!Spec
=============================================================================
