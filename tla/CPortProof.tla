---------------------------- MODULE CPortProof ----------------------------
(***************************************************************************)
(* Proofs about the C runtime, for any automata, ports and fifos: types,   *)
(* the fifos and the contexts that tell two automata about them, what a    *)
(* put or get returns, and that no wakeup is lost.                         *)
(***************************************************************************)
EXTENDS CPort, SequenceTheorems, WellFoundedInduction, NaturalsInduction, TLAPS

-----------------------------------------------------------------------------
(* The invariant                                                           *)

\* The threads that fire transitions, and the automata they do it for.
Main == UserPorts \cup Active
Home(t) == IF t \in UserPorts THEN AutomatonOf(t) ELSE t
Party(a) == Elements(PortList[a]) \cup {a}

\* The calls that t has still to make.
Ops(t) == Elements(todo[t])
Objects == UserPorts \cup Automata \cup Ends
Calls == {<<"signal", x>> : x \in Objects}
    \cup {<<"set", p, d>> : p \in UserPorts, d \in Data}
    \cup {<<"status", p>> : p \in UserPorts} \cup {<<"remove", p>> : p \in UserPorts}
    \cup {<<"state", a, s>> : a \in Automata, s \in States}
    \cup {<<"push", f, d>> : f \in Fifos, d \in Data}
    \cup {<<kind, f>> : kind \in {"pop", "update", "update_output", "unlock"}, f \in Fifos}

PortLabels == {"idle", "register", "test", "lock", "contains", "try", "fired", "return",
               "wait", "unregister"}
LoopLabels == {"loop_while", "loop_lock", "loop_try", "loop_fired", "loop_unlock",
               "loop_check", "loop_wait", "ended"}
OtherLabels == {"idle", "join", "joined"}
LabelsOf(t) == IF t \in UserPorts THEN PortLabels
               ELSE IF t \in Active THEN LoopLabels ELSE OtherLabels

FieldsOK ==
    /\ holder \in [Automata -> Threads \cup {Null}]
    /\ state \in [Automata -> States] /\ active \in [Automata -> BOOLEAN]
    /\ ctx \subseteq UserPorts \cup Ends
    /\ sem \in [Automata \cup UserPorts -> 0 .. SemMax]
    /\ data \in [UserPorts -> Data \cup {Null}]
    /\ status \in [UserPorts -> {"pending", "success", "failed"}]
    /\ fired \in [UserPorts -> Nat]
    /\ last \in [UserPorts -> [States -> Nat]]
    /\ result \in [UserPorts -> {"pending", "success", "failed"}]
FifosOK ==
    /\ ring = [f \in Fifos |-> ring[f]]
    /\ \A f \in Fifos : ring[f] \in [0 .. Capacity[f] -> Data \cup {Null}]
    /\ head \in [Fifos -> Nat] /\ tail \in [Fifos -> Nat]
    /\ \A f \in Fifos : head[f] <= Capacity[f] /\ tail[f] <= Capacity[f]
    /\ fholder \in [Fifos -> Threads \cup {Null}]
    /\ entered \in [Fifos -> Seq(Data)] /\ left \in [Fifos -> Seq(Data)]
ThreadsOK ==
    /\ pc = [t \in Threads |-> pc[t]] /\ \A t \in Threads : pc[t] \in LabelsOf(t)
    /\ cur \in [Threads -> Nat]
    /\ \A t \in Threads : pc[t] \in {"try", "loop_try"} => cur[t] # 0
    /\ todo \in [Threads -> Seq(Calls)]

\* Who tries or fires transitions of an automaton holds its mutex.
Critical(t) == pc[t] \in {"contains", "try", "fired", "loop_try", "loop_fired", "loop_unlock"}
LockOK == \A t \in Main : Critical(t) => holder[Home(t)] = t

\* The calls of a transition are made under the mutex of its automaton and
\* concern its own ports.
Owns(t, c) ==
    /\ c[1] = "push" => AutomatonOf(InEnd(c[2])) = Home(t)
    /\ c[1] = "pop" => AutomatonOf(OutEnd(c[2])) = Home(t)
    /\ c[1] \in {"set", "status", "remove"} => AutomatonOf(c[2]) = Home(t)
    /\ c[1] = "state" => c[2] = Home(t)
WorkOK == \A t \in Threads :
    /\ t \in Main /\ todo[t] # <<>> => pc[t] \in {"fired", "loop_fired"}
    /\ t \notin Main => \A c \in Ops(t) : c[1] = "signal"
    /\ t \in Main => \A c \in Ops(t) : Owns(t, c)

\* A port is resolved once, after it has been set, a fifo is pushed and popped
\* once, and everybody is woken at the end.
InOrder(s) == \A m, n \in DOMAIN s : m < n =>
    /\ s[m][1] \in {"push", "pop", "status"} => s[n][1] # s[m][1] \/ s[n][2] # s[m][2]
    /\ s[m][1] = "status" => s[n][1] # "set"
Kicks(s, a) == \A m \in DOMAIN s :
    s[m][1] \in {"set", "push", "status", "remove", "pop", "state"} =>
        \A x \in Party(a) : \E n \in DOMAIN s : m < n /\ s[n] = <<"signal", x>>
OrderOK == \A t \in Threads : InOrder(todo[t]) /\ (t \in Main => Kicks(todo[t], Home(t)))

\* The ends of a fifo are in the contexts when they should be, or will be
\* corrected before the automaton that relies on them can try a transition.
Has(t, kind, f) == \E c \in Ops(t) : c[1] = kind /\ c[2] = f
RoomOK(f) ==
    /\ \A t \in Threads : Has(t, "push", f) => ~IsFull(f)
    /\ IsFull(f) /\ InEnd(f) \in ctx =>
          \E t \in Main : Home(t) = AutomatonOf(InEnd(f)) /\ Has(t, "update", f)
    /\ (\A t \in Threads : ~Has(t, "update", f)) => (InEnd(f) \in ctx <=> ~IsFull(f))
StockOK(f) ==
    /\ \A t \in Threads : Has(t, "pop", f) => ~IsEmpty(f)
    /\ IsEmpty(f) /\ OutEnd(f) \in ctx =>
          \E t \in Main : /\ Home(t) = AutomatonOf(OutEnd(f))
                          /\ Has(t, "update", f) \/ Has(t, "update_output", f)
    /\ (\A t \in Threads : ~Has(t, "update", f) /\ ~Has(t, "update_output", f)) =>
          (OutEnd(f) \in ctx <=> ~IsEmpty(f))
ContentsOK(f) ==
    /\ Contents(f) \in Seq(Data)
    /\ entered[f] = left[f] \o (IF \E t \in Threads : Has(t, "pop", f)
                                THEN Tail(Contents(f)) ELSE Contents(f))
OffersOK == \A p \in PutPorts : p \in ctx \/ pc[p] # "idle" => data[p] # Null

\* What becomes of an action that nobody cancels.
Served(p) == \E t \in Main : Has(t, "status", p)
Leaving(p) == Served(p) \/ \E t \in Main : Has(t, "remove", p)
Setting(p) == \E t \in Main : Has(t, "set", p)
PortOK(p) ==
    /\ p \in ctx /\ pc[p] \in {"idle", "register", "return"} => Leaving(p)
    /\ p \in ctx /\ status[p] # "pending" => Leaving(p)
    /\ p \in ctx /\ fired[p] # 0 => Leaving(p)
    /\ Served(p) => /\ pc[p] \notin {"idle", "register", "return"}
                    /\ status[p] = "pending" /\ fired[p] = 1
    /\ pc[p] # "idle" => /\ status[p] = "success" => fired[p] = 1
                         /\ status[p] = "failed" => fired[p] = 0
                         /\ status[p] = "pending" /\ fired[p] # 0 => Served(p)
    /\ fired[p] <= 1 /\ (pc[p] = "fired" => fired[p] = 1)
    /\ pc[p] = "register" => status[p] = "pending"
    /\ Setting(p) => Served(p)
    /\ p \notin PutPorts /\ pc[p] # "idle" /\ fired[p] = 1 /\ data[p] = Null => Setting(p)
PortsOK == \A p \in UserPorts \ Cancelled : PortOK(p)

TypesOK == FieldsOK /\ FifosOK /\ ThreadsOK
ControlOK == LockOK /\ WorkOK /\ OrderOK
RingsOK == \A f \in Fifos : RoomOK(f) /\ StockOK(f) /\ ContentsOK(f)
CInv == TypesOK /\ ControlOK /\ RingsOK /\ OffersOK /\ PortsOK

-----------------------------------------------------------------------------
(* Constants                                                               *)

LEMMA ThreadNames ==
    /\ UserPorts \cap Active = {} /\ Main \subseteq Threads
    /\ \A p \in Cancelled : Canceller(p) \in Threads \ Main
    /\ \A a \in Stopped : Stopper(a) \in Threads \ Main
    /\ \A p \in Cancelled : \A a \in Stopped : Canceller(p) # Stopper(a)
    /\ \A p, q \in Cancelled : Canceller(p) = Canceller(q) => p = q
    /\ \A a, b \in Stopped : Stopper(a) = Stopper(b) => a = b
    /\ Null \notin Threads
<1>1. "cancel" # "stop"
    OBVIOUS
<1> QED
    BY <1>1, AutomatonAssumption, NamesAssumption DEF Threads, Main, Canceller, Stopper

LEMMA EndNames ==
    /\ UserPorts \cap Ends = {} /\ Automata \cap Ends = {} /\ UserPorts \cap Automata = {}
    /\ \A f \in Fifos : /\ InEnd(f) \in Ends /\ OutEnd(f) \in Ends
                        /\ InEnd(f) \notin UserPorts /\ OutEnd(f) \notin UserPorts
                        /\ InEnd(f)[1] = f /\ OutEnd(f)[1] = f
    /\ \A f, g \in Fifos : /\ InEnd(f) # OutEnd(g)
                           /\ InEnd(f) = InEnd(g) => f = g
                           /\ OutEnd(f) = OutEnd(g) => f = g
    /\ \A x \in Ends : \E f \in Fifos : x = InEnd(f) \/ x = OutEnd(f)
<1>1. "in" # "out"
    OBVIOUS
<1> QED
    BY <1>1, NamesAssumption DEF Ends, InEnd, OutEnd

LEMMA PortsInAutomata ==
    /\ \A x \in UserPorts \cup Ends : /\ AutomatonOf(x) \in Automata
                                      /\ x \in Elements(PortList[AutomatonOf(x)])
    /\ \A a \in Automata : /\ Elements(PortList[a]) \subseteq UserPorts \cup Ends
                           /\ \A x \in Elements(PortList[a]) : AutomatonOf(x) = a
    /\ \A t \in Main : Home(t) \in Automata
<1>1. \A x \in UserPorts \cup Ends : /\ AutomatonOf(x) \in Automata
                                     /\ x \in Elements(PortList[AutomatonOf(x)])
    BY AutomatonAssumption DEF AutomatonOf
<1>2. \A a \in Automata : Elements(PortList[a]) \subseteq UserPorts \cup Ends
    <2> TAKE a \in Automata
    <2>1. PortList[a] \in Seq(UserPorts \cup Ends)
        BY AutomatonAssumption
    <2> QED
        BY <2>1 DEF Elements
<1>3. \A a \in Automata : \A x \in Elements(PortList[a]) : AutomatonOf(x) = a
    BY <1>1, <1>2, AutomatonAssumption
<1>4. \A t \in Main : Home(t) \in Automata
    BY <1>1, AutomatonAssumption DEF Home, Main
<1> QED
    BY <1>1, <1>2, <1>3, <1>4

LEMMA SequenceElement ==
    ASSUME NEW S, NEW s \in Seq(S), NEW e \in Elements(s)
    PROVE  e \in S
BY DEF Elements

LEMMA TransitionFacts ==
    ASSUME NEW a \in Automata, NEW s \in States, NEW r \in Elements(Transitions[a][s])
    PROVE  /\ r.to \in States
           /\ r.ports \in Seq(UserPorts \cup Ends) /\ r.sets \in Seq(Elements(r.sets))
           /\ \A x \in Elements(r.ports) : x \in UserPorts \cup Ends /\ AutomatonOf(x) = a
           /\ \A m, n \in DOMAIN r.ports : r.ports[m] = r.ports[n] => m = n
           /\ \A m, n \in DOMAIN r.sets : r.sets[m].sink = r.sets[n].sink => m = n
           /\ \A v \in Elements(r.sets) :
                /\ v.sink \in Elements(r.ports) /\ v.source \in Elements(r.ports)
                /\ v.sink \in UserPorts \ PutPorts \/ \E f \in Fifos : v.sink = InEnd(f)
                /\ v.source \in PutPorts \/ \E f \in Fifos : v.source = OutEnd(f)
           /\ \A p \in (Elements(r.ports) \cap UserPorts) \ PutPorts :
                \E m \in DOMAIN r.sets : r.sets[m].sink = p
<1>1. IsTransition(a, r)
    BY AutomatonAssumption
<1>2. Elements(PortList[a]) \subseteq UserPorts \cup Ends
    BY PortsInAutomata
<1>3. /\ r.ports \in Seq(Elements(PortList[a])) /\ r.to \in States
      /\ r.sets \in Seq([sink : Elements(r.ports), source : Elements(r.ports)])
    BY <1>1 DEF IsTransition
<1>4. r.ports \in Seq(UserPorts \cup Ends)
    BY <1>2, <1>3, SeqMonotonic
<1>5. r.sets \in Seq(Elements(r.sets))
    BY <1>3 DEF Elements
<1>6. \A x \in Elements(r.ports) : x \in Elements(PortList[a])
    BY <1>3 DEF Elements
<1>7. \A x \in Elements(r.ports) : x \in UserPorts \cup Ends /\ AutomatonOf(x) = a
    BY <1>6, PortsInAutomata
<1>8. ASSUME NEW v \in Elements(r.sets)
      PROVE  /\ v.sink \in Elements(r.ports) /\ v.source \in Elements(r.ports)
             /\ v.sink \in UserPorts \ PutPorts \/ \E f \in Fifos : v.sink = InEnd(f)
             /\ v.source \in PutPorts \/ \E f \in Fifos : v.source = OutEnd(f)
    <2>1. v.sink \in Elements(r.ports) /\ v.source \in Elements(r.ports)
        <3>1. v \in [sink : Elements(r.ports), source : Elements(r.ports)]
            BY <1>3, SequenceElement
        <3> QED
            BY <3>1
    <2>2. v.sink \notin PutPorts /\ v.source \notin UserPorts \ PutPorts
        BY CPortAssumption
    <2>3. \A f \in Fifos : v.sink # OutEnd(f) /\ v.source # InEnd(f)
        BY <1>1 DEF IsTransition
    <2> QED
        BY <1>7, <2>1, <2>2, <2>3, EndNames
<1>9. ASSUME NEW p \in (Elements(r.ports) \cap UserPorts) \ PutPorts
      PROVE  \E m \in DOMAIN r.sets : r.sets[m].sink = p
    <2>1. PICK v \in Elements(r.sets) : v.sink = p
        BY CPortAssumption
    <2> QED
        BY <2>1 DEF Elements
<1>10. /\ \A m, n \in DOMAIN r.ports : r.ports[m] = r.ports[n] => m = n
       /\ \A m, n \in DOMAIN r.sets : r.sets[m].sink = r.sets[n].sink => m = n
    BY <1>1 DEF IsTransition
<1> QED
    BY <1>3, <1>4, <1>5, <1>7, <1>8, <1>9, <1>10

-----------------------------------------------------------------------------
(* Sequences of calls                                                      *)

LEMMA TailFacts ==
    ASSUME NEW S, NEW s \in Seq(S), s # <<>>
    PROVE  /\ Tail(s) \in Seq(S) /\ Head(s) = s[1] /\ Head(s) \in S /\ 1 \in DOMAIN s
           /\ Len(Tail(s)) = Len(s) - 1 /\ Len(s) \in Nat
           /\ \A m \in DOMAIN Tail(s) : m + 1 \in DOMAIN s /\ Tail(s)[m] = s[m + 1]
           /\ \A m \in DOMAIN s : m # 1 => m - 1 \in DOMAIN Tail(s) /\ Tail(s)[m - 1] = s[m]
           /\ Elements(s) = {Head(s)} \cup Elements(Tail(s))
<1>1. /\ Tail(s) \in Seq(S) /\ Len(Tail(s)) = Len(s) - 1 /\ Head(s) = s[1] /\ Head(s) \in S
      /\ \A m \in 1 .. Len(Tail(s)) : Tail(s)[m] = s[m + 1]
    BY HeadTailProperties
<1>2. Len(s) \in Nat \ {0} /\ DOMAIN s = 1 .. Len(s) /\ DOMAIN Tail(s) = 1 .. Len(s) - 1
    BY <1>1, EmptySeq
<1>3. \A m \in DOMAIN Tail(s) : m + 1 \in DOMAIN s /\ Tail(s)[m] = s[m + 1]
    BY <1>1, <1>2
<1>4. \A m \in DOMAIN s : m # 1 => m - 1 \in DOMAIN Tail(s) /\ Tail(s)[m - 1] = s[m]
    <2> TAKE m \in DOMAIN s
    <2> HAVE m # 1
    <2>1. m - 1 \in DOMAIN Tail(s) /\ (m - 1) + 1 = m
        BY <1>2
    <2> QED
        BY <1>3, <2>1
<1>5. 1 \in DOMAIN s
    BY <1>2
<1>6. Elements(s) = {Head(s)} \cup Elements(Tail(s))
    BY <1>1, <1>3, <1>4, <1>5 DEF Elements
<1> QED
    BY <1>1, <1>2, <1>3, <1>4, <1>5, <1>6

LEMMA ConcatFacts ==
    ASSUME NEW S, NEW s \in Seq(S), NEW t \in Seq(S)
    PROVE  /\ s \o t \in Seq(S) /\ Len(s \o t) = Len(s) + Len(t)
           /\ Len(s) \in Nat /\ Len(t) \in Nat
           /\ \A m \in DOMAIN (s \o t) : \/ m \in DOMAIN s /\ m <= Len(s) /\ (s \o t)[m] = s[m]
                                         \/ /\ m > Len(s) /\ m - Len(s) \in DOMAIN t
                                            /\ (s \o t)[m] = t[m - Len(s)]
           /\ \A m \in DOMAIN s : m \in DOMAIN (s \o t) /\ (s \o t)[m] = s[m]
           /\ \A m \in DOMAIN t : Len(s) + m \in DOMAIN (s \o t) /\ (s \o t)[Len(s) + m] = t[m]
           /\ Elements(s \o t) = Elements(s) \cup Elements(t)
<1> DEFINE c == s \o t
<1>1. /\ c \in Seq(S) /\ Len(c) = Len(s) + Len(t)
      /\ \A m \in 1 .. Len(s) + Len(t) : c[m] = IF m <= Len(s) THEN s[m] ELSE t[m - Len(s)]
    BY ConcatProperties
<1>2. /\ Len(s) \in Nat /\ Len(t) \in Nat /\ DOMAIN c = 1 .. Len(s) + Len(t)
      /\ DOMAIN s = 1 .. Len(s) /\ DOMAIN t = 1 .. Len(t)
    BY <1>1
<1> HIDE DEF c
<1>3. \A m \in DOMAIN c : \/ m \in DOMAIN s /\ m <= Len(s) /\ c[m] = s[m]
                          \/ m > Len(s) /\ m - Len(s) \in DOMAIN t /\ c[m] = t[m - Len(s)]
    BY <1>1, <1>2
<1>4. \A m \in DOMAIN s : m \in DOMAIN c /\ c[m] = s[m]
    BY <1>1, <1>2
<1>5. \A m \in DOMAIN t : Len(s) + m \in DOMAIN c /\ c[Len(s) + m] = t[m]
    <2> TAKE m \in DOMAIN t
    <2>1. Len(s) + m \in 1 .. Len(s) + Len(t) /\ ~(Len(s) + m <= Len(s)) /\ (Len(s) + m) - Len(s) = m
        BY <1>2
    <2> QED
        BY <1>1, <1>2, <2>1
<1>6. Elements(c) = Elements(s) \cup Elements(t)
    BY <1>3, <1>4, <1>5 DEF Elements
<1> QED
    BY <1>1, <1>2, <1>3, <1>4, <1>5, <1>6 DEF c

\* The kinds of the calls, and what they name.
LEMMA SetCallKind ==
    ASSUME NEW v, v.sink \in UserPorts \ PutPorts \/ \E f \in Fifos : v.sink = InEnd(f),
           Peek(v.source) \in Data
    PROVE  /\ SetCall(v) \in Calls /\ SetCall(v)[1] \in {"set", "push"}
           /\ SetCall(v)[1] = "set" => /\ v.sink \in UserPorts /\ SetCall(v)[2] = v.sink
           /\ SetCall(v)[1] = "push" => /\ SetCall(v)[2] \in Fifos /\ v.sink = InEnd(SetCall(v)[2])
           /\ v.sink \in UserPorts => SetCall(v)[1] = "set"
<1>1. CASE v.sink \in UserPorts
    BY <1>1, EndNames DEF SetCall, Calls
<1>2. ASSUME NEW f \in Fifos, v.sink = InEnd(f)
      PROVE  SetCall(v) = <<"push", f, Peek(v.source)>> /\ v.sink \notin UserPorts
    BY <1>2, EndNames DEF SetCall
<1>3. ASSUME NEW f \in Fifos
      PROVE  <<"push", f, Peek(v.source)>> \in Calls
    BY DEF Calls
<1> QED
    BY <1>1, <1>2, <1>3

LEMMA ResolveCallKind ==
    ASSUME NEW x \in UserPorts \cup Ends
    PROVE  /\ ResolveCall(x) \in Calls /\ ResolveCall(x)[1] \in {"status", "pop", "update"}
           /\ x \in UserPorts => ResolveCall(x) = <<"status", x>>
           /\ \A f \in Fifos : /\ x = InEnd(f) => ResolveCall(x) = <<"update", f>>
                               /\ x = OutEnd(f) => ResolveCall(x) = <<"pop", f>>
           /\ ResolveCall(x)[1] = "status" => x \in UserPorts /\ ResolveCall(x)[2] = x
           /\ ResolveCall(x)[1] = "pop" => ResolveCall(x)[2] \in Fifos /\ x = OutEnd(ResolveCall(x)[2])
           /\ ResolveCall(x)[1] = "update" => ResolveCall(x)[2] \in Fifos /\ x = InEnd(ResolveCall(x)[2])
<1>1. CASE x \in UserPorts
    <2>1. ResolveCall(x) = <<"status", x>>
        BY <1>1 DEF ResolveCall
    <2>2. ResolveCall(x) \in Calls
        BY <1>1, <2>1 DEF Calls
    <2> QED
        BY <1>1, <2>1, <2>2, EndNames
<1>2. ASSUME NEW f \in Fifos, x = InEnd(f)
      PROVE  /\ ResolveCall(x) = <<"update", f>> /\ x \notin UserPorts
             /\ \A g \in Fifos : x # OutEnd(g) /\ (x = InEnd(g) => f = g)
    BY <1>2, EndNames DEF ResolveCall
<1>3. ASSUME NEW f \in Fifos, x = OutEnd(f)
      PROVE  /\ ResolveCall(x) = <<"pop", f>> /\ x \notin UserPorts
             /\ \A g \in Fifos : x # InEnd(g) /\ (x = OutEnd(g) => f = g)
    BY <1>3, EndNames DEF ResolveCall
<1>4. ASSUME NEW f \in Fifos
      PROVE  <<"pop", f>> \in Calls /\ <<"update", f>> \in Calls
    BY DEF Calls
<1>5. CASE \E f \in Fifos : x = InEnd(f)
    <2>1. PICK f \in Fifos : x = InEnd(f)
        BY <1>5
    <2>2. ResolveCall(x)[1] = "update" /\ ResolveCall(x)[2] = f
        BY <1>2, <2>1
    <2>3. \A g \in Fifos : x = InEnd(g) => ResolveCall(x) = <<"update", g>>
        BY <1>2
    <2> QED
        BY <1>2, <1>4, <2>1, <2>2, <2>3
<1>6. CASE \E f \in Fifos : x = OutEnd(f)
    <2>1. PICK f \in Fifos : x = OutEnd(f)
        BY <1>6
    <2>2. ResolveCall(x)[1] = "pop" /\ ResolveCall(x)[2] = f
        BY <1>3, <2>1
    <2>3. \A g \in Fifos : x = OutEnd(g) => ResolveCall(x) = <<"pop", g>>
        BY <1>3
    <2> QED
        BY <1>3, <1>4, <2>1, <2>2, <2>3
<1> QED
    BY <1>1, <1>5, <1>6, EndNames

LEMMA KickFacts ==
    ASSUME NEW a \in Automata
    PROVE  /\ Kick(a) \in Seq(Calls) /\ Kick(a) # <<>>
           /\ Elements(Kick(a)) = {<<"signal", x>> : x \in Party(a)}
           /\ \A c \in Elements(Kick(a)) : c[1] = "signal"
<1> DEFINE s == <<<<"signal", a>>>>
           t == [m \in DOMAIN PortList[a] |-> <<"signal", PortList[a][m]>>]
<1>1. PortList[a] \in Seq(UserPorts \cup Ends) /\ Elements(PortList[a]) \subseteq Objects
    BY AutomatonAssumption, PortsInAutomata DEF Objects
<1>2. \A x \in Objects : <<"signal", x>> \in Calls
    BY DEF Calls
<1>3. \A m \in DOMAIN PortList[a] : PortList[a][m] \in Objects
    BY <1>1 DEF Elements
<1>4. t \in Seq(Calls)
    BY <1>1, <1>2, <1>3
<1>5. s \in Seq(Calls) /\ Elements(s) = {<<"signal", a>>}
    <2>1. a \in Objects
        BY DEF Objects
    <2> QED
        BY <1>2, <2>1 DEF Elements
<1>6. Elements(t) = {<<"signal", x>> : x \in Elements(PortList[a])}
    BY DEF Elements
<1>7. Kick(a) = s \o t
    BY DEF Kick
<1> HIDE DEF s, t
<1>8. Kick(a) \in Seq(Calls) /\ Elements(Kick(a)) = Elements(s) \cup Elements(t)
    BY <1>4, <1>5, <1>7, ConcatFacts
<1>9. Elements(Kick(a)) = {<<"signal", x>> : x \in Party(a)}
    BY <1>5, <1>6, <1>8 DEF Party
<1>10. Kick(a) # <<>>
    <2>1. <<"signal", a>> \in Elements(Kick(a))
        BY <1>9 DEF Party
    <2> QED
        BY <2>1 DEF Elements
<1> QED
    BY <1>8, <1>9, <1>10

LEMMA FireCallsFacts ==
    ASSUME NEW a \in Automata, NEW s \in States, NEW r \in Elements(Transitions[a][s]),
           \A v \in Elements(r.sets) : Peek(v.source) \in Data
    PROVE  LET c == FireCalls(a, r)
           IN  /\ c \in Seq(Calls) /\ c # <<>> /\ InOrder(c) /\ Kicks(c, a)
               /\ Elements(c) = {SetCall(r.sets[m]) : m \in DOMAIN r.sets}
                           \cup {ResolveCall(r.ports[m]) : m \in DOMAIN r.ports}
                           \cup {<<"state", a, r.to>>} \cup Elements(Kick(a))
<1> DEFINE A == [m \in DOMAIN r.sets |-> SetCall(r.sets[m])]
           B == [m \in DOMAIN r.ports |-> ResolveCall(r.ports[m])]
           C == <<<<"state", a, r.to>>>>
           K == Kick(a)
           AB == A \o B
           ABC == AB \o C
           c == ABC \o K
<1>1. /\ r.ports \in Seq(UserPorts \cup Ends) /\ r.sets \in Seq(Elements(r.sets)) /\ r.to \in States
      /\ \A m, n \in DOMAIN r.ports : r.ports[m] = r.ports[n] => m = n
      /\ \A m, n \in DOMAIN r.sets : r.sets[m].sink = r.sets[n].sink => m = n
    BY TransitionFacts
<1>2. ASSUME NEW m \in DOMAIN r.sets
      PROVE  /\ SetCall(r.sets[m]) \in Calls /\ SetCall(r.sets[m])[1] \in {"set", "push"}
             /\ SetCall(r.sets[m])[1] = "push" => r.sets[m].sink = InEnd(SetCall(r.sets[m])[2])
    <2>1. r.sets[m] \in Elements(r.sets)
        BY DEF Elements
    <2>2. r.sets[m].sink \in UserPorts \ PutPorts \/ \E f \in Fifos : r.sets[m].sink = InEnd(f)
        BY <2>1, TransitionFacts
    <2> QED
        BY <2>1, <2>2, SetCallKind
<1>3. ASSUME NEW m \in DOMAIN r.ports
      PROVE  /\ ResolveCall(r.ports[m]) \in Calls
             /\ ResolveCall(r.ports[m])[1] \in {"status", "pop", "update"}
             /\ ResolveCall(r.ports[m])[1] = "status" => r.ports[m] = ResolveCall(r.ports[m])[2]
             /\ ResolveCall(r.ports[m])[1] = "pop" => r.ports[m] = OutEnd(ResolveCall(r.ports[m])[2])
    <2>1. r.ports[m] \in UserPorts \cup Ends
        BY <1>1, ElementOfSeq
    <2> QED
        BY <2>1, ResolveCallKind
<1>4. A \in Seq(Calls) /\ DOMAIN A = DOMAIN r.sets
    BY <1>1, <1>2
<1>5. B \in Seq(Calls) /\ DOMAIN B = DOMAIN r.ports
    BY <1>1, <1>3
<1>6. C \in Seq(Calls) /\ Elements(C) = {<<"state", a, r.to>>} /\ Len(C) = 1
    <2>1. <<"state", a, r.to>> \in Calls
        BY <1>1 DEF Calls
    <2> QED
        BY <2>1 DEF Elements
<1>7. /\ K \in Seq(Calls) /\ Elements(K) = {<<"signal", x>> : x \in Party(a)}
      /\ \A k \in DOMAIN K : K[k][1] = "signal"
    BY KickFacts DEF Elements
<1>8. FireCalls(a, r) = c
    <2>1. FireCalls(a, r) = A \o B \o C \o K
        BY DEF FireCalls
    <2> QED
        BY <2>1
<1>9. /\ Elements(A) = {SetCall(r.sets[m]) : m \in DOMAIN r.sets}
      /\ Elements(B) = {ResolveCall(r.ports[m]) : m \in DOMAIN r.ports}
    BY DEF Elements
<1>10. \A m \in DOMAIN A : A[m] = SetCall(r.sets[m])
    BY <1>4
<1>11. \A m \in DOMAIN B : B[m] = ResolveCall(r.ports[m])
    BY <1>5
<1>12. C[1] = <<"state", a, r.to>> /\ DOMAIN C = {1}
    BY <1>6
<1> DEFINE n1 == Len(A)
           n2 == Len(B)
<1> HIDE DEF A, B, C, K
<1>13. /\ AB \in Seq(Calls) /\ Len(AB) = n1 + n2 /\ n1 \in Nat /\ n2 \in Nat
       /\ Elements(AB) = Elements(A) \cup Elements(B)
       /\ \A m \in DOMAIN AB : \/ m \in DOMAIN A /\ m <= n1 /\ AB[m] = A[m]
                               \/ m > n1 /\ m - n1 \in DOMAIN B /\ AB[m] = B[m - n1]
    BY <1>4, <1>5, ConcatFacts
<1>14. DOMAIN AB = 1 .. n1 + n2
    BY <1>13
<1> HIDE DEF AB
<1>15. /\ ABC \in Seq(Calls) /\ Len(ABC) = n1 + n2 + 1
       /\ Elements(ABC) = Elements(AB) \cup Elements(C)
       /\ \A m \in DOMAIN ABC : \/ m \in DOMAIN AB /\ m <= n1 + n2 /\ ABC[m] = AB[m]
                                \/ m - (n1 + n2) \in DOMAIN C /\ ABC[m] = C[m - (n1 + n2)]
    BY <1>6, <1>13, ConcatFacts
<1>16. DOMAIN ABC = 1 .. n1 + n2 + 1
    BY <1>13, <1>15
<1> HIDE DEF ABC
<1>17. /\ c \in Seq(Calls) /\ Len(K) \in Nat /\ Len(c) = n1 + n2 + 1 + Len(K)
       /\ Elements(c) = Elements(ABC) \cup Elements(K)
       /\ \A m \in DOMAIN c : \/ m \in DOMAIN ABC /\ c[m] = ABC[m]
                              \/ m - (n1 + n2 + 1) \in DOMAIN K /\ c[m] = K[m - (n1 + n2 + 1)]
       /\ \A m \in DOMAIN K : (n1 + n2 + 1) + m \in DOMAIN c /\ c[(n1 + n2 + 1) + m] = K[m]
    <2> DEFINE l == Len(ABC)
    <2>1. /\ c \in Seq(Calls) /\ Len(K) \in Nat /\ Len(c) = l + Len(K)
          /\ Elements(c) = Elements(ABC) \cup Elements(K)
          /\ \A m \in DOMAIN c : \/ m \in DOMAIN ABC /\ c[m] = ABC[m]
                                 \/ m - l \in DOMAIN K /\ c[m] = K[m - l]
          /\ \A m \in DOMAIN K : l + m \in DOMAIN c /\ c[l + m] = K[m]
        <3>1. ABC \in Seq(Calls) /\ K \in Seq(Calls)
            BY <1>7, <1>15
        <3> QED
            BY ONLY <3>1, ConcatFacts
    <2>2. l = n1 + n2 + 1
        BY <1>15
    <2> HIDE DEF l, c
    <2> QED
        BY <2>1, <2>2
<1>18. DOMAIN c \subseteq Nat /\ DOMAIN K \subseteq Nat \ {0} /\ c # <<>>
    BY <1>7, <1>13, <1>17
<1> HIDE DEF c
<1>19. ASSUME NEW m \in DOMAIN c
       PROVE  \/ m \in DOMAIN A /\ m <= n1 /\ c[m] = A[m]
              \/ m > n1 /\ m <= n1 + n2 /\ m - n1 \in DOMAIN B /\ c[m] = B[m - n1]
              \/ m = n1 + n2 + 1 /\ c[m] = <<"state", a, r.to>>
              \/ c[m][1] = "signal"
    <2>1. CASE m - (n1 + n2 + 1) \in DOMAIN K /\ c[m] = K[m - (n1 + n2 + 1)]
        BY <1>7, <2>1
    <2>2. CASE m \in DOMAIN ABC /\ c[m] = ABC[m]
        <3>1. CASE m - (n1 + n2) \in DOMAIN C /\ ABC[m] = C[m - (n1 + n2)]
            <4>1. m - (n1 + n2) = 1
                BY <1>12, <3>1
            <4>2. m = n1 + n2 + 1
                BY <1>13, <1>18, <4>1
            <4> QED
                BY <1>12, <2>2, <3>1, <4>1, <4>2
        <3>2. CASE m \in DOMAIN AB /\ ABC[m] = AB[m]
            <4>1. m <= n1 + n2
                BY <1>14, <3>2
            <4> QED
                BY <1>13, <2>2, <3>2, <4>1
        <3> QED
            BY <1>15, <2>2, <3>1, <3>2
    <2> QED
        BY <1>17, <2>1, <2>2
<1>20. ASSUME NEW m \in DOMAIN c
       PROVE  /\ c[m][1] \in {"set", "push"} => m \in DOMAIN r.sets /\ m <= n1 /\ c[m] = SetCall(r.sets[m])
              /\ c[m][1] \in {"status", "pop"} =>
                    m > n1 /\ m - n1 \in DOMAIN r.ports /\ c[m] = ResolveCall(r.ports[m - n1])
              /\ c[m][1] # "signal" => m <= n1 + n2 + 1
    <2>1. CASE m \in DOMAIN A /\ m <= n1 /\ c[m] = A[m]
        <3>1. c[m] = SetCall(r.sets[m]) /\ m \in DOMAIN r.sets /\ c[m][1] \in {"set", "push"}
            BY <1>2, <1>4, <1>10, <2>1
        <3> QED
            BY <1>13, <1>18, <2>1, <3>1
    <2>2. CASE m > n1 /\ m <= n1 + n2 /\ m - n1 \in DOMAIN B /\ c[m] = B[m - n1]
        <3>1. c[m] = ResolveCall(r.ports[m - n1]) /\ m - n1 \in DOMAIN r.ports
            BY <1>5, <1>11, <2>2
        <3>2. c[m][1] \in {"status", "pop", "update"}
            BY <1>3, <3>1
        <3> QED
            BY <1>13, <1>18, <2>2, <3>1, <3>2
    <2>3. CASE m = n1 + n2 + 1 /\ c[m] = <<"state", a, r.to>>
        BY <1>13, <2>3
    <2> QED
        BY <1>19, <2>1, <2>2, <2>3
<1>21. InOrder(c)
    <2> SUFFICES ASSUME NEW m \in DOMAIN c, NEW n \in DOMAIN c, m < n
                 PROVE  /\ c[m][1] \in {"push", "pop", "status"} => c[n][1] # c[m][1] \/ c[n][2] # c[m][2]
                        /\ c[m][1] = "status" => c[n][1] # "set"
        BY DEF InOrder
    <2>1. c[m][1] = "push" /\ c[n][1] = c[m][1] => c[n][2] # c[m][2]
        <3> HAVE c[m][1] = "push" /\ c[n][1] = c[m][1]
        <3>1. /\ m \in DOMAIN r.sets /\ c[m] = SetCall(r.sets[m])
              /\ n \in DOMAIN r.sets /\ c[n] = SetCall(r.sets[n])
            BY <1>20
        <3>2. r.sets[m].sink = InEnd(c[m][2]) /\ r.sets[n].sink = InEnd(c[n][2])
            BY <1>2, <3>1
        <3> QED
            BY <1>1, <1>18, <3>1, <3>2
    <2>2. c[m][1] \in {"pop", "status"} /\ c[n][1] = c[m][1] => c[n][2] # c[m][2]
        <3> HAVE c[m][1] \in {"pop", "status"} /\ c[n][1] = c[m][1]
        <3>1. /\ m - n1 \in DOMAIN r.ports /\ c[m] = ResolveCall(r.ports[m - n1])
              /\ n - n1 \in DOMAIN r.ports /\ c[n] = ResolveCall(r.ports[n - n1])
            BY <1>20
        <3>2. c[m][2] = c[n][2] => r.ports[m - n1] = r.ports[n - n1]
            BY <1>3, <3>1
        <3>3. m - n1 # n - n1
            BY <1>13, <1>18
        <3> QED
            BY <1>1, <3>1, <3>2, <3>3
    <2>3. c[m][1] = "status" => c[n][1] # "set"
        BY <1>13, <1>18, <1>20
    <2> QED
        BY <2>1, <2>2, <2>3
<1>22. Kicks(c, a)
    <2> SUFFICES ASSUME NEW m \in DOMAIN c, c[m][1] # "signal", NEW x \in Party(a)
                 PROVE  \E n \in DOMAIN c : m < n /\ c[n] = <<"signal", x>>
        BY DEF Kicks
    <2>1. PICK k \in DOMAIN K : K[k] = <<"signal", x>>
        <3>1. <<"signal", x>> \in Elements(K)
            BY <1>7
        <3> QED
            BY <3>1 DEF Elements
    <2>2. (n1 + n2 + 1) + k \in DOMAIN c /\ c[(n1 + n2 + 1) + k] = <<"signal", x>>
        BY <1>17, <2>1
    <2>3. m < (n1 + n2 + 1) + k
        BY <1>13, <1>18, <1>20
    <2> QED
        BY <2>2, <2>3
<1>23. Elements(c) = {SetCall(r.sets[m]) : m \in DOMAIN r.sets}
                \cup {ResolveCall(r.ports[m]) : m \in DOMAIN r.ports}
                \cup {<<"state", a, r.to>>} \cup Elements(Kick(a))
    BY <1>6, <1>9, <1>13, <1>15, <1>17 DEF K
<1> QED
    BY <1>8, <1>17, <1>18, <1>21, <1>22, <1>23

\* What the calls of a transition are about.
LEMMA FireOps ==
    ASSUME NEW a \in Automata, NEW s \in States, NEW r \in Elements(Transitions[a][s]),
           \A v \in Elements(r.sets) : Peek(v.source) \in Data
    PROVE  /\ \A c \in Elements(FireCalls(a, r)) :
                /\ c[1] = "push" => c[2] \in Fifos /\ InEnd(c[2]) \in Elements(r.ports)
                /\ c[1] = "pop" => c[2] \in Fifos /\ OutEnd(c[2]) \in Elements(r.ports)
                /\ c[1] = "update" => c[2] \in Fifos /\ InEnd(c[2]) \in Elements(r.ports)
                /\ c[1] \in {"set", "status"} => c[2] \in UserPorts \cap Elements(r.ports)
                /\ c[1] \notin {"remove", "update_output", "unlock"}
                /\ c[1] = "state" => c[2] = a
           /\ \A p \in Elements(r.ports) \cap UserPorts :
                /\ <<"status", p>> \in Elements(FireCalls(a, r))
                /\ p \notin PutPorts => \E c \in Elements(FireCalls(a, r)) : c[1] = "set" /\ c[2] = p
           /\ \A f \in Fifos : OutEnd(f) \in Elements(r.ports) =>
                <<"pop", f>> \in Elements(FireCalls(a, r))
<1> DEFINE A == {SetCall(r.sets[m]) : m \in DOMAIN r.sets}
           B == {ResolveCall(r.ports[m]) : m \in DOMAIN r.ports}
<1>1. Elements(FireCalls(a, r)) = A \cup B \cup {<<"state", a, r.to>>} \cup Elements(Kick(a))
    BY FireCallsFacts
<1>2. ASSUME NEW m \in DOMAIN r.sets
      PROVE  LET v == r.sets[m]  c == SetCall(v)
             IN  /\ c[1] \in {"set", "push"} /\ v.sink \in Elements(r.ports)
                 /\ c[1] = "set" => c[2] \in UserPorts \cap Elements(r.ports)
                 /\ c[1] = "push" => c[2] \in Fifos /\ InEnd(c[2]) \in Elements(r.ports)
                 /\ v.sink \in UserPorts => c[1] = "set" /\ c[2] = v.sink
    <2> DEFINE v == r.sets[m]
    <2>1. v \in Elements(r.sets)
        BY DEF Elements
    <2>2. /\ v.sink \in UserPorts \ PutPorts \/ \E f \in Fifos : v.sink = InEnd(f)
          /\ v.sink \in Elements(r.ports)
        BY <2>1, TransitionFacts
    <2>3. Peek(v.source) \in Data
        BY <2>1
    <2> HIDE DEF v
    <2>4. /\ SetCall(v)[1] \in {"set", "push"}
          /\ SetCall(v)[1] = "set" => v.sink \in UserPorts /\ SetCall(v)[2] = v.sink
          /\ SetCall(v)[1] = "push" => SetCall(v)[2] \in Fifos /\ v.sink = InEnd(SetCall(v)[2])
          /\ v.sink \in UserPorts => SetCall(v)[1] = "set"
        BY <2>2, <2>3, SetCallKind
    <2> QED
        BY <2>2, <2>4 DEF v
<1>3. ASSUME NEW m \in DOMAIN r.ports
      PROVE  LET x == r.ports[m]  c == ResolveCall(x)
             IN  /\ c[1] \in {"status", "pop", "update"} /\ x \in Elements(r.ports)
                 /\ c[1] = "status" => c[2] \in UserPorts \cap Elements(r.ports)
                 /\ c[1] = "pop" => c[2] \in Fifos /\ OutEnd(c[2]) \in Elements(r.ports)
                 /\ c[1] = "update" => c[2] \in Fifos /\ InEnd(c[2]) \in Elements(r.ports)
                 /\ x \in UserPorts => c = <<"status", x>>
                 /\ \A f \in Fifos : x = OutEnd(f) => c = <<"pop", f>>
    <2> DEFINE x == r.ports[m]
    <2>1. x \in Elements(r.ports)
        BY DEF Elements
    <2>2. x \in UserPorts \cup Ends
        BY <2>1, TransitionFacts
    <2> HIDE DEF x
    <2>3. /\ ResolveCall(x)[1] \in {"status", "pop", "update"}
          /\ x \in UserPorts => ResolveCall(x) = <<"status", x>>
          /\ \A f \in Fifos : x = OutEnd(f) => ResolveCall(x) = <<"pop", f>>
          /\ ResolveCall(x)[1] = "status" => x \in UserPorts /\ ResolveCall(x)[2] = x
          /\ ResolveCall(x)[1] = "pop" => ResolveCall(x)[2] \in Fifos /\ x = OutEnd(ResolveCall(x)[2])
          /\ ResolveCall(x)[1] = "update" =>
                ResolveCall(x)[2] \in Fifos /\ x = InEnd(ResolveCall(x)[2])
        BY <2>2, ResolveCallKind
    <2> QED
        BY <2>1, <2>3 DEF x
<1>4. ASSUME NEW c \in Elements(FireCalls(a, r))
      PROVE  /\ c[1] = "push" => c[2] \in Fifos /\ InEnd(c[2]) \in Elements(r.ports)
             /\ c[1] = "pop" => c[2] \in Fifos /\ OutEnd(c[2]) \in Elements(r.ports)
             /\ c[1] = "update" => c[2] \in Fifos /\ InEnd(c[2]) \in Elements(r.ports)
             /\ c[1] \in {"set", "status"} => c[2] \in UserPorts \cap Elements(r.ports)
             /\ c[1] \notin {"remove", "update_output", "unlock"}
             /\ c[1] = "state" => c[2] = a
    <2>1. CASE c \in A
        <3>1. PICK m \in DOMAIN r.sets : c = SetCall(r.sets[m])
            BY <2>1
        <3> QED
            BY <1>2, <3>1
    <2>2. CASE c \in B
        <3>1. PICK m \in DOMAIN r.ports : c = ResolveCall(r.ports[m])
            BY <2>2
        <3> QED
            BY <1>3, <3>1
    <2>3. CASE c = <<"state", a, r.to>>
        BY <2>3
    <2>4. CASE c \in Elements(Kick(a))
        <3>1. c[1] = "signal"
            BY <2>4, KickFacts
        <3> QED
            BY <3>1
    <2> QED
        BY <1>1, <2>1, <2>2, <2>3, <2>4
<1>5. ASSUME NEW x \in Elements(r.ports)
      PROVE  /\ x \in UserPorts => <<"status", x>> \in B
             /\ \A f \in Fifos : x = OutEnd(f) => <<"pop", f>> \in B
    <2>1. PICK m \in DOMAIN r.ports : x = r.ports[m]
        BY DEF Elements
    <2> QED
        BY <1>3, <2>1
<1>6. ASSUME NEW p \in Elements(r.ports) \cap UserPorts, p \notin PutPorts
      PROVE  \E c \in A : c[1] = "set" /\ c[2] = p
    <2>1. PICK m \in DOMAIN r.sets : r.sets[m].sink = p
        BY <1>6, TransitionFacts
    <2>2. SetCall(r.sets[m])[1] = "set" /\ SetCall(r.sets[m])[2] = p
        BY <1>2, <2>1
    <2> QED
        BY <2>2
<1> QED
    BY <1>1, <1>4, <1>5, <1>6

-----------------------------------------------------------------------------
(* A thread makes its next call                                            *)

LEMMA ThenFacts ==
    ASSUME ThreadsOK, NEW t \in Threads, todo[t] # <<>>,
           NEW cs \in Seq(Calls), Then(t, cs)
    PROVE  /\ todo' \in [Threads -> Seq(Calls)]
           /\ \A u \in Threads : u # t => todo'[u] = todo[u] /\ Ops(u)' = Ops(u)
           /\ todo'[t] = cs \o Tail(todo[t]) /\ Tail(todo[t]) \in Seq(Calls)
           /\ Ops(t)' = Elements(cs) \cup Elements(Tail(todo[t]))
           /\ Ops(t) = {Head(todo[t])} \cup Elements(Tail(todo[t]))
           /\ Head(todo[t]) \in Calls
<1>1. todo \in [Threads -> Seq(Calls)]
    BY DEF ThreadsOK
<1>2. /\ Tail(todo[t]) \in Seq(Calls) /\ Head(todo[t]) \in Calls
      /\ Ops(t) = {Head(todo[t])} \cup Elements(Tail(todo[t]))
    BY <1>1, TailFacts DEF Ops
<1>3. cs \o Tail(todo[t]) \in Seq(Calls)
      /\ Elements(cs \o Tail(todo[t])) = Elements(cs) \cup Elements(Tail(todo[t]))
    <2>1. cs \in Seq(Calls) /\ Tail(todo[t]) \in Seq(Calls)
        BY <1>2
    <2> QED
        BY ONLY <2>1, ConcatFacts
<1>4. todo' = [todo EXCEPT ![t] = cs \o Tail(todo[t])]
    BY DEF Then
<1> QED
    BY <1>1, <1>2, <1>3, <1>4 DEF Ops

\* What t has still to do stays in order, when its next call leaves calls
\* that put nothing, resolve nothing, and are not about another port.
LEMMA ControlStays ==
    ASSUME ThreadsOK, ControlOK, NEW t \in Threads, todo[t] # <<>>,
           NEW cs \in Seq(Calls), Then(t, cs), UNCHANGED <<pc, cur, holder>>,
           \A c \in Elements(cs) :
                /\ c[1] \in {"signal", "remove", "update", "update_output", "unlock"}
                /\ c[1] = "remove" => Head(todo[t])[1] = "status" /\ Head(todo[t])[2] = c[2],
           Head(todo[t])[1] = "signal" => cs = <<>>
    PROVE  ThreadsOK' /\ ControlOK'
<1> DEFINE old == todo[t]
           new == todo'[t]
           h == Head(old)
<1>1. /\ todo' \in [Threads -> Seq(Calls)]
      /\ \A u \in Threads : u # t => todo'[u] = todo[u] /\ Ops(u)' = Ops(u)
      /\ new = cs \o Tail(old) /\ Tail(old) \in Seq(Calls)
      /\ Ops(t)' = Elements(cs) \cup Elements(Tail(old))
      /\ Ops(t) = {h} \cup Elements(Tail(old)) /\ h \in Calls
    BY ThenFacts
<1>2. ThreadsOK'
    BY <1>1 DEF ThreadsOK
<1>3. LockOK'
    BY DEF ControlOK, LockOK, Critical
<1>4. WorkOK'
    <2> SUFFICES ASSUME NEW u \in Threads
                 PROVE  /\ u \in Main /\ todo'[u] # <<>> => pc'[u] \in {"fired", "loop_fired"}
                        /\ u \notin Main => \A c \in Ops(u)' : c[1] = "signal"
                        /\ u \in Main => \A c \in Ops(u)' : Owns(u, c)
        BY DEF WorkOK, Owns, Main, Home
    <2>1. /\ u \in Main /\ todo[u] # <<>> => pc[u] \in {"fired", "loop_fired"}
          /\ u \notin Main => \A c \in Ops(u) : c[1] = "signal"
          /\ u \in Main => \A c \in Ops(u) : Owns(u, c)
        BY DEF ControlOK, WorkOK
    <2>2. CASE u # t
        BY <1>1, <2>1, <2>2
    <2>3. CASE u = t
        <3>1. u \in Main => pc'[u] \in {"fired", "loop_fired"}
            BY <2>1, <2>3
        <3>2. u \notin Main => \A c \in Ops(u)' : c[1] = "signal"
            <4>1. u \notin Main => cs = <<>>
                BY <1>1, <2>1, <2>3
            <4> QED
                BY <1>1, <2>1, <2>3, <4>1 DEF Elements
        <3>3. u \in Main => \A c \in Ops(u)' : Owns(u, c)
            <4> SUFFICES ASSUME u \in Main, NEW c \in Ops(u)'
                         PROVE  Owns(u, c)
                OBVIOUS
            <4>1. CASE c \in Elements(Tail(old))
                BY <1>1, <2>1, <2>3, <4>1
            <4>2. CASE c \in Elements(cs)
                <5>1. Owns(u, h)
                    BY <1>1, <2>1, <2>3
                <5> QED
                    BY <4>2, <5>1 DEF Owns
            <4> QED
                BY <1>1, <2>3, <4>1, <4>2
        <3> QED
            BY <3>1, <3>2, <3>3
    <2> QED
        BY <2>2, <2>3
<1> DEFINE l == Len(cs)
<1>5. /\ l \in Nat
      /\ \A m \in DOMAIN new : \/ new[m] \in Elements(cs) /\ m <= l
                               \/ m > l /\ m - l + 1 \in DOMAIN old /\ new[m] = old[m - l + 1]
      /\ \A m \in DOMAIN old : m # 1 => l + (m - 1) \in DOMAIN new /\ new[l + (m - 1)] = old[m]
      /\ DOMAIN new \subseteq Nat /\ DOMAIN old \subseteq Nat \ {0} /\ 1 \in DOMAIN old /\ old[1] = h
    <2>1. /\ \A m \in DOMAIN Tail(old) : m + 1 \in DOMAIN old /\ Tail(old)[m] = old[m + 1]
          /\ \A m \in DOMAIN old : m # 1 => m - 1 \in DOMAIN Tail(old) /\ Tail(old)[m - 1] = old[m]
          /\ 1 \in DOMAIN old /\ h = old[1] /\ old \in Seq(Calls)
        BY TailFacts DEF ThreadsOK
    <2>2. /\ l \in Nat /\ new \in Seq(Calls)
          /\ \A m \in DOMAIN new : \/ m \in DOMAIN cs /\ m <= l /\ new[m] = cs[m]
                                   \/ m > l /\ m - l \in DOMAIN Tail(old) /\ new[m] = Tail(old)[m - l]
          /\ \A m \in DOMAIN Tail(old) : l + m \in DOMAIN new /\ new[l + m] = Tail(old)[m]
        <3>1. Tail(old) \in Seq(Calls)
            BY <1>1
        <3>2. new = cs \o Tail(old)
            BY <1>1
        <3> HIDE DEF new, old
        <3> QED
            BY <3>1, <3>2, ConcatFacts
    <2> HIDE DEF new, old, l
    <2>3. \A m \in DOMAIN cs : cs[m] \in Elements(cs)
        BY DEF Elements
    <2> QED
        BY <2>1, <2>2, <2>3
<1>6. InOrder(new)
    <2>1. InOrder(old)
        BY DEF ControlOK, OrderOK
    <2> HIDE DEF new, old, l
    <2> SUFFICES ASSUME NEW m \in DOMAIN new, NEW n \in DOMAIN new, m < n
                 PROVE  /\ new[m][1] \in {"push", "pop", "status"} =>
                               new[n][1] # new[m][1] \/ new[n][2] # new[m][2]
                        /\ new[m][1] = "status" => new[n][1] # "set"
        BY DEF InOrder
    <2>2. CASE m <= l
        <3>1. new[m] \in Elements(cs)
            BY <1>5, <2>2
        <3> QED
            BY <3>1
    <2>3. CASE m > l
        <3>1. /\ m - l + 1 \in DOMAIN old /\ new[m] = old[m - l + 1]
              /\ n - l + 1 \in DOMAIN old /\ new[n] = old[n - l + 1]
            BY <1>5, <2>3
        <3>2. m - l + 1 < n - l + 1
            BY <1>5
        <3> QED
            BY <2>1, <3>1, <3>2 DEF InOrder
    <2> QED
        BY <1>5, <2>2, <2>3
<1>7. t \in Main => Kicks(new, Home(t))
    <2> SUFFICES ASSUME t \in Main
                 PROVE  Kicks(new, Home(t))
        OBVIOUS
    <2>1. Kicks(old, Home(t))
        BY DEF ControlOK, OrderOK
    <2> DEFINE a == Home(t)
               Late == {"set", "push", "status", "remove", "pop", "state"}
    <2> HIDE DEF new, old, l, a
    <2> SUFFICES ASSUME NEW m \in DOMAIN new, new[m][1] \in Late, NEW x \in Party(a)
                 PROVE  \E n \in DOMAIN new : m < n /\ new[n] = <<"signal", x>>
        BY DEF Kicks, a
    <2>2. PICK k \in DOMAIN old : /\ old[k] = <<"signal", x>> /\ k # 1 /\ m < l + (k - 1)
        <3>1. CASE m <= l
            <4>1. old[1][1] = "status"
                BY <1>5, <3>1 DEF old
            <4>2. PICK k \in DOMAIN old : 1 < k /\ old[k] = <<"signal", x>>
                BY <1>5, <2>1, <4>1 DEF Kicks, a
            <4> QED
                BY <1>5, <3>1, <4>2
        <3>2. CASE m > l
            <4>1. m - l + 1 \in DOMAIN old /\ old[m - l + 1][1] \in Late
                BY <1>5, <3>2
            <4>2. PICK k \in DOMAIN old : m - l + 1 < k /\ old[k] = <<"signal", x>>
                BY <2>1, <4>1 DEF Kicks, a
            <4>3. m \in Nat /\ l \in Nat /\ k \in Nat
                BY <1>5
            <4> QED
                BY <3>2, <4>2, <4>3
        <3> QED
            BY <1>5, <3>1, <3>2
    <2> QED
        BY <1>5, <2>2
<1>8. OrderOK'
    <2> SUFFICES ASSUME NEW u \in Threads
                 PROVE  InOrder(todo'[u]) /\ (u \in Main => Kicks(todo'[u], Home(u)))
        BY DEF OrderOK, InOrder, Kicks, Main, Home, Party
    <2>1. InOrder(todo[u]) /\ (u \in Main => Kicks(todo[u], Home(u)))
        BY DEF ControlOK, OrderOK
    <2> QED
        BY <1>1, <1>6, <1>7, <2>1
<1> QED
    BY <1>2, <1>3, <1>4, <1>8 DEF ControlOK

LEMMA CallShape ==
    ASSUME NEW c \in Calls
    PROVE  /\ c[1] = "signal" => c[2] \in Objects
           /\ c[1] \in {"set", "status", "remove"} => c[2] \in UserPorts
           /\ c[1] \in {"set", "push"} => c[3] \in Data
           /\ c[1] = "state" => c[2] \in Automata /\ c[3] \in States
           /\ c[1] \in {"push", "pop", "update", "update_output", "unlock"} => c[2] \in Fifos
BY DEF Calls

\* Who makes a call of a transition holds the mutex, alone.
LEMMA Mutex ==
    ASSUME LockOK, NEW t \in Main, NEW u \in Main, Critical(t), Critical(u), Home(t) = Home(u)
    PROVE  t = u
BY DEF LockOK

LEMMA CallerFacts ==
    ASSUME ThreadsOK, ControlOK, NEW t \in Threads, NEW kind, NextCall(t, kind), kind # "signal"
    PROVE  /\ t \in Main /\ pc[t] \in {"fired", "loop_fired"} /\ Owns(t, Head(todo[t]))
           /\ Head(todo[t]) \in Ops(t) /\ Head(todo[t])[1] = kind
           /\ \A u \in Main : Home(u) = Home(t) /\ todo[u] # <<>> => u = t
<1>1. todo[t] \in Seq(Calls) /\ todo[t] # <<>> /\ Head(todo[t])[1] = kind
    BY DEF NextCall, ThreadsOK
<1>2. Head(todo[t]) \in Ops(t)
    BY <1>1, TailFacts DEF Ops
<1>3. t \in Main /\ Owns(t, Head(todo[t])) /\ pc[t] \in {"fired", "loop_fired"}
    BY <1>1, <1>2 DEF ControlOK, WorkOK
<1>4. \A u \in Main : todo[u] # <<>> => Critical(u)
    BY ThreadNames DEF ControlOK, WorkOK, Critical
<1> QED
    BY <1>1, <1>2, <1>3, <1>4, Mutex DEF ControlOK

LEMMA HasSome ==
    ASSUME NEW t, NEW kind, NEW f, Has(t, kind, f)
    PROVE  todo[t] # <<>>
BY DEF Has, Ops, Elements

\* Only the next call and the new ones make a difference.
LEMMA HasStays ==
    ASSUME ThreadsOK, NEW t \in Threads, todo[t] # <<>>, NEW cs \in Seq(Calls), Then(t, cs),
           NEW kind, NEW f, ~(Head(todo[t])[1] = kind /\ Head(todo[t])[2] = f),
           \A c \in Elements(cs) : ~(c[1] = kind /\ c[2] = f)
    PROVE  \A u \in Threads : Has(u, kind, f)' <=> Has(u, kind, f)
BY ThenFacts DEF Has

\* What a thread does once, it has done then.
LEMMA HasGone ==
    ASSUME ThreadsOK, ControlOK, NEW t \in Threads, todo[t] # <<>>, NEW cs \in Seq(Calls),
           Then(t, cs), NEW kind \in {"push", "pop", "status"}, NEW f,
           Head(todo[t])[1] = kind, Head(todo[t])[2] = f,
           \A c \in Elements(cs) : c[1] # kind /\ c[1] # "set"
    PROVE  /\ ~Has(t, kind, f)'
           /\ kind = "status" => \A p : ~Has(t, "set", p)' /\ ~Has(t, "set", p)
<1> DEFINE s == todo[t]
<1>1. /\ s \in Seq(Calls) /\ 1 \in DOMAIN s /\ Head(s) = s[1] /\ Len(s) \in Nat
      /\ \A m \in DOMAIN Tail(s) : m + 1 \in DOMAIN s /\ Tail(s)[m] = s[m + 1]
      /\ Len(Tail(s)) = Len(s) - 1 /\ Tail(s) \in Seq(Calls)
    BY TailFacts DEF ThreadsOK
<1>2. DOMAIN Tail(s) \subseteq Nat \ {0}
    BY <1>1
<1>3. InOrder(s)
    BY DEF ControlOK, OrderOK
<1>4. \A m \in DOMAIN Tail(s) : 1 < m + 1
    BY <1>2
<1>5. \A c \in Elements(Tail(s)) :
         /\ c[1] # kind \/ c[2] # f
         /\ kind = "status" => c[1] # "set"
    <2> TAKE c \in Elements(Tail(s))
    <2>1. PICK m \in DOMAIN Tail(s) : c = Tail(s)[m]
        BY DEF Elements
    <2>2. c = s[m + 1] /\ m + 1 \in DOMAIN s /\ 1 < m + 1 /\ 1 \in DOMAIN s
        BY <1>1, <1>4, <2>1
    <2>3. s[1][1] = kind /\ s[1][2] = f
        BY <1>1
    <2> HIDE DEF s
    <2> QED
        BY <1>3, <2>2, <2>3 DEF InOrder
<1>6. /\ Ops(t)' = Elements(cs) \cup Elements(Tail(s))
      /\ Ops(t) = {Head(s)} \cup Elements(Tail(s))
    BY ThenFacts
<1> HIDE DEF s
<1>7. ~Has(t, kind, f)'
    BY <1>5, <1>6 DEF Has
<1> QED
    BY <1>5, <1>6, <1>7 DEF Has, s

\* Nothing about a fifo changes, or about all of them.
LEMMA RingStays ==
    ASSUME NEW f \in Fifos, RoomOK(f), StockOK(f), ContentsOK(f),
           ring'[f] = ring[f], head'[f] = head[f], tail'[f] = tail[f],
           entered'[f] = entered[f], left'[f] = left[f],
           InEnd(f) \in ctx' <=> InEnd(f) \in ctx, OutEnd(f) \in ctx' <=> OutEnd(f) \in ctx,
           \A t \in Threads : /\ Has(t, "push", f)' <=> Has(t, "push", f)
                              /\ Has(t, "pop", f)' <=> Has(t, "pop", f)
                              /\ Has(t, "update", f)' <=> Has(t, "update", f)
                              /\ Has(t, "update_output", f)' <=> Has(t, "update_output", f)
    PROVE  RoomOK(f)' /\ StockOK(f)' /\ ContentsOK(f)'
<1>1. /\ IsFull(f)' <=> IsFull(f)
      /\ IsEmpty(f)' <=> IsEmpty(f)
      /\ Contents(f)' = Contents(f)
    BY DEF IsFull, IsEmpty, Contents
<1>2. Main \subseteq Threads
    BY ThreadNames
<1>3. RoomOK(f)'
    BY <1>1, <1>2 DEF RoomOK, Home, Main, InEnd, AutomatonOf
<1>4. StockOK(f)'
    BY <1>1, <1>2 DEF StockOK, Home, Main, OutEnd, AutomatonOf
<1>5. ContentsOK(f)'
    BY <1>1 DEF ContentsOK
<1> QED
    BY <1>3, <1>4, <1>5

LEMMA RingsStay ==
    ASSUME RingsOK, UNCHANGED <<ring, head, tail, entered, left>>,
           \A x \in Ends : x \in ctx' <=> x \in ctx,
           \A t \in Threads : \A f \in Fifos :
               /\ Has(t, "push", f)' <=> Has(t, "push", f)
               /\ Has(t, "pop", f)' <=> Has(t, "pop", f)
               /\ Has(t, "update", f)' <=> Has(t, "update", f)
               /\ Has(t, "update_output", f)' <=> Has(t, "update_output", f)
    PROVE  RingsOK'
<1> SUFFICES ASSUME NEW f \in Fifos
             PROVE  RoomOK(f)' /\ StockOK(f)' /\ ContentsOK(f)'
    BY DEF RingsOK
<1>1. InEnd(f) \in ctx' <=> InEnd(f) \in ctx
    BY EndNames
<1>2. OutEnd(f) \in ctx' <=> OutEnd(f) \in ctx
    BY EndNames
<1> QED
    BY <1>1, <1>2, RingStays DEF RingsOK

\* Nothing about the action of p changes.
LEMMA PortStays ==
    ASSUME NEW p \in UserPorts, PortOK(p), p \in ctx' <=> p \in ctx,
           pc'[p] = pc[p], status'[p] = status[p], fired'[p] = fired[p], data'[p] = data[p],
           \A t \in Main : /\ Has(t, "status", p)' <=> Has(t, "status", p)
                           /\ Has(t, "remove", p)' <=> Has(t, "remove", p)
                           /\ Has(t, "set", p)' <=> Has(t, "set", p)
    PROVE  PortOK(p)'
<1>1. (Served(p)' <=> Served(p)) /\ (Leaving(p)' <=> Leaving(p)) /\ (Setting(p)' <=> Setting(p))
    BY DEF Served, Leaving, Setting, Main
<1> QED
    BY <1>1 DEF PortOK

-----------------------------------------------------------------------------
(* The calls preserve the invariant                                        *)

\* A call that concerns neither a fifo's contents nor an action.
LEMMA QuietCall ==
    ASSUME CInv, NEW t \in Threads, todo[t] # <<>>, Then(t, <<>>),
           Head(todo[t])[1] \in {"signal", "state", "unlock"},
           UNCHANGED <<pc, cur, holder, ctx, data, status, fired, ring, head, tail, entered, left>>
    PROVE  ThreadsOK' /\ ControlOK' /\ RingsOK' /\ OffersOK' /\ PortsOK'
<1>1. <<>> \in Seq(Calls) /\ Elements(<<>>) = {}
    BY DEF Elements
<1>2. ThreadsOK' /\ ControlOK'
    BY <1>1, ControlStays DEF CInv, TypesOK
<1>3. \A u \in Threads : \A f :
        /\ Has(u, "push", f)' <=> Has(u, "push", f)
        /\ Has(u, "pop", f)' <=> Has(u, "pop", f)
        /\ Has(u, "update", f)' <=> Has(u, "update", f)
        /\ Has(u, "update_output", f)' <=> Has(u, "update_output", f)
        /\ Has(u, "status", f)' <=> Has(u, "status", f)
        /\ Has(u, "remove", f)' <=> Has(u, "remove", f)
        /\ Has(u, "set", f)' <=> Has(u, "set", f)
    BY <1>1, HasStays DEF CInv, TypesOK
<1>4. RingsOK'
    BY <1>3, RingsStay DEF CInv
<1>5. OffersOK'
    BY DEF CInv, OffersOK
<1>6. PortsOK'
    <2> SUFFICES ASSUME NEW p \in UserPorts \ Cancelled
                 PROVE  PortOK(p)'
        BY DEF PortsOK
    <2> QED
        BY <1>3, PortStays, ThreadNames DEF CInv, PortsOK
<1> QED
    BY <1>2, <1>4, <1>5, <1>6

LEMMA SignalStep ==
    ASSUME CInv, NEW t \in Threads, Signal(t), UNCHANGED userVars
    PROVE  CInv'
<1> USE DEF userVars, autVars, portFields, fifoVars, history
<1>1. /\ todo[t] # <<>> /\ Head(todo[t])[1] = "signal" /\ Then(t, <<>>)
      /\ UNCHANGED <<autVars, ctx, portFields, fifoVars, pc, cur, history>>
    BY DEF Signal, NextCall
<1>2. sem' \in [Automata \cup UserPorts -> 0 .. SemMax]
    <2>1. sem \in [Automata \cup UserPorts -> 0 .. SemMax] /\ SemMax \in Nat
        BY AutomatonAssumption DEF CInv, TypesOK, FieldsOK
    <2> QED
        BY <2>1 DEF Signal, Post
<1>3. FieldsOK' /\ FifosOK'
    BY <1>1, <1>2 DEF CInv, TypesOK, FieldsOK, FifosOK
<1>4. ThreadsOK' /\ ControlOK' /\ RingsOK' /\ OffersOK' /\ PortsOK'
    BY <1>1, QuietCall
<1> QED
    BY <1>3, <1>4 DEF CInv, TypesOK

LEMMA SetStateStep ==
    ASSUME CInv, NEW t \in Threads, SetState(t), UNCHANGED userVars
    PROVE  CInv'
<1> USE DEF userVars, autVars, portFields, fifoVars, history
<1>1. /\ todo[t] # <<>> /\ Head(todo[t])[1] = "state" /\ Then(t, <<>>)
      /\ UNCHANGED <<holder, active, ctx, sem, portFields, fifoVars, pc, cur, history>>
    BY DEF SetState, NextCall
<1>2. Head(todo[t]) \in Calls
    BY <1>1, TailFacts DEF CInv, TypesOK, ThreadsOK
<1>3. state' \in [Automata -> States]
    BY <1>1, <1>2, CallShape DEF SetState, Arg, CInv, TypesOK, FieldsOK
<1>4. FieldsOK' /\ FifosOK'
    BY <1>1, <1>3 DEF CInv, TypesOK, FieldsOK, FifosOK
<1>5. ThreadsOK' /\ ControlOK' /\ RingsOK' /\ OffersOK' /\ PortsOK'
    BY <1>1, QuietCall
<1> QED
    BY <1>4, <1>5 DEF CInv, TypesOK

LEMMA UnlockFifoStep ==
    ASSUME CInv, NEW t \in Threads, UnlockFifo(t), UNCHANGED userVars
    PROVE  CInv'
<1> USE DEF userVars, autVars, portFields, fifoVars, history
<1>1. /\ todo[t] # <<>> /\ Head(todo[t])[1] = "unlock" /\ Then(t, <<>>)
      /\ fholder' = [fholder EXCEPT ![Arg(t, 2)] = Null]
      /\ UNCHANGED <<autVars, ctx, sem, portFields, ring, head, tail, pc, cur, history>>
    BY DEF UnlockFifo, NextCall
<1>2. FieldsOK' /\ FifosOK'
    BY <1>1 DEF CInv, TypesOK, FieldsOK, FifosOK
<1>3. ThreadsOK' /\ ControlOK' /\ RingsOK' /\ OffersOK' /\ PortsOK'
    BY <1>1, QuietCall
<1> QED
    BY <1>2, <1>3 DEF CInv, TypesOK

\* The value of a port that takes is set: it is a datum.
LEMMA SetDataStep ==
    ASSUME CInv, NEW t \in Threads, SetData(t), UNCHANGED userVars
    PROVE  CInv'
<1> USE DEF userVars, autVars, portFields, fifoVars, history
<1>1. /\ todo[t] # <<>> /\ Head(todo[t])[1] = "set" /\ Then(t, <<>>) /\ NextCall(t, "set")
      /\ data' = [data EXCEPT ![Arg(t, 2)] = Arg(t, 3)]
      /\ UNCHANGED <<autVars, ctx, sem, status, fifoVars, pc, cur, history>>
    BY DEF SetData, NextCall
<1> DEFINE q == Arg(t, 2)
<1>2. Head(todo[t]) \in Calls
    BY <1>1, TailFacts DEF CInv, TypesOK, ThreadsOK
<1>3. q \in UserPorts /\ Arg(t, 3) \in Data /\ Head(todo[t])[2] = q
    BY <1>1, <1>2, CallShape DEF Arg
<1>4. data' \in [UserPorts -> Data \cup {Null}] /\ data'[q] \in Data
      /\ \A p \in UserPorts \ {q} : data'[p] = data[p]
    BY <1>1, <1>3 DEF CInv, TypesOK, FieldsOK
<1>5. data'[q] # Null
    BY <1>4, AutomatonAssumption
<1>6. t \in Main
    BY <1>1, CallerFacts DEF CInv, TypesOK
<1>7. Head(todo[t]) \in Ops(t)
    BY <1>1, CallerFacts DEF CInv, TypesOK
<1> HIDE DEF q
<1>8. Setting(q)
    BY <1>1, <1>3, <1>6, <1>7 DEF Setting, Has
<1>9. FieldsOK' /\ FifosOK'
    BY <1>1, <1>4 DEF CInv, TypesOK, FieldsOK, FifosOK
<1>10. <<>> \in Seq(Calls) /\ Elements(<<>>) = {}
    BY DEF Elements
<1>11. ThreadsOK' /\ ControlOK'
    BY <1>1, <1>10, ControlStays DEF CInv, TypesOK
<1>12. \A u \in Threads : \A f :
        /\ Has(u, "push", f)' <=> Has(u, "push", f)
        /\ Has(u, "pop", f)' <=> Has(u, "pop", f)
        /\ Has(u, "update", f)' <=> Has(u, "update", f)
        /\ Has(u, "update_output", f)' <=> Has(u, "update_output", f)
        /\ Has(u, "status", f)' <=> Has(u, "status", f)
        /\ Has(u, "remove", f)' <=> Has(u, "remove", f)
        /\ f # q => (Has(u, "set", f)' <=> Has(u, "set", f))
    BY <1>1, <1>3, <1>10, HasStays DEF CInv, TypesOK
<1>13. RingsOK'
    BY <1>1, <1>12, RingsStay DEF CInv
<1>14. OffersOK'
    BY <1>1, <1>4, <1>5, CPortAssumption DEF CInv, OffersOK
<1>15. PortsOK'
    <2> SUFFICES ASSUME NEW p \in UserPorts \ Cancelled
                 PROVE  PortOK(p)'
        BY DEF PortsOK
    <2>1. PortOK(p)
        BY DEF CInv, PortsOK
    <2>2. CASE p # q
        BY <1>1, <1>4, <1>12, <2>1, <2>2, PortStays, ThreadNames
    <2>3. CASE p = q
        <3>1. (Served(p)' <=> Served(p)) /\ (Leaving(p)' <=> Leaving(p))
            BY <1>12, ThreadNames DEF Served, Leaving, Main
        <3>2. Served(p)
            BY <1>8, <2>1, <2>3 DEF PortOK
        <3> QED
            BY <1>1, <1>5, <2>1, <2>3, <3>1, <3>2 DEF PortOK
    <2> QED
        BY <2>2, <2>3
<1> QED
    BY <1>9, <1>11, <1>13, <1>14, <1>15 DEF CInv, TypesOK
\* The action of a port succeeds once its value is set, and it is about to
\* leave the context.
LEMMA ResolveStatusStep ==
    ASSUME CInv, NEW t \in Threads, ResolveStatus(t), UNCHANGED userVars
    PROVE  CInv'
<1> USE DEF userVars, autVars, portFields, fifoVars, history
<1> SUFFICES ASSUME NEW q, q = Arg(t, 2)
             PROVE  CInv'
    OBVIOUS
<1> DEFINE cs == <<<<"remove", q>>, <<"signal", q>>>>
<1>1. /\ todo[t] # <<>> /\ Head(todo[t])[1] = "status" /\ NextCall(t, "status") /\ Then(t, cs)
      /\ status' = [status EXCEPT ![q] = "success"]
      /\ UNCHANGED <<autVars, ctx, sem, data, fifoVars, pc, cur, history>>
    BY DEF ResolveStatus, NextCall
<1>2. Head(todo[t]) \in Calls
    BY <1>1, TailFacts DEF CInv, TypesOK, ThreadsOK
<1>3. q \in UserPorts /\ Head(todo[t])[2] = q
    BY <1>1, <1>2, CallShape DEF Arg
<1>4. t \in Main /\ Head(todo[t]) \in Ops(t) /\ Owns(t, Head(todo[t]))
      /\ \A u \in Main : Home(u) = Home(t) /\ todo[u] # <<>> => u = t
    BY <1>1, CallerFacts DEF CInv, TypesOK
<1>5. /\ cs \in Seq(Calls) /\ Elements(cs) = {<<"remove", q>>, <<"signal", q>>}
    <2>1. <<"remove", q>> \in Calls /\ <<"signal", q>> \in Calls
        BY <1>3 DEF Calls, Objects
    <2>2. DOMAIN cs = {1, 2}
        OBVIOUS
    <2> QED
        BY <2>1, <2>2 DEF Elements
<1> HIDE DEF cs
<1>6. ThreadsOK' /\ ControlOK'
    BY <1>1, <1>3, <1>5, ControlStays DEF CInv, TypesOK
<1>7. FieldsOK' /\ FifosOK'
    BY <1>1, <1>3 DEF CInv, TypesOK, FieldsOK, FifosOK
<1>8. \A u \in Threads : \A f :
        /\ Has(u, "push", f)' <=> Has(u, "push", f)
        /\ Has(u, "pop", f)' <=> Has(u, "pop", f)
        /\ Has(u, "update", f)' <=> Has(u, "update", f)
        /\ Has(u, "update_output", f)' <=> Has(u, "update_output", f)
        /\ Has(u, "set", f)' <=> Has(u, "set", f)
        /\ f # q => (Has(u, "status", f)' <=> Has(u, "status", f))
        /\ f # q => (Has(u, "remove", f)' <=> Has(u, "remove", f))
    BY <1>1, <1>3, <1>5, HasStays DEF CInv, TypesOK
<1>9. RingsOK'
    BY <1>1, <1>8, RingsStay DEF CInv
<1>10. OffersOK'
    BY <1>1 DEF CInv, OffersOK
<1>11. ~Has(t, "status", q)' /\ ~Has(t, "set", q)
    BY <1>1, <1>3, <1>5, HasGone DEF CInv, TypesOK
<1>12. ASSUME NEW u \in Main, NEW kind \in {"status", "set"}, Has(u, kind, q)
       PROVE  u = t
    <2>1. PICK c \in Ops(u) : c[1] = kind /\ c[2] = q
        BY <1>12 DEF Has
    <2>2. Owns(u, c)
        BY ThreadNames DEF CInv, ControlOK, WorkOK
    <2>3. Home(u) = Home(t)
        BY <1>1, <1>3, <1>4, <2>1, <2>2 DEF Owns
    <2> QED
        BY <1>4, <1>12, <2>3, HasSome
<1>13. Has(t, "status", q) /\ Has(t, "remove", q)'
    <2>1. Has(t, "status", q)
        BY <1>1, <1>3, <1>4 DEF Has
    <2>2. <<"remove", q>> \in Ops(t)'
        BY <1>1, <1>5, ThenFacts DEF CInv, TypesOK
    <2> QED
        BY <2>1, <2>2 DEF Has
<1>14. PortsOK'
    <2> SUFFICES ASSUME NEW p \in UserPorts \ Cancelled
                 PROVE  PortOK(p)'
        BY DEF PortsOK
    <2>1. PortOK(p)
        BY DEF CInv, PortsOK
    <2>2. CASE p # q
        <3>1. status'[p] = status[p]
            BY <1>1, <1>3, <2>2 DEF CInv, TypesOK, FieldsOK
        <3> QED
            BY <1>1, <1>8, <2>1, <2>2, <3>1, PortStays, ThreadNames
    <2>3. CASE p = q
        <3>1. Served(p) /\ ~Setting(p)
            BY <1>4, <1>11, <1>12, <1>13, <2>3 DEF Served, Setting
        <3>2. ~Served(p)'
            <4> SUFFICES ASSUME NEW u \in Main, Has(u, "status", p)'
                         PROVE  FALSE
                BY DEF Served, Main
            <4>1. u # t
                BY <1>11, <2>3
            <4>2. Ops(u)' = Ops(u)
                BY <1>1, <1>5, <4>1, ThenFacts, ThreadNames DEF CInv, TypesOK
            <4>3. Has(u, "status", q)
                BY <2>3, <4>2 DEF Has
            <4> QED
                BY <1>12, <4>1, <4>3
        <3>3. ~Setting(p)'
            BY <1>8, <2>3, <3>1, ThreadNames DEF Setting, Main
        <3>4. Leaving(p)'
            BY <1>4, <1>13, <2>3 DEF Leaving, Main
        <3>5. status'[p] = "success"
            BY <1>1, <1>3, <2>3 DEF CInv, TypesOK, FieldsOK
        <3> QED
            BY <1>1, <2>1, <3>1, <3>2, <3>3, <3>4, <3>5 DEF PortOK
    <2> QED
        BY <2>2, <2>3
<1> QED
    BY <1>6, <1>7, <1>9, <1>10, <1>14 DEF CInv, TypesOK

LEMMA RemoveStep ==
    ASSUME CInv, NEW t \in Threads, RemoveFromContext(t), UNCHANGED userVars
    PROVE  CInv'
<1> USE DEF userVars, autVars, portFields, fifoVars, history
<1> DEFINE q == Arg(t, 2)
<1>1. /\ todo[t] # <<>> /\ Head(todo[t])[1] = "remove" /\ Then(t, <<>>)
      /\ ctx' = ctx \ {q}
      /\ UNCHANGED <<autVars, sem, portFields, fifoVars, pc, cur, history>>
    BY DEF RemoveFromContext, NextCall
<1>2. Head(todo[t]) \in Calls
    BY <1>1, TailFacts DEF CInv, TypesOK, ThreadsOK
<1>3. q \in UserPorts /\ Head(todo[t])[2] = q
    BY <1>1, <1>2, CallShape DEF Arg
<1> HIDE DEF q
<1>4. <<>> \in Seq(Calls) /\ Elements(<<>>) = {}
    BY DEF Elements
<1>5. ThreadsOK' /\ ControlOK'
    BY <1>1, <1>4, ControlStays DEF CInv, TypesOK
<1>6. FieldsOK' /\ FifosOK'
    BY <1>1 DEF CInv, TypesOK, FieldsOK, FifosOK
<1>7. \A u \in Threads : \A f :
        /\ Has(u, "push", f)' <=> Has(u, "push", f)
        /\ Has(u, "pop", f)' <=> Has(u, "pop", f)
        /\ Has(u, "update", f)' <=> Has(u, "update", f)
        /\ Has(u, "update_output", f)' <=> Has(u, "update_output", f)
        /\ Has(u, "set", f)' <=> Has(u, "set", f)
        /\ Has(u, "status", f)' <=> Has(u, "status", f)
        /\ f # q => (Has(u, "remove", f)' <=> Has(u, "remove", f))
    BY <1>1, <1>3, <1>4, HasStays DEF CInv, TypesOK
<1>8. \A x \in Ends : x \in ctx' <=> x \in ctx
    BY <1>1, <1>3, EndNames
<1>9. RingsOK'
    BY <1>1, <1>7, <1>8, RingsStay DEF CInv
<1>10. OffersOK'
    BY <1>1 DEF CInv, OffersOK
<1>11. PortsOK'
    <2> SUFFICES ASSUME NEW p \in UserPorts \ Cancelled
                 PROVE  PortOK(p)'
        BY DEF PortsOK
    <2>1. PortOK(p)
        BY DEF CInv, PortsOK
    <2>2. CASE p # q
        BY <1>1, <1>7, <2>1, <2>2, PortStays, ThreadNames
    <2>3. CASE p = q
        <3>1. (Served(p)' <=> Served(p)) /\ (Setting(p)' <=> Setting(p))
            BY <1>7, ThreadNames DEF Served, Setting, Main
        <3>2. p \notin ctx'
            BY <1>1, <2>3
        <3> QED
            BY <1>1, <2>1, <3>1, <3>2 DEF PortOK
    <2> QED
        BY <2>2, <2>3
<1> QED
    BY <1>5, <1>6, <1>9, <1>10, <1>11 DEF CInv, TypesOK

-----------------------------------------------------------------------------
(* The ring buffer                                                         *)

LEMMA Wrap ==
    ASSUME NEW n \in Nat \ {0}, NEW x \in Nat, x < 2 * n
    PROVE  x % n = IF x < n THEN x ELSE x - n
OBVIOUS

Held(r, h, t, n) == [m \in 1 .. (t + n - h) % n |-> r[(h + m - 1) % n]]

LEMMA HeldPush ==
    ASSUME NEW R, NEW S, NEW n \in Nat \ {0}, NEW r \in [0 .. n - 1 -> R], NEW d \in S,
           NEW h \in 0 .. n - 1, NEW t \in 0 .. n - 1, (t + 1) % n # h,
           Held(r, h, t, n) \in Seq(S)
    PROVE  /\ Held([r EXCEPT ![t] = d], h, (t + 1) % n, n) = Append(Held(r, h, t, n), d)
           /\ Held([r EXCEPT ![t] = d], h, (t + 1) % n, n) \in Seq(S)
<1> DEFINE l == (t + n - h) % n
           q == [r EXCEPT ![t] = d]
           s == Held(r, h, t, n)
           u == Held(q, h, (t + 1) % n, n)
<1>5. u = [m \in 1 .. (((t + 1) % n) + n - h) % n |-> q[(h + m - 1) % n]]
    BY DEF Held
<1>6. s = [m \in 1 .. l |-> r[(h + m - 1) % n]]
    BY DEF Held
<1> HIDE DEF u, s
<1>1. l = IF t + n - h < n THEN t + n - h ELSE t - h
    <2> SUFFICES ASSUME NEW x \in Nat, x = t + n - h, x < 2 * n
                 PROVE  x % n = IF x < n THEN x ELSE t - h
        BY DEF l
    <2>1. x % n = IF x < n THEN x ELSE x - n
        BY Wrap
    <2> QED
        BY <2>1
<1> HIDE DEF l
<1>2. (t + 1) % n = IF t + 1 < n THEN t + 1 ELSE 0
    <2> SUFFICES ASSUME NEW x \in Nat, x = t + 1, x < 2 * n
                 PROVE  x % n = IF x < n THEN x ELSE 0
        OBVIOUS
    <2>1. x % n = IF x < n THEN x ELSE x - n
        BY Wrap
    <2> QED
        BY <2>1
<1>3. l \in Nat /\ l + 1 < n
    BY <1>1, <1>2
<1>4. (((t + 1) % n) + n - h) % n = l + 1
    <2>1. CASE t + 1 < n
        <3>1. (t + 1) + n - h \in Nat /\ (t + 1) + n - h < 2 * n
            BY <2>1
        <3>2. ((t + 1) + n - h) % n = IF (t + 1) + n - h < n THEN (t + 1) + n - h ELSE (t + 1) - h
            <4> SUFFICES ASSUME NEW x \in Nat, x = (t + 1) + n - h, x < 2 * n
                         PROVE  x % n = IF x < n THEN x ELSE (t + 1) - h
                BY <3>1
            <4>1. x % n = IF x < n THEN x ELSE x - n
                BY Wrap
            <4> QED
                BY <4>1
        <3> QED
            BY <1>1, <1>2, <2>1, <3>2
    <2>2. CASE ~(t + 1 < n)
        <3>1. 0 + n - h \in Nat /\ 0 + n - h < 2 * n /\ h # 0
            BY <1>2, <2>2
        <3>2. (0 + n - h) % n = n - h
            <4> SUFFICES ASSUME NEW x \in Nat, x = 0 + n - h, x < 2 * n
                         PROVE  x % n = n - h
                BY <3>1
            <4>1. x % n = IF x < n THEN x ELSE x - n
                BY Wrap
            <4> QED
                BY <3>1, <4>1
        <3> QED
            BY <1>1, <1>2, <2>2, <3>2
    <2> QED
        BY <2>1, <2>2
<1>7. ASSUME NEW m \in 1 .. l + 1
      PROVE  u[m] = IF m = l + 1 THEN d ELSE s[m]
    <2>1. h + m - 1 \in Nat /\ h + m - 1 < 2 * n
        BY <1>3
    <2>2. (h + m - 1) % n = IF h + m - 1 < n THEN h + m - 1 ELSE h + m - 1 - n
        <3> SUFFICES ASSUME NEW x \in Nat, x = h + m - 1, x < 2 * n
                     PROVE  x % n = IF x < n THEN x ELSE x - n
            BY <2>1
        <3> QED
            BY Wrap
    <2>3. (h + m - 1) % n \in 0 .. n - 1
        BY <2>1, <2>2
    <2>4. (h + m - 1) % n = t <=> m = l + 1
        BY <1>1, <1>3, <2>2
    <2>5. u[m] = q[(h + m - 1) % n] /\ (m # l + 1 => s[m] = r[(h + m - 1) % n])
        BY <1>3, <1>4, <1>5, <1>6
    <2> QED
        BY <2>3, <2>4, <2>5 DEF q
<1>8. Len(s) = l
    BY <1>3, <1>6
<1>12. s \in Seq(S)
    BY DEF s
<1>9. /\ Append(s, d) = [m \in 1 .. l + 1 |-> IF m = l + 1 THEN d ELSE s[m]]
      /\ Append(s, d) \in Seq(S)
    <2> DEFINE v == Append(s, d)
    <2>1. v \in Seq(S) /\ Len(v) = l + 1 /\ v[l + 1] = d /\ \A m \in 1 .. l : v[m] = s[m]
        BY <1>8, <1>12, AppendProperties
    <2> HIDE DEF v
    <2>2. v \in [1 .. l + 1 -> S]
        BY <2>1, LenProperties
    <2>3. \A m \in 1 .. l + 1 : v[m] = IF m = l + 1 THEN d ELSE s[m]
        BY <1>3, <2>1
    <2>4. v = [m \in 1 .. l + 1 |-> IF m = l + 1 THEN d ELSE s[m]]
        BY <2>2, <2>3
    <2> QED
        BY <2>1, <2>4 DEF v
<1> HIDE DEF u, s, l, q
<1>10. u = Append(s, d)
    BY <1>4, <1>5, <1>7, <1>9
<1> QED
    BY <1>9, <1>10 DEF u, s, q

LEMMA HeldPop ==
    ASSUME NEW R, NEW S, NEW n \in Nat \ {0}, NEW r \in [0 .. n - 1 -> R],
           NEW h \in 0 .. n - 1, NEW t \in 0 .. n - 1, t # h, Held(r, h, t, n) \in Seq(S)
    PROVE  /\ Held(r, (h + 1) % n, t, n) = Tail(Held(r, h, t, n))
           /\ Held(r, h, t, n) # <<>> /\ Head(Held(r, h, t, n)) = r[h]
           /\ (t + 1) % n # (h + 1) % n
<1> DEFINE l == (t + n - h) % n
           g == (h + 1) % n
           s == Held(r, h, t, n)
           u == Held(r, g, t, n)
<1>5. u = [m \in 1 .. (t + n - g) % n |-> r[(g + m - 1) % n]]
    BY DEF Held
<1>6. s = [m \in 1 .. l |-> r[(h + m - 1) % n]]
    BY DEF Held
<1> HIDE DEF u, s
<1>1. l = IF t + n - h < n THEN t + n - h ELSE t - h
    <2> SUFFICES ASSUME NEW x \in Nat, x = t + n - h, x < 2 * n
                 PROVE  x % n = IF x < n THEN x ELSE t - h
        BY DEF l
    <2>1. x % n = IF x < n THEN x ELSE x - n
        BY Wrap
    <2> QED
        BY <2>1
<1>2. g = IF h + 1 < n THEN h + 1 ELSE 0
    <2> SUFFICES ASSUME NEW x \in Nat, x = h + 1, x < 2 * n
                 PROVE  x % n = IF x < n THEN x ELSE 0
        BY DEF g
    <2>1. x % n = IF x < n THEN x ELSE x - n
        BY Wrap
    <2> QED
        BY <2>1
<1> HIDE DEF l, g
<1>3. l \in Nat /\ l > 0 /\ l < n
    BY <1>1
<1>4. (t + n - g) % n = l - 1
    <2>1. t + n - g \in Nat /\ t + n - g < 2 * n
        BY <1>2
    <2>2. (t + n - g) % n = IF t + n - g < n THEN t + n - g ELSE t - g
        <3> SUFFICES ASSUME NEW x \in Nat, x = t + n - g, x < 2 * n
                     PROVE  x % n = IF x < n THEN x ELSE t - g
            BY <2>1
        <3>1. x % n = IF x < n THEN x ELSE x - n
            BY Wrap
        <3> QED
            BY <1>2, <3>1
    <2> QED
        BY <1>1, <1>2, <2>2
<1>7. ASSUME NEW m \in 1 .. l - 1
      PROVE  u[m] = s[m + 1]
    <2>1. /\ g + m - 1 \in Nat /\ g + m - 1 < 2 * n
          /\ m \in 1 .. n /\ h + (m + 1) - 1 = h + m
        BY <1>2, <1>3
    <2>2. (g + m - 1) % n = IF g + m - 1 < n THEN g + m - 1 ELSE g + m - 1 - n
        <3> SUFFICES ASSUME NEW x \in Nat, x = g + m - 1, x < 2 * n
                     PROVE  x % n = IF x < n THEN x ELSE x - n
            BY <1>2, <2>1
        <3> QED
            BY Wrap
    <2>3. (h + m) % n = IF h + m < n THEN h + m ELSE h + m - n
        <3> SUFFICES ASSUME NEW x \in Nat, x = h + m, x < 2 * n
                     PROVE  x % n = IF x < n THEN x ELSE x - n
            BY <2>1
        <3> QED
            BY Wrap
    <2>4. (g + m - 1) % n = (h + (m + 1) - 1) % n
        BY <1>2, <1>3, <2>1, <2>2, <2>3
    <2> QED
        BY <1>3, <1>4, <1>5, <1>6, <2>4
<1>8. Len(s) = l /\ s # <<>> /\ s[1] = r[h]
    <2>1. (h + 1 - 1) % n = h
        <3>1. h + 1 - 1 = h /\ h \in Nat /\ h < n /\ h < 2 * n
            OBVIOUS
        <3>2. h % n = h
            BY <3>1, Wrap
        <3> QED
            BY <3>1, <3>2
    <2>2. Len(s) = l /\ s[1] = r[(h + 1 - 1) % n]
        BY <1>3, <1>6
    <2> HIDE DEF s, l
    <2> QED
        BY <1>3, <2>1, <2>2
<1>9. /\ Tail(s) = [m \in 1 .. l - 1 |-> s[m + 1]] /\ Head(s) = r[h]
    <2>1. s \in Seq(S)
        BY DEF s
    <2>2. /\ Tail(s) \in Seq(S) /\ Len(Tail(s)) = l - 1 /\ Head(s) = s[1]
          /\ \A m \in 1 .. l - 1 : Tail(s)[m] = s[m + 1]
        BY <1>8, <2>1, HeadTailProperties
    <2>3. Tail(s) \in [1 .. l - 1 -> S]
        BY <2>2, LenProperties
    <2> QED
        BY <1>8, <2>2, <2>3
<1> HIDE DEF u, s, l
<1>10. u = Tail(s)
    BY <1>4, <1>5, <1>7, <1>9
<1>11. (t + 1) % n # g
    <2>1. (t + 1) % n = IF t + 1 < n THEN t + 1 ELSE 0
        <3> SUFFICES ASSUME NEW x \in Nat, x = t + 1, x < 2 * n
                     PROVE  x % n = IF x < n THEN x ELSE 0
            OBVIOUS
        <3>1. x % n = IF x < n THEN x ELSE x - n
            BY Wrap
        <3> QED
            BY <3>1
    <2> QED
        BY <1>2, <2>1
<1> QED
    BY <1>8, <1>9, <1>10, <1>11 DEF u, s, g

LEMMA AppendTail ==
    ASSUME NEW S, NEW s \in Seq(S), NEW d \in S, s # <<>>
    PROVE  Tail(Append(s, d)) = Append(Tail(s), d)
<1> DEFINE n == Len(s)
           u == Tail(Append(s, d))
           v == Append(Tail(s), d)
<1>1. n \in Nat \ {0} /\ DOMAIN s = 1 .. n
    BY EmptySeq, LenProperties
<1>2. /\ Append(s, d) \in Seq(S) /\ Len(Append(s, d)) = n + 1 /\ Append(s, d) # <<>>
      /\ Append(s, d)[n + 1] = d /\ \A m \in 1 .. n : Append(s, d)[m] = s[m]
    BY AppendProperties
<1>3. u \in Seq(S) /\ Len(u) = n /\ \A m \in 1 .. n : u[m] = Append(s, d)[m + 1]
    BY <1>1, <1>2, HeadTailProperties
<1>4. Tail(s) \in Seq(S) /\ Len(Tail(s)) = n - 1 /\ \A m \in 1 .. n - 1 : Tail(s)[m] = s[m + 1]
    BY <1>1, HeadTailProperties
<1>5. v \in Seq(S) /\ Len(v) = n /\ v[n] = d /\ \A m \in 1 .. n - 1 : v[m] = Tail(s)[m]
    <2>1. Len(Tail(s)) + 1 = n
        BY <1>1, <1>4
    <2> QED
        BY <1>4, <2>1, AppendProperties
<1> HIDE DEF n, u, v
<1>6. \A m \in 1 .. n : u[m] = v[m]
    <2> TAKE m \in 1 .. n
    <2>1. CASE m = n
        BY <1>1, <1>2, <1>3, <1>5, <2>1
    <2>2. CASE m # n
        <3>1. m \in 1 .. n - 1 /\ m + 1 \in 1 .. n
            BY <1>1, <2>2
        <3> QED
            BY <1>2, <1>3, <1>4, <1>5, <3>1
    <2> QED
        BY <2>1, <2>2
<1>7. u \in [1 .. n -> S] /\ v \in [1 .. n -> S]
    BY <1>3, <1>5, LenProperties
<1>8. u = [m \in 1 .. n |-> u[m]] /\ v = [m \in 1 .. n |-> v[m]]
    BY <1>7
<1>9. [m \in 1 .. n |-> u[m]] = [m \in 1 .. n |-> v[m]]
    BY <1>6
<1> QED
    BY <1>8, <1>9 DEF u, v

LEMMA FifoFacts ==
    ASSUME FifosOK, NEW f \in Fifos
    PROVE  /\ Slots(f) \in Nat \ {0} /\ Slots(f) - 1 = Capacity[f]
           /\ ring[f] \in [0 .. Slots(f) - 1 -> Data \cup {Null}]
           /\ head[f] \in 0 .. Slots(f) - 1 /\ tail[f] \in 0 .. Slots(f) - 1
           /\ (tail[f] + 1) % Slots(f) \in 0 .. Slots(f) - 1
           /\ (head[f] + 1) % Slots(f) \in 0 .. Slots(f) - 1
           /\ Contents(f) = Held(ring[f], head[f], tail[f], Slots(f))
<1>1. Capacity[f] \in Nat \ {0}
    BY AutomatonAssumption
<1>2. Slots(f) \in Nat \ {0} /\ Slots(f) - 1 = Capacity[f]
    BY <1>1 DEF Slots
<1>3. head[f] \in 0 .. Slots(f) - 1 /\ tail[f] \in 0 .. Slots(f) - 1
    BY <1>2 DEF FifosOK
<1>4. \A x \in Nat : x % Slots(f) \in 0 .. Slots(f) - 1
    BY <1>2
<1>5. Contents(f) = Held(ring[f], head[f], tail[f], Slots(f))
    BY DEF Contents, Held
<1> QED
    BY <1>2, <1>3, <1>4, <1>5 DEF FifosOK

LEMMA NotEmpty ==
    ASSUME FifosOK, NEW f \in Fifos, Contents(f) \in Seq(Data), ~IsEmpty(f)
    PROVE  /\ Contents(f) # <<>> /\ Head(Contents(f)) = ring[f][head[f]]
           /\ Tail(Contents(f)) = Held(ring[f], (head[f] + 1) % Slots(f), tail[f], Slots(f))
           /\ (tail[f] + 1) % Slots(f) # (head[f] + 1) % Slots(f)
<1> DEFINE n == Slots(f)
           r == ring[f]
           h == head[f]
           k == tail[f]
<1>1. /\ n \in Nat \ {0} /\ r \in [0 .. n - 1 -> Data \cup {Null}]
      /\ h \in 0 .. n - 1 /\ k \in 0 .. n - 1 /\ Contents(f) = Held(r, h, k, n)
    BY FifoFacts
<1>2. k # h
    BY DEF IsEmpty
<1> HIDE DEF n, r, h, k
<1>3. /\ Held(r, h, k, n) # <<>> /\ Head(Held(r, h, k, n)) = r[h]
      /\ Held(r, (h + 1) % n, k, n) = Tail(Held(r, h, k, n))
      /\ (k + 1) % n # (h + 1) % n
    <2>1. Held(r, h, k, n) \in Seq(Data)
        BY <1>1
    <2> QED
        BY ONLY <1>1, <1>2, <2>1, HeldPop, SMTT(60)
<1> QED
    BY <1>1, <1>3 DEF n, r, h, k

\* One thread at a time has calls of a transition to make about an object.
LEMMA Alone ==
    ASSUME ThreadsOK, ControlOK, NEW t \in Threads, NEW u \in Threads,
           NEW kind \in {"push", "pop", "set", "status", "remove"}, NEW f,
           Has(t, kind, f), Has(u, kind, f)
    PROVE  u = t
<1>1. PICK c \in Ops(t) : c[1] = kind /\ c[2] = f
    BY DEF Has
<1>2. PICK d \in Ops(u) : d[1] = kind /\ d[2] = f
    BY DEF Has
<1>3. t \in Main /\ u \in Main /\ Owns(t, c) /\ Owns(u, d)
    BY <1>1, <1>2 DEF ControlOK, WorkOK
<1>4. Home(t) = Home(u)
    BY <1>1, <1>2, <1>3 DEF Owns
<1>5. Critical(t) /\ Critical(u)
    BY <1>3, HasSome DEF ControlOK, WorkOK, Critical
<1> QED
    BY <1>3, <1>4, <1>5, Mutex DEF ControlOK
\* What a call about the fifo f leaves alone: the other fifos, and the ports.
LEMMA FifoCall ==
    ASSUME CInv, NEW t \in Threads, todo[t] # <<>>, NEW cs \in Seq(Calls), Then(t, cs),
           NEW f \in Fifos, Head(todo[t])[1] \in {"push", "pop", "update", "update_output"},
           Head(todo[t])[2] = f,
           \A c \in Elements(cs) :
                /\ c[1] \in {"signal", "update", "update_output", "unlock"}
                /\ c[1] # "signal" => c[2] = f,
           UNCHANGED <<pc, cur, holder, data, status, fired, left>>,
           \A x \in UserPorts \cup Ends :
                x \notin {InEnd(f), OutEnd(f)} => (x \in ctx' <=> x \in ctx),
           \A g \in Fifos \ {f} : /\ ring'[g] = ring[g] /\ head'[g] = head[g] /\ tail'[g] = tail[g]
                                  /\ entered'[g] = entered[g]
    PROVE  /\ ThreadsOK' /\ ControlOK' /\ OffersOK' /\ PortsOK'
           /\ RoomOK(f)' /\ StockOK(f)' /\ ContentsOK(f)' => RingsOK'
<1>1. ThreadsOK' /\ ControlOK'
    BY ControlStays DEF CInv, TypesOK
<1>2. ASSUME NEW u \in Threads, NEW x
      PROVE  /\ Has(u, "status", x)' <=> Has(u, "status", x)
             /\ Has(u, "remove", x)' <=> Has(u, "remove", x)
             /\ Has(u, "set", x)' <=> Has(u, "set", x)
    BY HasStays DEF CInv, TypesOK
<1>3. ASSUME NEW u \in Threads, NEW g \in Fifos \ {f}
      PROVE  /\ Has(u, "push", g)' <=> Has(u, "push", g)
             /\ Has(u, "pop", g)' <=> Has(u, "pop", g)
             /\ Has(u, "update", g)' <=> Has(u, "update", g)
             /\ Has(u, "update_output", g)' <=> Has(u, "update_output", g)
    <2>1. \A c \in Elements(cs) : c[1] # "signal" => c[2] # g
        OBVIOUS
    <2> QED
        BY <2>1, HasStays DEF CInv, TypesOK
<1>4. \A p \in UserPorts : p \in ctx' <=> p \in ctx
    BY EndNames
<1>5. OffersOK'
    BY <1>4, CPortAssumption DEF CInv, OffersOK
<1>6. PortsOK'
    <2> SUFFICES ASSUME NEW p \in UserPorts \ Cancelled
                 PROVE  PortOK(p)'
        BY DEF PortsOK
    <2> QED
        BY <1>2, <1>4, PortStays, ThreadNames DEF CInv, PortsOK
<1>7. ASSUME NEW g \in Fifos \ {f}
      PROVE  RoomOK(g)' /\ StockOK(g)' /\ ContentsOK(g)'
    <2>1. InEnd(g) \in ctx' <=> InEnd(g) \in ctx
        BY EndNames
    <2>2. OutEnd(g) \in ctx' <=> OutEnd(g) \in ctx
        BY EndNames
    <2>3. RoomOK(g) /\ StockOK(g) /\ ContentsOK(g)
        BY DEF CInv, RingsOK
    <2> QED
        BY <1>3, <2>1, <2>2, <2>3, RingStays
<1>8. RoomOK(f)' /\ StockOK(f)' /\ ContentsOK(f)' => RingsOK'
    BY <1>7 DEF RingsOK
<1> QED
    BY <1>1, <1>5, <1>6, <1>8

\* A push finds room, and the fifo's new datum is its youngest.
LEMMA PushStep ==
    ASSUME CInv, NEW t \in Threads, Push(t), UNCHANGED userVars
    PROVE  CInv'
<1> USE DEF userVars, autVars, portFields, fifoVars, history
<1> SUFFICES ASSUME NEW f, f = Arg(t, 2), NEW d, d = Arg(t, 3)
             PROVE  CInv'
    OBVIOUS
<1> DEFINE cs == <<<<"update", f>>>>
<1>1. /\ todo[t] # <<>> /\ Head(todo[t])[1] = "push" /\ NextCall(t, "push")
      /\ entered' = [entered EXCEPT ![f] = Append(@, d)]
      /\ UNCHANGED <<autVars, ctx, sem, portFields, head, fholder, pc, cur, fired, left>>
    BY DEF Push, NextCall
<1>2. Head(todo[t]) \in Calls
    BY <1>1, TailFacts DEF CInv, TypesOK, ThreadsOK
<1>3. f \in Fifos /\ d \in Data /\ Head(todo[t])[2] = f
    BY <1>1, <1>2, CallShape DEF Arg
<1>4. t \in Main /\ Head(todo[t]) \in Ops(t) /\ Owns(t, Head(todo[t]))
    BY <1>1, CallerFacts DEF CInv, TypesOK
<1>5. Has(t, "push", f) /\ Home(t) = AutomatonOf(InEnd(f))
    BY <1>1, <1>3, <1>4 DEF Has, Owns
<1>6. RoomOK(f) /\ StockOK(f) /\ ContentsOK(f)
    BY <1>3 DEF CInv, RingsOK
<1>7. ~IsFull(f)
    BY <1>5, <1>6 DEF RoomOK
<1>8. /\ ring' = [ring EXCEPT ![f][tail[f]] = d]
      /\ tail' = [tail EXCEPT ![f] = (@ + 1) % Slots(f)]
      /\ Then(t, cs)
    BY <1>7 DEF Push
<1>9. cs \in Seq(Calls) /\ Elements(cs) = {<<"update", f>>}
    <2>1. <<"update", f>> \in Calls
        BY <1>3 DEF Calls
    <2> QED
        BY <2>1 DEF Elements
<1> HIDE DEF cs
<1>10. /\ Slots(f) \in Nat \ {0} /\ Slots(f) - 1 = Capacity[f]
       /\ ring[f] \in [0 .. Slots(f) - 1 -> Data \cup {Null}]
       /\ head[f] \in 0 .. Slots(f) - 1 /\ tail[f] \in 0 .. Slots(f) - 1
       /\ (tail[f] + 1) % Slots(f) \in 0 .. Slots(f) - 1
       /\ Contents(f) = Held(ring[f], head[f], tail[f], Slots(f))
    BY <1>3, FifoFacts DEF CInv, TypesOK
<1>11. /\ ring'[f] = [ring[f] EXCEPT ![tail[f]] = d] /\ head'[f] = head[f]
       /\ tail'[f] = (tail[f] + 1) % Slots(f) /\ entered'[f] = Append(entered[f], d)
       /\ \A g \in Fifos \ {f} : /\ ring'[g] = ring[g] /\ head'[g] = head[g] /\ tail'[g] = tail[g]
                                 /\ entered'[g] = entered[g]
    BY <1>1, <1>3, <1>8 DEF CInv, TypesOK, FifosOK
<1>12. FieldsOK'
    BY <1>1 DEF CInv, TypesOK, FieldsOK
<1>13. FifosOK'
    <2>1. ring' = [g \in Fifos |-> ring'[g]]
        BY <1>8 DEF CInv, TypesOK, FifosOK
    <2>2. ring'[f] \in [0 .. Capacity[f] -> Data \cup {Null}]
        BY <1>3, <1>10, <1>11
    <2>3. tail' \in [Fifos -> Nat] /\ tail'[f] <= Capacity[f]
        <3>1. (tail[f] + 1) % Slots(f) \in Nat /\ (tail[f] + 1) % Slots(f) <= Capacity[f]
            BY <1>10
        <3> QED
            BY <1>3, <1>8, <1>11, <3>1 DEF CInv, TypesOK, FifosOK
    <2>4. entered' \in [Fifos -> Seq(Data)]
        <3>1. Append(entered[f], d) \in Seq(Data)
            BY <1>3, AppendProperties DEF CInv, TypesOK, FifosOK
        <3> QED
            BY <1>1, <1>3, <3>1 DEF CInv, TypesOK, FifosOK
    <2> QED
        BY <1>1, <1>3, <1>11, <2>1, <2>2, <2>3, <2>4 DEF CInv, TypesOK, FifosOK
<1>14. \A u \in Threads : ~Has(u, "push", f)'
    <2>1. ~Has(t, "push", f)'
        BY <1>1, <1>3, <1>8, <1>9, HasGone DEF CInv, TypesOK
    <2>2. ASSUME NEW u \in Threads, u # t
          PROVE  ~Has(u, "push", f)'
        <3>1. ~Has(u, "push", f)
            BY <1>5, <2>2, Alone DEF CInv, TypesOK
        <3> QED
            BY <1>1, <1>8, <1>9, <2>2, <3>1, ThenFacts DEF CInv, TypesOK, Has
    <2> QED
        BY <2>1, <2>2
<1>15. Has(t, "update", f)'
    <2>1. <<"update", f>> \in Ops(t)'
        BY <1>1, <1>8, <1>9, ThenFacts DEF CInv, TypesOK
    <2> QED
        BY <2>1 DEF Has
<1>16. ASSUME NEW u \in Threads
       PROVE  Has(u, "pop", f)' <=> Has(u, "pop", f)
    BY <1>1, <1>8, <1>9, HasStays DEF CInv, TypesOK
<1>17. RoomOK(f)'
    BY <1>4, <1>5, <1>14, <1>15, ThreadNames DEF RoomOK, Main, Home, InEnd, AutomatonOf
<1>18. ~IsEmpty(f)'
    BY <1>7, <1>11 DEF IsEmpty, IsFull
<1>19. StockOK(f)'
    BY <1>4, <1>15, <1>18, ThreadNames DEF StockOK, Main
<1>20. Contents(f)' = Append(Contents(f), d) /\ Contents(f)' \in Seq(Data)
    <2>1. Contents(f)' = Held(ring'[f], head'[f], tail'[f], Slots(f))
        BY DEF Contents, Held, Slots
    <2>2. Held(ring[f], head[f], tail[f], Slots(f)) \in Seq(Data)
        BY <1>6, <1>10 DEF ContentsOK
    <2>3. (tail[f] + 1) % Slots(f) # head[f]
        BY <1>7 DEF IsFull
    <2>4. /\ Held([ring[f] EXCEPT ![tail[f]] = d], head[f], (tail[f] + 1) % Slots(f), Slots(f))
                = Append(Held(ring[f], head[f], tail[f], Slots(f)), d)
          /\ Held([ring[f] EXCEPT ![tail[f]] = d], head[f], (tail[f] + 1) % Slots(f), Slots(f)) \in Seq(Data)
        <3> DEFINE n == Slots(f)
                   r == ring[f]
                   h == head[f]
                   k == tail[f]
        <3>1. /\ n \in Nat \ {0} /\ r \in [0 .. n - 1 -> Data \cup {Null}] /\ d \in Data
              /\ h \in 0 .. n - 1 /\ k \in 0 .. n - 1 /\ (k + 1) % n # h
              /\ Held(r, h, k, n) \in Seq(Data)
            BY <1>3, <1>10, <2>2, <2>3
        <3> HIDE DEF n, r, h, k
        <3>2. /\ Held([r EXCEPT ![k] = d], h, (k + 1) % n, n) = Append(Held(r, h, k, n), d)
              /\ Held([r EXCEPT ![k] = d], h, (k + 1) % n, n) \in Seq(Data)
            BY ONLY <3>1, HeldPush
        <3> QED
            BY <3>2 DEF n, r, h, k
    <2> QED
        BY <1>10, <1>11, <2>1, <2>4
<1>21. ContentsOK(f)'
    <2> DEFINE c == Contents(f)
    <2>1. c \in Seq(Data) /\ left[f] \in Seq(Data)
        BY <1>3, <1>6 DEF ContentsOK, CInv, TypesOK, FifosOK
    <2>2. CASE \E u \in Threads : Has(u, "pop", f)
        <3>1. c # <<>>
            <4>1. ~IsEmpty(f)
                BY <1>6, <2>2 DEF StockOK
            <4> QED
                BY <1>3, <2>1, <4>1, NotEmpty DEF CInv, TypesOK
        <3>2. entered[f] = left[f] \o Tail(c)
            BY <1>6, <2>2 DEF ContentsOK
        <3> HIDE DEF c
        <3>3. Tail(c) \in Seq(Data) /\ Tail(Append(c, d)) = Append(Tail(c), d)
            BY <1>3, <2>1, <3>1, AppendTail, HeadTailProperties
        <3>4. Append(left[f] \o Tail(c), d) = left[f] \o Append(Tail(c), d)
            <4> DEFINE l == left[f]
                       v == Tail(c)
            <4>1. l \in Seq(Data) /\ v \in Seq(Data) /\ d \in Data
                BY <1>3, <2>1, <3>3
            <4> HIDE DEF l, v
            <4>2. Append(l \o v, d) = l \o Append(v, d)
                BY ONLY <4>1
            <4> QED
                BY <4>2 DEF l, v
        <3>5. entered'[f] = left[f] \o Tail(Append(c, d))
            BY <1>11, <3>2, <3>3, <3>4
        <3> QED
            BY <1>1, <1>16, <1>20, <2>2, <3>5 DEF ContentsOK, c
    <2>3. CASE ~\E u \in Threads : Has(u, "pop", f)
        <3>1. entered[f] = left[f] \o c
            BY <1>6, <2>3 DEF ContentsOK
        <3> HIDE DEF c
        <3>2. Append(left[f] \o c, d) = left[f] \o Append(c, d)
            <4> DEFINE l == left[f]
            <4>1. l \in Seq(Data) /\ c \in Seq(Data) /\ d \in Data
                BY <1>3, <2>1
            <4> HIDE DEF l
            <4>2. Append(l \o c, d) = l \o Append(c, d)
                BY ONLY <4>1
            <4> QED
                BY <4>2 DEF l
        <3>3. entered'[f] = left[f] \o Append(c, d)
            BY <1>11, <3>1, <3>2
        <3> QED
            BY <1>1, <1>16, <1>20, <2>3, <3>3 DEF ContentsOK, c
    <2> QED
        BY <2>2, <2>3
<1>22. /\ ThreadsOK' /\ ControlOK' /\ OffersOK' /\ PortsOK'
       /\ RoomOK(f)' /\ StockOK(f)' /\ ContentsOK(f)' => RingsOK'
    <2>1. \A c \in Elements(cs) : /\ c[1] \in {"signal", "update", "update_output", "unlock"}
                                  /\ c[1] # "signal" => c[2] = f
        BY <1>9
    <2> QED
        BY <1>1, <1>3, <1>8, <1>9, <1>11, <2>1, FifoCall
<1> QED
    BY <1>12, <1>13, <1>17, <1>19, <1>21, <1>22 DEF CInv, TypesOK
\* A pop finds the datum that its transition has peeked.
LEMMA PopStep ==
    ASSUME CInv, NEW t \in Threads, Pop(t), UNCHANGED userVars
    PROVE  CInv'
<1> USE DEF userVars, autVars, portFields, fifoVars, history
<1> SUFFICES ASSUME NEW f, f = Arg(t, 2)
             PROVE  CInv'
    OBVIOUS
<1> DEFINE cs == <<<<"update", f>>>>
<1>1. /\ todo[t] # <<>> /\ Head(todo[t])[1] = "pop" /\ NextCall(t, "pop") /\ Then(t, cs)
      /\ head' = [head EXCEPT ![f] = (@ + 1) % Slots(f)]
      /\ UNCHANGED <<autVars, ctx, sem, portFields, ring, tail, fholder, pc, cur, history>>
    BY DEF Pop, NextCall
<1>2. Head(todo[t]) \in Calls
    BY <1>1, TailFacts DEF CInv, TypesOK, ThreadsOK
<1>3. f \in Fifos /\ Head(todo[t])[2] = f
    BY <1>1, <1>2, CallShape DEF Arg
<1>4. t \in Main /\ Head(todo[t]) \in Ops(t) /\ Owns(t, Head(todo[t]))
    BY <1>1, CallerFacts DEF CInv, TypesOK
<1>5. Has(t, "pop", f) /\ Home(t) = AutomatonOf(OutEnd(f))
    BY <1>1, <1>3, <1>4 DEF Has, Owns
<1>6. RoomOK(f) /\ StockOK(f) /\ ContentsOK(f)
    BY <1>3 DEF CInv, RingsOK
<1>7. ~IsEmpty(f) /\ Contents(f) \in Seq(Data)
    BY <1>5, <1>6 DEF StockOK, ContentsOK
<1>8. /\ Contents(f) # <<>>
      /\ Tail(Contents(f)) = Held(ring[f], (head[f] + 1) % Slots(f), tail[f], Slots(f))
      /\ (tail[f] + 1) % Slots(f) # (head[f] + 1) % Slots(f)
    BY <1>3, <1>7, NotEmpty DEF CInv, TypesOK
<1>9. cs \in Seq(Calls) /\ Elements(cs) = {<<"update", f>>}
    <2>1. <<"update", f>> \in Calls
        BY <1>3 DEF Calls
    <2> QED
        BY <2>1 DEF Elements
<1> HIDE DEF cs
<1>10. /\ Slots(f) \in Nat \ {0} /\ Slots(f) - 1 = Capacity[f]
       /\ (head[f] + 1) % Slots(f) \in 0 .. Slots(f) - 1
    BY <1>3, FifoFacts DEF CInv, TypesOK
<1>11. /\ ring'[f] = ring[f] /\ tail'[f] = tail[f] /\ head'[f] = (head[f] + 1) % Slots(f)
       /\ \A g \in Fifos \ {f} : /\ ring'[g] = ring[g] /\ head'[g] = head[g] /\ tail'[g] = tail[g]
                                 /\ entered'[g] = entered[g]
    BY <1>1, <1>3 DEF CInv, TypesOK, FifosOK
<1>12. FieldsOK'
    BY <1>1 DEF CInv, TypesOK, FieldsOK
<1>13. FifosOK'
    <2>1. (head[f] + 1) % Slots(f) \in Nat /\ (head[f] + 1) % Slots(f) <= Capacity[f]
        BY <1>10
    <2>2. head' \in [Fifos -> Nat] /\ \A g \in Fifos : head'[g] <= Capacity[g]
        BY <1>1, <1>3, <1>11, <2>1 DEF CInv, TypesOK, FifosOK
    <2> QED
        BY <1>1, <2>2 DEF CInv, TypesOK, FifosOK
<1>14. \A u \in Threads : ~Has(u, "pop", f)'
    <2>1. ~Has(t, "pop", f)'
        BY <1>1, <1>3, <1>9, HasGone DEF CInv, TypesOK
    <2>2. ASSUME NEW u \in Threads, u # t
          PROVE  ~Has(u, "pop", f)'
        <3>1. ~Has(u, "pop", f)
            BY <1>5, <2>2, Alone DEF CInv, TypesOK
        <3> QED
            BY <1>1, <1>9, <2>2, <3>1, ThenFacts DEF CInv, TypesOK, Has
    <2> QED
        BY <2>1, <2>2
<1>15. Has(t, "update", f)'
    <2>1. <<"update", f>> \in Ops(t)'
        BY <1>1, <1>9, ThenFacts DEF CInv, TypesOK
    <2> QED
        BY <2>1 DEF Has
<1>16. ~IsFull(f)'
    BY <1>8, <1>11 DEF IsFull, Slots
<1>17. RoomOK(f)'
    BY <1>4, <1>15, <1>16, ThreadNames DEF RoomOK, Main
<1>18. StockOK(f)'
    BY <1>4, <1>5, <1>14, <1>15, ThreadNames DEF StockOK, Main, Home, OutEnd, AutomatonOf
<1>19. Contents(f)' = Tail(Contents(f))
    <2>1. Contents(f)' = Held(ring'[f], head'[f], tail'[f], Slots(f))
        BY DEF Contents, Held, Slots
    <2> QED
        BY <1>8, <1>11, <2>1
<1>20. ContentsOK(f)'
    <2>1. Tail(Contents(f)) \in Seq(Data)
        BY <1>7, <1>8, HeadTailProperties
    <2>2. entered[f] = left[f] \o Tail(Contents(f))
        BY <1>5, <1>6 DEF ContentsOK
    <2> QED
        BY <1>1, <1>14, <1>19, <2>1, <2>2 DEF ContentsOK
<1>21. /\ ThreadsOK' /\ ControlOK' /\ OffersOK' /\ PortsOK'
       /\ RoomOK(f)' /\ StockOK(f)' /\ ContentsOK(f)' => RingsOK'
    <2>1. \A c \in Elements(cs) : /\ c[1] \in {"signal", "update", "update_output", "unlock"}
                                  /\ c[1] # "signal" => c[2] = f
        BY <1>9
    <2> QED
        BY <1>1, <1>3, <1>9, <1>11, <2>1, FifoCall
<1> QED
    BY <1>12, <1>13, <1>17, <1>18, <1>20, <1>21 DEF CInv, TypesOK

LEMMA UpdateInputStep ==
    ASSUME CInv, NEW t \in Threads, UpdateInput(t), UNCHANGED userVars
    PROVE  CInv'
<1> USE DEF userVars, autVars, portFields, fifoVars, history
<1> SUFFICES ASSUME NEW f, f = Arg(t, 2)
             PROVE  CInv'
    OBVIOUS
<1>1. /\ todo[t] # <<>> /\ Head(todo[t])[1] = "update" /\ NextCall(t, "update")
      /\ fholder' = [fholder EXCEPT ![f] = t]
      /\ UNCHANGED <<autVars, sem, portFields, ring, head, tail, pc, cur, history>>
    BY DEF UpdateInput, NextCall
<1>2. Head(todo[t]) \in Calls
    BY <1>1, TailFacts DEF CInv, TypesOK, ThreadsOK
<1>3. f \in Fifos /\ Head(todo[t])[2] = f
    BY <1>1, <1>2, CallShape DEF Arg
<1>4. t \in Main /\ Head(todo[t]) \in Ops(t)
    BY <1>1, CallerFacts DEF CInv, TypesOK
<1>5. RoomOK(f) /\ StockOK(f) /\ ContentsOK(f)
    BY <1>3 DEF CInv, RingsOK
<1>6. PICK cs \in Seq(Calls) :
         /\ Then(t, cs) /\ <<"update_output", f>> \in Elements(cs)
         /\ \A c \in Elements(cs) : c = <<"update_output", f>> \/ c[1] = "signal"
    <2> DEFINE w == <<<<"update_output", f>>>>
               a == AutomatonOf(InEnd(f))
    <2>1. w \in Seq(Calls) /\ Elements(w) = {<<"update_output", f>>}
        <3>1. <<"update_output", f>> \in Calls
            BY <1>3 DEF Calls
        <3> QED
            BY <3>1 DEF Elements
    <2>2. a \in Automata
        BY <1>3, PortsInAutomata, EndNames
    <2>3. Then(t, w) \/ Then(t, Kick(a) \o w)
        BY DEF UpdateInput
    <2> HIDE DEF w, a
    <2>4. /\ Kick(a) \o w \in Seq(Calls)
          /\ Elements(Kick(a) \o w) = Elements(Kick(a)) \cup {<<"update_output", f>>}
        BY <2>1, <2>2, KickFacts, ConcatFacts
    <2>5. \A c \in Elements(Kick(a)) : c[1] = "signal"
        BY <2>2, KickFacts
    <2>6. CASE Then(t, w)
        BY <2>1, <2>6
    <2>7. CASE Then(t, Kick(a) \o w)
        <3> DEFINE v == Kick(a) \o w
        <3>1. /\ v \in Seq(Calls) /\ Then(t, v) /\ <<"update_output", f>> \in Elements(v)
              /\ \A c \in Elements(v) : c = <<"update_output", f>> \/ c[1] = "signal"
            BY <2>4, <2>5, <2>7
        <3> HIDE DEF v
        <3> QED
            BY <3>1
    <2> QED
        BY <2>3, <2>6, <2>7
<1>7. ctx' = IF IsFull(f) THEN ctx \ {InEnd(f)} ELSE ctx \cup {InEnd(f)}
    BY DEF UpdateInput
<1>8. InEnd(f) \in Ends /\ OutEnd(f) # InEnd(f)
    BY <1>3, EndNames
<1>9. FieldsOK'
    BY <1>1, <1>7, <1>8 DEF CInv, TypesOK, FieldsOK
<1>10. FifosOK'
    BY <1>1 DEF CInv, TypesOK, FifosOK
<1>11. \A u \in Threads : /\ Has(u, "push", f)' <=> Has(u, "push", f)
                          /\ Has(u, "pop", f)' <=> Has(u, "pop", f)
    BY <1>1, <1>6, HasStays DEF CInv, TypesOK
<1>12. Has(t, "update_output", f)'
    <2>1. <<"update_output", f>> \in Ops(t)'
        BY <1>1, <1>6, ThenFacts DEF CInv, TypesOK
    <2> QED
        BY <2>1 DEF Has
<1>13. ASSUME NEW u \in Threads, Has(u, "update", f) \/ Has(u, "update_output", f)
       PROVE  Has(u, "update", f)' \/ Has(u, "update_output", f)'
    <2>1. CASE u = t
        BY <1>12, <2>1
    <2>2. CASE u # t
        <3>1. Ops(u)' = Ops(u)
            BY <1>1, <1>6, <2>2, ThenFacts DEF CInv, TypesOK
        <3> QED
            BY <1>13, <3>1 DEF Has
    <2> QED
        BY <2>1, <2>2
<1>14. /\ IsFull(f)' <=> IsFull(f)
       /\ IsEmpty(f)' <=> IsEmpty(f)
       /\ Contents(f)' = Contents(f)
       /\ InEnd(f) \in ctx' <=> ~IsFull(f)
       /\ OutEnd(f) \in ctx' <=> OutEnd(f) \in ctx
    BY <1>1, <1>7, <1>8 DEF IsFull, IsEmpty, Contents
<1>15. RoomOK(f)'
    <2>1. InEnd(f)' = InEnd(f)
        BY DEF InEnd
    <2> QED
        BY <1>5, <1>11, <1>14, <2>1 DEF RoomOK
<1>16. StockOK(f)'
    BY <1>4, <1>5, <1>11, <1>12, <1>13, <1>14, ThreadNames DEF StockOK, Main, Home, OutEnd, AutomatonOf
<1>17. ContentsOK(f)'
    BY <1>1, <1>5, <1>11, <1>14 DEF ContentsOK
<1>18. /\ ThreadsOK' /\ ControlOK' /\ OffersOK' /\ PortsOK'
       /\ RoomOK(f)' /\ StockOK(f)' /\ ContentsOK(f)' => RingsOK'
    <2>1. \A c \in Elements(cs) : /\ c[1] \in {"signal", "update", "update_output", "unlock"}
                                  /\ c[1] # "signal" => c[2] = f
        BY <1>6
    <2>2. \A x : x \notin {InEnd(f), OutEnd(f)} => (x \in ctx' <=> x \in ctx)
        BY <1>7
    <2> QED
        BY <1>1, <1>3, <1>6, <2>1, <2>2, FifoCall
<1> QED
    BY <1>9, <1>10, <1>15, <1>16, <1>17, <1>18 DEF CInv, TypesOK

LEMMA UpdateOutputStep ==
    ASSUME CInv, NEW t \in Threads, UpdateOutput(t), UNCHANGED userVars
    PROVE  CInv'
<1> USE DEF userVars, autVars, portFields, fifoVars, history
<1> SUFFICES ASSUME NEW f, f = Arg(t, 2)
             PROVE  CInv'
    OBVIOUS
<1>1. /\ todo[t] # <<>> /\ Head(todo[t])[1] = "update_output" /\ NextCall(t, "update_output")
      /\ UNCHANGED <<autVars, sem, portFields, fifoVars, pc, cur, history>>
    BY DEF UpdateOutput, NextCall
<1>2. Head(todo[t]) \in Calls
    BY <1>1, TailFacts DEF CInv, TypesOK, ThreadsOK
<1>3. f \in Fifos /\ Head(todo[t])[2] = f
    BY <1>1, <1>2, CallShape DEF Arg
<1>4. t \in Main /\ Head(todo[t]) \in Ops(t)
    BY <1>1, CallerFacts DEF CInv, TypesOK
<1>5. RoomOK(f) /\ StockOK(f) /\ ContentsOK(f)
    BY <1>3 DEF CInv, RingsOK
<1>6. PICK cs \in Seq(Calls) :
         /\ Then(t, cs) /\ <<"unlock", f>> \in Elements(cs)
         /\ \A c \in Elements(cs) : c = <<"unlock", f>> \/ c[1] = "signal"
    <2> DEFINE w == <<<<"unlock", f>>>>
               a == AutomatonOf(OutEnd(f))
    <2>1. w \in Seq(Calls) /\ Elements(w) = {<<"unlock", f>>}
        <3>1. <<"unlock", f>> \in Calls
            BY <1>3 DEF Calls
        <3> QED
            BY <3>1 DEF Elements
    <2>2. a \in Automata
        BY <1>3, PortsInAutomata, EndNames
    <2>3. Then(t, w) \/ Then(t, Kick(a) \o w)
        BY DEF UpdateOutput
    <2> HIDE DEF w, a
    <2>4. /\ Kick(a) \o w \in Seq(Calls)
          /\ Elements(Kick(a) \o w) = Elements(Kick(a)) \cup {<<"unlock", f>>}
        BY <2>1, <2>2, KickFacts, ConcatFacts
    <2>5. \A c \in Elements(Kick(a)) : c[1] = "signal"
        BY <2>2, KickFacts
    <2>6. CASE Then(t, w)
        BY <2>1, <2>6
    <2>7. CASE Then(t, Kick(a) \o w)
        <3> DEFINE v == Kick(a) \o w
        <3>1. /\ v \in Seq(Calls) /\ Then(t, v) /\ <<"unlock", f>> \in Elements(v)
              /\ \A c \in Elements(v) : c = <<"unlock", f>> \/ c[1] = "signal"
            BY <2>4, <2>5, <2>7
        <3> HIDE DEF v
        <3> QED
            BY <3>1
    <2> QED
        BY <2>3, <2>6, <2>7
<1>7. ctx' = IF IsEmpty(f) THEN ctx \ {OutEnd(f)} ELSE ctx \cup {OutEnd(f)}
    BY DEF UpdateOutput
<1>8. OutEnd(f) \in Ends /\ OutEnd(f) # InEnd(f)
    BY <1>3, EndNames
<1>9. FieldsOK'
    BY <1>1, <1>7, <1>8 DEF CInv, TypesOK, FieldsOK
<1>10. FifosOK'
    BY <1>1 DEF CInv, TypesOK, FifosOK
<1>11. \A u \in Threads : /\ Has(u, "push", f)' <=> Has(u, "push", f)
                          /\ Has(u, "pop", f)' <=> Has(u, "pop", f)
                          /\ Has(u, "update", f)' <=> Has(u, "update", f)
    BY <1>1, <1>6, HasStays DEF CInv, TypesOK
<1>12. /\ IsFull(f)' <=> IsFull(f)
       /\ IsEmpty(f)' <=> IsEmpty(f)
       /\ Contents(f)' = Contents(f)
       /\ InEnd(f) \in ctx' <=> InEnd(f) \in ctx
       /\ OutEnd(f) \in ctx' <=> ~IsEmpty(f)
    BY <1>1, <1>7, <1>8 DEF IsFull, IsEmpty, Contents
<1>13. RoomOK(f)'
    BY <1>5, <1>11, <1>12, ThreadNames DEF RoomOK, Main, Home, InEnd, AutomatonOf
<1>14. StockOK(f)'
    <2>1. OutEnd(f)' = OutEnd(f)
        BY DEF OutEnd
    <2> QED
        BY <1>5, <1>11, <1>12, <2>1 DEF StockOK
<1>15. ContentsOK(f)'
    BY <1>1, <1>5, <1>11, <1>12 DEF ContentsOK
<1>16. /\ ThreadsOK' /\ ControlOK' /\ OffersOK' /\ PortsOK'
       /\ RoomOK(f)' /\ StockOK(f)' /\ ContentsOK(f)' => RingsOK'
    <2>1. \A c \in Elements(cs) : /\ c[1] \in {"signal", "update_output", "unlock", "unlock"}
                                  /\ c[1] # "signal" => c[2] = f
        BY <1>6
    <2>2. \A x : x \notin {InEnd(f), OutEnd(f)} => (x \in ctx' <=> x \in ctx)
        BY <1>7
    <2> QED
        BY <1>1, <1>3, <1>6, <2>1, <2>2, FifoCall
<1> QED
    BY <1>9, <1>10, <1>13, <1>14, <1>15, <1>16 DEF CInv, TypesOK

-----------------------------------------------------------------------------
(* The transitions of a port                                               *)

LEMMA LeastElement ==
    ASSUME NEW T, T \subseteq Nat, T # {}
    PROVE  \E x \in T : \A y \in T : x <= y
<1> DEFINE R == OpToRel(<, Nat)
<1>1. IsWellFoundedOn(R, Nat)
    BY NatLessThanWellFounded
<1>2. \A x, y \in Nat : <<y, x>> \in R <=> y < x
    BY DEF OpToRel
<1> HIDE DEF R
<1>3. PICK x \in T : \A y \in T : <<y, x>> \notin R
    BY <1>1, WFMin
<1>4. \A y \in T : ~(y < x)
    BY <1>2, <1>3
<1>5. \A y \in T : x <= y
    BY <1>4
<1> QED
    BY <1>5

\* f[n] is what the first n of the transitions s add for the port p.
Filled(p, s, f, n) ==
    f = [m \in 0 .. n |-> IF m = 0 THEN <<>>
                          ELSE IF p \in Elements(s[m].ports) THEN Append(f[m - 1], s[m])
                          ELSE f[m - 1]]

LEMMA FilledLast ==
    ASSUME NEW p
    PROVE  LET s == FromState(AutomatonOf(p))
               filled == CHOOSE f : Filled(p, s, f, Len(s))
           IN  TransitionsFor(p) = filled[Len(s)]
BY DEF TransitionsFor, Filled

LEMMA FilledExists ==
    ASSUME NEW p, NEW s, Len(s) \in Nat
    PROVE  \E f : Filled(p, s, f, Len(s))
<1> DEFINE L == Len(s)
           T == {l \in 0 .. L : ~ \E f : Filled(p, s, f, l)}
<1> SUFFICES ASSUME ~ \E f : Filled(p, s, f, L) PROVE FALSE
    OBVIOUS
<1> HIDE DEF L
<1>1. T \subseteq Nat /\ T # {} /\ L \in Nat
    BY DEF L
<1>2. PICK l \in T : \A y \in T : l <= y
    <2> HIDE DEF T
    <2> QED BY <1>1, LeastElement
<1>3. l \in 0 .. L /\ ~ \E f : Filled(p, s, f, l)
    BY <1>2
<1>4. l # 0
    <2> DEFINE g == [m \in 0 .. 0 |-> <<>>]
    <2>1. Filled(p, s, g, 0)
        BY DEF Filled
    <2> QED
        BY <1>3, <2>1
<1>5. PICK f : Filled(p, s, f, l - 1)
    BY <1>1, <1>2, <1>3, <1>4
<1> DEFINE g == [m \in 0 .. l |->
        IF m = l THEN IF p \in Elements(s[l].ports) THEN Append(f[l - 1], s[l]) ELSE f[l - 1]
        ELSE f[m]]
<1>6. \A m \in 0 .. l - 1 : f[m] = IF m = 0 THEN <<>>
                                   ELSE IF p \in Elements(s[m].ports) THEN Append(f[m - 1], s[m])
                                   ELSE f[m - 1]
    BY <1>5 DEF Filled
<1>7. \A m \in 0 .. l : g[m] = IF m = 0 THEN <<>>
                               ELSE IF p \in Elements(s[m].ports) THEN Append(g[m - 1], s[m])
                               ELSE g[m - 1]
    <2> SUFFICES ASSUME NEW m \in 0 .. l
                 PROVE  g[m] = IF m = 0 THEN <<>>
                               ELSE IF p \in Elements(s[m].ports) THEN Append(g[m - 1], s[m])
                               ELSE g[m - 1]
        OBVIOUS
    <2>1. l \in Nat \ {0} /\ l \in 0 .. l /\ l - 1 \in 0 .. l /\ l - 1 # l
        BY <1>1, <1>3, <1>4
    <2>2. g[m] = IF m = l THEN IF p \in Elements(s[l].ports) THEN Append(f[l - 1], s[l]) ELSE f[l - 1]
                 ELSE f[m]
        OBVIOUS
    <2>3. CASE m = l
        <3>1. g[m - 1] = f[l - 1]
            BY <2>1, <2>3
        <3> HIDE DEF g
        <3> QED
            BY <2>1, <2>2, <2>3, <3>1
    <2>4. CASE m # l
        <3>1. m \in 0 .. l - 1 /\ (m # 0 => m - 1 \in 0 .. l /\ m - 1 # l)
            BY <2>1, <2>4
        <3>2. m # 0 => g[m - 1] = f[m - 1]
            BY <3>1
        <3> HIDE DEF g
        <3> QED
            BY <1>6, <2>2, <2>4, <3>1, <3>2
    <2> QED
        BY <2>3, <2>4
<1>8. Filled(p, s, g, l)
    BY <1>7 DEF Filled
<1> QED
    BY <1>3, <1>8

\* They are the transitions of the state that need the port.
LEMMA FilledFacts ==
    ASSUME NEW p, NEW S, NEW s \in Seq(S), NEW f, Filled(p, s, f, Len(s))
    PROVE  /\ f[Len(s)] \in Seq(S)
           /\ Elements(f[Len(s)]) = {r \in Elements(s) : p \in Elements(r.ports)}
<1> DEFINE L == Len(s)
           Good(l) == /\ f[l] \in Seq(S)
                      /\ Elements(f[l]) = {s[m] : m \in {n \in 1 .. l : p \in Elements(s[n].ports)}}
           T == {l \in 0 .. L : ~Good(l)}
<1>1. L \in Nat /\ DOMAIN s = 1 .. L /\ \A m \in 1 .. L : s[m] \in S
    OBVIOUS
<1> HIDE DEF L
<1>2. /\ f[0] = <<>>
      /\ \A m \in 1 .. L : f[m] = IF p \in Elements(s[m].ports) THEN Append(f[m - 1], s[m])
                                  ELSE f[m - 1]
    <2>1. \A m \in 0 .. L : f[m] = IF m = 0 THEN <<>>
                                   ELSE IF p \in Elements(s[m].ports) THEN Append(f[m - 1], s[m])
                                   ELSE f[m - 1]
        BY DEF Filled, L
    <2> QED
        BY <1>1, <2>1
<1>3. Good(0)
    <2>1. <<>> \in Seq(S) /\ Elements(<<>>) = {}
        BY DEF Elements
    <2> QED
        BY <1>2, <2>1
<1>4. ASSUME NEW l \in 1 .. L, Good(l - 1)
      PROVE  Good(l)
    <2> DEFINE K(q) == {s[m] : m \in {n \in 1 .. q : p \in Elements(s[n].ports)}}
    <2>1. l - 1 \in Nat /\ 1 .. l = (1 .. l - 1) \cup {l} /\ l \in Nat
        BY <1>1
    <2>2. CASE p \in Elements(s[l].ports)
        <3>1. f[l] = Append(f[l - 1], s[l]) /\ s[l] \in S /\ f[l - 1] \in Seq(S)
            BY <1>1, <1>2, <1>4, <2>2
        <3>2. f[l] \in Seq(S) /\ Elements(f[l]) = Elements(f[l - 1]) \cup {s[l]}
            <4> DEFINE v == f[l - 1]
                       e == s[l]
            <4>1. v \in Seq(S) /\ e \in S /\ f[l] = Append(v, e)
                BY <3>1
            <4> HIDE DEF v, e
            <4>2. <<e>> \in Seq(S) /\ Elements(<<e>>) = {e} /\ f[l] = v \o <<e>>
                BY <4>1, AppendIsConcat DEF Elements
            <4> DEFINE w == <<e>>
            <4>3. v \in Seq(S) /\ w \in Seq(S) /\ Elements(w) = {e} /\ f[l] = v \o w
                BY <4>1, <4>2
            <4> HIDE DEF w
            <4>4. v \o w \in Seq(S) /\ Elements(v \o w) = Elements(v) \cup Elements(w)
                BY ONLY <4>3, ConcatFacts
            <4> QED
                BY <4>3, <4>4 DEF v, e
        <3>3. K(l) = K(l - 1) \cup {s[l]}
            BY <2>1, <2>2
        <3> QED
            BY <1>4, <3>2, <3>3
    <2>3. CASE p \notin Elements(s[l].ports)
        <3>1. f[l] = f[l - 1]
            BY <1>2, <2>3
        <3>2. K(l) = K(l - 1)
            BY <2>1, <2>3
        <3> QED
            BY <1>4, <3>1, <3>2
    <2> QED
        BY <2>2, <2>3
<1>5. T = {}
    <2> SUFFICES ASSUME T # {} PROVE FALSE
        OBVIOUS
    <2>1. T \subseteq Nat
        BY <1>1
    <2>2. PICK l \in T : \A y \in T : l <= y
        <3> HIDE DEF T
        <3> QED BY <2>1, LeastElement
    <2>3. l \in 0 .. L /\ ~Good(l) /\ l # 0
        BY <1>3, <2>2
    <2> HIDE DEF Good
    <2>4. Good(l - 1)
        BY <1>1, <2>2, <2>3
    <2> QED
        BY <1>1, <1>4, <2>3, <2>4
<1>6. Good(L)
    <2> HIDE DEF Good
    <2> QED
        BY <1>1, <1>5
<1>7. {s[m] : m \in {n \in 1 .. L : p \in Elements(s[n].ports)}}
        = {r \in {s[m] : m \in 1 .. L} : p \in Elements(r.ports)}
    OBVIOUS
<1>8. Elements(s) = {s[m] : m \in 1 .. L}
    BY <1>1 DEF Elements
<1> QED
    BY <1>6, <1>7, <1>8 DEF L

LEMMA TransitionsForFacts ==
    ASSUME FieldsOK, NEW p \in UserPorts
    PROVE  LET a == AutomatonOf(p)
           IN  /\ a \in Automata /\ state[a] \in States
               /\ FromState(a) \in Seq(Elements(FromState(a)))
               /\ TransitionsFor(p) \in Seq(Elements(FromState(a)))
               /\ Elements(TransitionsFor(p)) = {r \in Elements(FromState(a)) : p \in Elements(r.ports)}
<1> DEFINE a == AutomatonOf(p)
           s == FromState(a)
           filled == CHOOSE f : Filled(p, s, f, Len(s))
<1>1. a \in Automata /\ state[a] \in States
    BY PortsInAutomata DEF FieldsOK
<1>2. s \in Seq(Elements(s))
    BY <1>1, AutomatonAssumption DEF FromState
<1>3. TransitionsFor(p) = filled[Len(s)]
    BY FilledLast
<1>4. Filled(p, s, filled, Len(s))
    <2>1. Len(s) \in Nat
        BY <1>2, LenProperties
    <2>2. \E f : Filled(p, s, f, Len(s))
        <3> HIDE DEF s
        <3> QED
            BY <2>1, FilledExists
    <2> QED
        BY <2>2
<1> HIDE DEF s, filled
<1>5. /\ filled[Len(s)] \in Seq(Elements(s))
      /\ Elements(filled[Len(s)]) = {r \in Elements(s) : p \in Elements(r.ports)}
    BY <1>2, <1>4, FilledFacts
<1> QED
    BY <1>1, <1>2, <1>3, <1>5 DEF s

-----------------------------------------------------------------------------
(* A transition fires                                                      *)

\* A thread that tries a transition is the only one to change the automaton.
LEMMA NobodyElse ==
    ASSUME ThreadsOK, ControlOK, NEW t \in Main, Critical(t), todo[t] = <<>>,
           NEW u \in Main, Home(u) = Home(t)
    PROVE  todo[u] = <<>> /\ \A kind, x : ~Has(u, kind, x)
<1>1. todo[u] # <<>> => Critical(u)
    BY ThreadNames DEF ControlOK, WorkOK, Critical
<1>2. todo[u] = <<>>
    BY <1>1, Mutex DEF ControlOK
<1> QED
    BY <1>2, HasSome

\* What such a thread reads in the context is true.
LEMMA ReadyEnds ==
    ASSUME CInv, NEW t \in Main, Critical(t), todo[t] = <<>>, NEW f \in Fifos
    PROVE  /\ InEnd(f) \in ctx /\ AutomatonOf(InEnd(f)) = Home(t) => ~IsFull(f)
           /\ OutEnd(f) \in ctx /\ AutomatonOf(OutEnd(f)) = Home(t) =>
                /\ ~IsEmpty(f) /\ Peek(OutEnd(f)) \in Data /\ Contents(f) # <<>>
                /\ Peek(OutEnd(f)) = Head(Contents(f))
                /\ \A u \in Threads : ~Has(u, "pop", f)
<1>1. \A u \in Main : Home(u) = Home(t) => \A kind, x : ~Has(u, kind, x)
    BY NobodyElse DEF CInv, TypesOK
<1>2. RoomOK(f) /\ StockOK(f) /\ ContentsOK(f)
    BY DEF CInv, RingsOK
<1>3. InEnd(f) \in ctx /\ AutomatonOf(InEnd(f)) = Home(t) => ~IsFull(f)
    BY <1>1, <1>2 DEF RoomOK
<1>4. ASSUME OutEnd(f) \in ctx, AutomatonOf(OutEnd(f)) = Home(t)
      PROVE  /\ ~IsEmpty(f) /\ Peek(OutEnd(f)) \in Data /\ Contents(f) # <<>>
             /\ Peek(OutEnd(f)) = Head(Contents(f))
             /\ \A u \in Threads : ~Has(u, "pop", f)
    <2>1. ~IsEmpty(f)
        BY <1>1, <1>2, <1>4 DEF StockOK
    <2>2. Contents(f) \in Seq(Data)
        BY <1>2 DEF ContentsOK
    <2>3. Contents(f) # <<>> /\ Head(Contents(f)) = ring[f][head[f]]
        BY <2>1, <2>2, NotEmpty DEF CInv, TypesOK
    <2>4. Peek(OutEnd(f)) = ring[f][head[f]]
        BY EndNames DEF Peek
    <2>5. Head(Contents(f)) \in Data
        BY <2>2, <2>3, HeadTailProperties
    <2>6. ASSUME NEW u \in Threads, Has(u, "pop", f)
          PROVE  FALSE
        <3>1. PICK c \in Ops(u) : c[1] = "pop" /\ c[2] = f
            BY <2>6 DEF Has
        <3>2. u \in Main /\ Owns(u, c)
            BY <3>1 DEF CInv, ControlOK, WorkOK
        <3> QED
            BY <1>1, <1>4, <2>6, <3>1, <3>2 DEF Owns
    <2> QED
        BY <2>1, <2>3, <2>4, <2>5, <2>6
<1> QED
    BY <1>3, <1>4

LEMMA ShiftHead ==
    ASSUME NEW S, NEW s \in Seq(S), NEW c \in Seq(S), c # <<>>
    PROVE  s \o c = Append(s, Head(c)) \o Tail(c)
<1> DEFINE h == Head(c)
           v == Tail(c)
<1>1. h \in S /\ v \in Seq(S) /\ c = <<h>> \o v
    BY HeadTailProperties, ConcatProperties
<1> HIDE DEF h, v
<1>2. s \o (<<h>> \o v) = (s \o <<h>>) \o v
    BY <1>1, ConcatAssociative
<1>3. s \o <<h>> = Append(s, h)
    BY <1>1
<1> QED
    BY <1>1, <1>2, <1>3 DEF h, v

\* What a transition that can fire reads are data.
LEMMA ReadyData ==
    ASSUME CInv, NEW t \in Main, Critical(t), todo[t] = <<>>, NEW a, a = Home(t),
           NEW r \in Elements(FromState(a)), Ready(r)
    PROVE  /\ state[a] \in States /\ r \in Elements(Transitions[a][state[a]])
           /\ \A v \in Elements(r.sets) : Peek(v.source) \in Data
<1>1. a \in Automata /\ state[a] \in States
    BY PortsInAutomata DEF CInv, TypesOK, FieldsOK
<1>2. PICK s \in States : s = state[a] /\ r \in Elements(Transitions[a][s])
    BY <1>1 DEF FromState
<1>3. /\ \A x \in Elements(r.ports) : x \in UserPorts \cup Ends /\ AutomatonOf(x) = a /\ x \in ctx
      /\ \A v \in Elements(r.sets) : /\ v.source \in Elements(r.ports)
                                     /\ v.source \in PutPorts \/ \E f \in Fifos : v.source = OutEnd(f)
    BY <1>1, <1>2, TransitionFacts DEF Ready
<1>4. ASSUME NEW v \in Elements(r.sets)
      PROVE  Peek(v.source) \in Data
    <2>1. CASE v.source \in PutPorts
        <3>1. v.source \in UserPorts /\ v.source \in ctx
            BY <1>3, <1>4, <2>1, CPortAssumption
        <3>2. data[v.source] # Null /\ data[v.source] \in Data \cup {Null}
            BY <2>1, <3>1 DEF CInv, OffersOK, TypesOK, FieldsOK
        <3> QED
            BY <3>1, <3>2 DEF Peek
    <2>2. CASE \E f \in Fifos : v.source = OutEnd(f)
        <3>1. PICK f \in Fifos : v.source = OutEnd(f)
            BY <2>2
        <3>2. OutEnd(f) \in ctx /\ AutomatonOf(OutEnd(f)) = Home(t)
            BY <1>3, <1>4, <3>1
        <3> QED
            BY <3>1, <3>2, ReadyEnds
    <2> QED
        BY <1>3, <1>4, <2>1, <2>2
<1> QED
    BY <1>1, <1>2, <1>4

LEMMA FireStep ==
    ASSUME CInv, NEW t \in Main, Critical(t), todo[t] = <<>>, NEW a, a = Home(t),
           NEW r \in Elements(FromState(a)), Fire(t, a, r),
           NEW l \in {"fired", "loop_fired"}, l \in LabelsOf(t), pc' = [pc EXCEPT ![t] = l],
           pc[t] \in {"try", "loop_try"}, t \in UserPorts => t \in Elements(r.ports),
           UNCHANGED <<holder, state, active, ctx, sem, data, status, ring, head, tail, fholder,
                       cur, result>>,
           last' \in [UserPorts -> [States -> Nat]]
    PROVE  CInv'
<1> DEFINE cs == FireCalls(a, r)
<1>1. a \in Automata /\ state[a] \in States /\ t \in Threads
    BY PortsInAutomata, ThreadNames DEF CInv, TypesOK, FieldsOK
<1>2. PICK s \in States : r \in Elements(Transitions[a][s])
    BY <1>1 DEF FromState
<1>3. /\ Elements(r.ports) \subseteq ctx
      /\ todo' = [todo EXCEPT ![t] = cs]
      /\ fired' = [p \in UserPorts |-> IF p \in Elements(r.ports) THEN fired[p] + 1 ELSE fired[p]]
      /\ left' = [f \in Fifos |-> IF OutEnd(f) \in Elements(r.ports)
                                  THEN Append(left[f], Peek(OutEnd(f))) ELSE left[f]]
      /\ entered' = entered
    BY DEF Fire, Ready
<1>4. /\ \A x \in Elements(r.ports) : x \in UserPorts \cup Ends /\ AutomatonOf(x) = a
      /\ \A v \in Elements(r.sets) : /\ v.source \in Elements(r.ports)
                                     /\ v.source \in PutPorts \/ \E f \in Fifos : v.source = OutEnd(f)
    BY <1>1, <1>2, TransitionFacts
<1>5. ASSUME NEW v \in Elements(r.sets)
      PROVE  Peek(v.source) \in Data
    BY <1>3, ReadyData DEF Ready
<1>6. cs \in Seq(Calls) /\ cs # <<>> /\ InOrder(cs) /\ Kicks(cs, a)
    BY <1>1, <1>2, <1>5, FireCallsFacts
<1>7. /\ \A c \in Elements(cs) :
            /\ c[1] = "push" => c[2] \in Fifos /\ InEnd(c[2]) \in Elements(r.ports)
            /\ c[1] = "pop" => c[2] \in Fifos /\ OutEnd(c[2]) \in Elements(r.ports)
            /\ c[1] \in {"set", "status"} => c[2] \in UserPorts \cap Elements(r.ports)
            /\ c[1] \notin {"remove", "update_output", "unlock"}
            /\ c[1] = "state" => c[2] = a
      /\ \A p \in Elements(r.ports) \cap UserPorts :
            /\ <<"status", p>> \in Elements(cs)
            /\ p \notin PutPorts => \E c \in Elements(cs) : c[1] = "set" /\ c[2] = p
      /\ \A f \in Fifos : OutEnd(f) \in Elements(r.ports) => <<"pop", f>> \in Elements(cs)
    BY <1>1, <1>2, <1>5, FireOps, SMTT(30)
<1> HIDE DEF cs
<1>8. /\ todo'[t] = cs /\ Ops(t)' = Elements(cs) /\ todo' \in [Threads -> Seq(Calls)]
      /\ \A u \in Threads \ {t} : todo'[u] = todo[u] /\ Ops(u)' = Ops(u)
      /\ \A u \in Threads \ {t} : \A kind, x : Has(u, kind, x)' <=> Has(u, kind, x)
    <2>1. todo \in [Threads -> Seq(Calls)]
        BY DEF CInv, TypesOK, ThreadsOK
    <2> QED
        BY <1>1, <1>3, <1>6, <2>1 DEF Ops, Has
<1>9. /\ \A kind, x : ~Has(t, kind, x)
      /\ \A u \in Main : Home(u) = a => \A kind, x : ~Has(u, kind, x)
    BY NobodyElse DEF CInv, TypesOK
<1>10. FieldsOK'
    BY <1>3 DEF CInv, TypesOK, FieldsOK
<1>11. FifosOK'
    <2>1. ASSUME NEW f \in Fifos
          PROVE  left'[f] \in Seq(Data)
        <3>1. left[f] \in Seq(Data)
            BY DEF CInv, TypesOK, FifosOK
        <3>2. CASE OutEnd(f) \in Elements(r.ports)
            <4>1. Peek(OutEnd(f)) \in Data
                BY <1>3, <1>4, <3>2, ReadyEnds
            <4> QED
                BY <1>3, <3>1, <3>2, <4>1, AppendProperties
        <3> QED
            BY <1>3, <3>1, <3>2
    <2>2. left' \in [Fifos -> Seq(Data)]
        BY <1>3, <2>1
    <2> QED
        BY <1>3, <2>2 DEF CInv, TypesOK, FifosOK
<1>12. ThreadsOK'
    <2>1. pc' = [u \in Threads |-> pc'[u]] /\ pc'[t] = l /\ \A u \in Threads \ {t} : pc'[u] = pc[u]
        BY <1>1 DEF CInv, TypesOK, ThreadsOK
    <2> QED
        BY <1>1, <1>8, <2>1 DEF CInv, TypesOK, ThreadsOK, LabelsOf
<1>13. pc'[t] = l /\ \A u \in Threads \ {t} : pc'[u] = pc[u]
    BY <1>1 DEF CInv, TypesOK, ThreadsOK
<1>14. LockOK'
    BY <1>1, <1>13, ThreadNames DEF CInv, ControlOK, LockOK, Critical, Main, Home, AutomatonOf
<1>15. WorkOK'
    <2> SUFFICES ASSUME NEW u \in Threads
                 PROVE  /\ u \in Main /\ todo'[u] # <<>> => pc'[u] \in {"fired", "loop_fired"}
                        /\ u \notin Main => \A c \in Ops(u)' : c[1] = "signal"
                        /\ u \in Main => \A c \in Ops(u)' : Owns(u, c)
        BY DEF WorkOK, Owns, Main, Home
    <2>1. /\ u \in Main /\ todo[u] # <<>> => pc[u] \in {"fired", "loop_fired"}
          /\ u \notin Main => \A c \in Ops(u) : c[1] = "signal"
          /\ u \in Main => \A c \in Ops(u) : Owns(u, c)
        BY DEF CInv, ControlOK, WorkOK
    <2>2. CASE u # t
        BY <1>8, <1>13, <2>1, <2>2
    <2>3. CASE u = t
        <3>1. \A c \in Elements(cs) : Owns(t, c)
            BY <1>4, <1>7 DEF Owns
        <3> QED
            BY <1>8, <1>13, <2>3, <3>1
    <2> QED
        BY <2>2, <2>3
<1>16. OrderOK'
    <2> SUFFICES ASSUME NEW u \in Threads
                 PROVE  InOrder(todo'[u]) /\ (u \in Main => Kicks(todo'[u], Home(u)))
        BY DEF OrderOK, InOrder, Kicks, Main, Home, Party
    <2>1. InOrder(todo[u]) /\ (u \in Main => Kicks(todo[u], Home(u)))
        BY DEF CInv, ControlOK, OrderOK
    <2> QED
        BY <1>6, <1>8, <2>1
<1>17. OffersOK'
    <2>1. \A p \in PutPorts : pc'[p] # "idle" => pc[p] # "idle"
        BY <1>1, <1>13, ThreadNames, CPortAssumption DEF Main
    <2> QED
        BY <2>1 DEF CInv, OffersOK
<1>18. RingsOK'
    <2> SUFFICES ASSUME NEW f \in Fifos
                 PROVE  RoomOK(f)' /\ StockOK(f)' /\ ContentsOK(f)'
        BY DEF RingsOK
    <2>1. RoomOK(f) /\ StockOK(f) /\ ContentsOK(f)
        BY DEF CInv, RingsOK
    <2>2. /\ IsFull(f)' <=> IsFull(f)
          /\ IsEmpty(f)' <=> IsEmpty(f)
          /\ Contents(f)' = Contents(f)
        BY DEF IsFull, IsEmpty, Contents
    <2>3. ASSUME NEW u \in Threads, Has(u, "push", f)'
          PROVE  ~IsFull(f)
        <3>1. CASE u # t
            BY <1>8, <2>1, <2>3, <3>1 DEF RoomOK
        <3>2. CASE u = t
            <4>1. InEnd(f) \in Elements(r.ports)
                BY <1>7, <1>8, <2>3, <3>2 DEF Has
            <4>2. InEnd(f) \in ctx /\ AutomatonOf(InEnd(f)) = Home(t)
                BY <1>3, <1>4, <4>1
            <4> QED
                BY <4>2, ReadyEnds
        <3> QED
            BY <3>1, <3>2
    <2>4. ASSUME NEW u \in Threads, Has(u, "pop", f)'
          PROVE  ~IsEmpty(f)
        <3>1. CASE u # t
            BY <1>8, <2>1, <2>4, <3>1 DEF StockOK
        <3>2. CASE u = t
            <4>1. OutEnd(f) \in Elements(r.ports)
                BY <1>7, <1>8, <2>4, <3>2 DEF Has
            <4>2. OutEnd(f) \in ctx /\ AutomatonOf(OutEnd(f)) = Home(t)
                BY <1>3, <1>4, <4>1
            <4> QED
                BY <4>2, ReadyEnds
        <3> QED
            BY <3>1, <3>2
    <2>5. \A u \in Threads : /\ Has(u, "update", f) => Has(u, "update", f)'
                             /\ Has(u, "update_output", f) => Has(u, "update_output", f)'
        BY <1>8, <1>9
    <2>6. RoomOK(f)'
        BY <2>1, <2>2, <2>3, <2>5, ThreadNames DEF RoomOK, Main, Home, InEnd, AutomatonOf
    <2>7. StockOK(f)'
        BY <2>1, <2>2, <2>4, <2>5, ThreadNames DEF StockOK, Main, Home, OutEnd, AutomatonOf
    <2>8. ContentsOK(f)'
        <3>1. Contents(f) \in Seq(Data) /\ left[f] \in Seq(Data)
            BY <2>1 DEF ContentsOK, CInv, TypesOK, FifosOK
        <3>2. CASE OutEnd(f) \in Elements(r.ports)
            <4>1. /\ Contents(f) # <<>> /\ Peek(OutEnd(f)) = Head(Contents(f))
                  /\ \A u \in Threads : ~Has(u, "pop", f)
                BY <1>3, <1>4, <3>2, ReadyEnds
            <4>2. entered[f] = left[f] \o Contents(f)
                BY <2>1, <4>1 DEF ContentsOK
            <4>3. entered[f] = Append(left[f], Head(Contents(f))) \o Tail(Contents(f))
                <5> DEFINE c == Contents(f)
                           s0 == left[f]
                <5>1. s0 \in Seq(Data) /\ c \in Seq(Data) /\ c # <<>>
                    BY <3>1, <4>1
                <5> HIDE DEF c, s0
                <5>2. s0 \o c = Append(s0, Head(c)) \o Tail(c)
                    BY <5>1, ShiftHead
                <5> QED
                    BY <4>2, <5>2 DEF c, s0
            <4>4. left'[f] = Append(left[f], Head(Contents(f)))
                BY <1>3, <3>2, <4>1
            <4>5. Has(t, "pop", f)'
                <5>1. <<"pop", f>> \in Ops(t)'
                    BY <1>7, <1>8, <3>2
                <5> QED
                    BY <5>1 DEF Has
            <4> QED
                BY <1>1, <1>3, <2>2, <3>1, <4>3, <4>4, <4>5 DEF ContentsOK
        <3>3. CASE OutEnd(f) \notin Elements(r.ports)
            <4>1. \A u \in Threads : Has(u, "pop", f)' <=> Has(u, "pop", f)
                <5>1. ~Has(t, "pop", f)
                    BY <1>9
                <5>2. \A c \in Ops(t)' : ~(c[1] = "pop" /\ c[2] = f)
                    BY <1>7, <1>8, <3>3
                <5>3. ~Has(t, "pop", f)'
                    BY <5>2 DEF Has
                <5> QED
                    BY <1>8, <5>1, <5>3
            <4>2. left'[f] = left[f]
                BY <1>3, <3>3
            <4> QED
                BY <1>3, <2>1, <2>2, <4>1, <4>2 DEF ContentsOK
        <3> QED
            BY <3>2, <3>3
    <2> QED
        BY <2>6, <2>7, <2>8
<1>19. PortsOK'
    <2> SUFFICES ASSUME NEW p \in UserPorts \ Cancelled
                 PROVE  PortOK(p)'
        BY DEF PortsOK
    <2>1. PortOK(p) /\ p \in Threads
        BY DEF CInv, PortsOK, Threads
    <2>2. CASE p \notin Elements(r.ports)
        <3>1. p # t /\ fired'[p] = fired[p] /\ pc'[p] = pc[p]
            BY <1>3, <1>13, <2>1, <2>2
        <3>2. ASSUME NEW u \in Main
              PROVE  /\ Has(u, "status", p)' <=> Has(u, "status", p)
                     /\ Has(u, "remove", p)' <=> Has(u, "remove", p)
                     /\ Has(u, "set", p)' <=> Has(u, "set", p)
            <4>1. CASE u # t
                BY <1>8, <4>1, ThreadNames
            <4>2. CASE u = t
                <5>1. ~Has(t, "status", p) /\ ~Has(t, "remove", p) /\ ~Has(t, "set", p)
                    BY <1>9
                <5>2. \A c \in Ops(t)' : ~(c[1] \in {"status", "remove", "set"} /\ c[2] = p)
                    BY <1>7, <1>8, <2>2
                <5>3. ~Has(t, "status", p)' /\ ~Has(t, "remove", p)' /\ ~Has(t, "set", p)'
                    BY <5>2 DEF Has
                <5> QED
                    BY <4>2, <5>1, <5>3
            <4> QED
                BY <4>1, <4>2
        <3> QED
            BY <2>1, <3>1, <3>2, PortStays
    <2>3. CASE p \in Elements(r.ports)
        <3>1. p \in ctx /\ AutomatonOf(p) = a /\ fired'[p] = fired[p] + 1
            BY <1>3, <1>4, <2>3
        <3>2. ~Leaving(p)
            <4> SUFFICES ASSUME NEW u \in Main, NEW kind \in {"status", "remove"}, Has(u, kind, p)
                         PROVE  FALSE
                BY DEF Leaving, Served
            <4>1. PICK c \in Ops(u) : c[1] = kind /\ c[2] = p
                BY DEF Has
            <4>2. Owns(u, c)
                BY ThreadNames DEF CInv, ControlOK, WorkOK
            <4>3. Home(u) = a
                BY <3>1, <4>1, <4>2 DEF Owns
            <4> QED
                BY <1>9, <4>3
        <3>3. pc[p] \notin {"idle", "register", "return"} /\ status[p] = "pending" /\ fired[p] = 0
            BY <2>1, <3>1, <3>2 DEF PortOK
        <3>4. pc'[p] \notin {"idle", "register", "return"} /\ fired'[p] = 1
            BY <1>13, <2>1, <3>1, <3>3
        <3>5. Served(p)'
            <4>1. <<"status", p>> \in Ops(t)'
                BY <1>7, <1>8, <2>3
            <4>2. Has(t, "status", p)'
                BY <4>1 DEF Has
            <4> QED
                BY <4>2 DEF Served, Main
        <3>6. p \notin PutPorts => Setting(p)'
            <4> HAVE p \notin PutPorts
            <4>1. Has(t, "set", p)'
                <5>1. PICK c \in Elements(cs) : c[1] = "set" /\ c[2] = p
                    BY <1>7, <2>3
                <5>2. c \in Ops(t)'
                    BY <1>8
                <5> QED
                    BY <5>1, <5>2 DEF Has
            <4> QED
                BY <4>1 DEF Setting, Main
        <3>7. Leaving(p)'
            BY <3>5 DEF Leaving
        <3> QED
            BY <3>3, <3>4, <3>5, <3>6, <3>7 DEF PortOK
    <2> QED
        BY <2>2, <2>3
<1> QED
    BY <1>10, <1>11, <1>12, <1>14, <1>15, <1>16, <1>17, <1>18, <1>19 DEF CInv, TypesOK, ControlOK

-----------------------------------------------------------------------------
(* A thread goes on without making a call                                  *)

LEMMA LockKept ==
    ASSUME LockOK, NEW t \in Threads, UNCHANGED holder,
           \A u \in Threads \ {t} : pc'[u] = pc[u], Critical(t)' => Critical(t)
    PROVE  LockOK'
BY ThreadNames DEF LockOK, Critical, Main, Home, AutomatonOf

LEMMA LockTaken ==
    ASSUME LockOK, NEW t \in Threads, NEW a \in Automata, holder[a] = Null,
           holder \in [Automata -> Threads \cup {Null}], holder' = [holder EXCEPT ![a] = t],
           \A u \in Threads \ {t} : pc'[u] = pc[u], Critical(t)' => Home(t) = a
    PROVE  LockOK'
<1> SUFFICES ASSUME NEW u \in Main, Critical(u)'
             PROVE  holder'[Home(u)] = u
    BY DEF LockOK, Main, Home, AutomatonOf
<1>1. CASE u = t
    BY <1>1
<1>2. CASE u # t
    <2>1. Critical(u) /\ u # Null
        BY <1>2, ThreadNames DEF Critical
    <2>2. holder[Home(u)] = u
        BY <2>1 DEF LockOK
    <2> QED
        BY <2>1, <2>2
<1> QED
    BY <1>1, <1>2

LEMMA LockFreed ==
    ASSUME LockOK, NEW t \in Main, Critical(t), holder' = [holder EXCEPT ![Home(t)] = Null],
           holder \in [Automata -> Threads \cup {Null}],
           \A u \in Threads \ {t} : pc'[u] = pc[u], ~Critical(t)'
    PROVE  LockOK'
<1> SUFFICES ASSUME NEW u \in Main, Critical(u)'
             PROVE  holder'[Home(u)] = u
    BY DEF LockOK, Main, Home, AutomatonOf
<1>1. u # t
    OBVIOUS
<1>2. Critical(u)
    BY <1>1, ThreadNames DEF Critical
<1>3. holder[Home(u)] = u /\ Home(u) # Home(t)
    BY <1>1, <1>2, Mutex DEF LockOK
<1> QED
    BY <1>3, PortsInAutomata

LEMMA MoveFacts ==
    ASSUME ThreadsOK, ControlOK, NEW t \in Threads, todo[t] = <<>>, UNCHANGED todo,
           NEW l \in LabelsOf(t), pc' = [pc EXCEPT ![t] = l],
           cur' \in [Threads -> Nat], \A u \in Threads \ {t} : cur'[u] = cur[u],
           l \in {"try", "loop_try"} => cur'[t] # 0
    PROVE  /\ ThreadsOK' /\ WorkOK' /\ OrderOK'
           /\ pc'[t] = l /\ \A u \in Threads \ {t} : pc'[u] = pc[u]
           /\ \A u, kind, x : Has(u, kind, x)' <=> Has(u, kind, x)
<1>1. pc' = [u \in Threads |-> pc'[u]] /\ pc'[t] = l /\ \A u \in Threads \ {t} : pc'[u] = pc[u]
    BY DEF ThreadsOK
<1>2. ThreadsOK'
    BY <1>1 DEF ThreadsOK, LabelsOf
<1>3. \A u, kind, x : Has(u, kind, x)' <=> Has(u, kind, x)
    BY DEF Has, Ops
<1>4. WorkOK'
    <2> SUFFICES ASSUME NEW u \in Threads
                 PROVE  /\ u \in Main /\ todo[u] # <<>> => pc'[u] \in {"fired", "loop_fired"}
                        /\ u \notin Main => \A c \in Ops(u) : c[1] = "signal"
                        /\ u \in Main => \A c \in Ops(u) : Owns(u, c)
        BY DEF WorkOK, Owns, Main, Home, Ops
    <2> QED
        BY <1>1 DEF ControlOK, WorkOK
<1>5. OrderOK'
    <2> SUFFICES ASSUME NEW u \in Threads
                 PROVE  InOrder(todo'[u]) /\ (u \in Main => Kicks(todo'[u], Home(u)))
        BY DEF OrderOK, InOrder, Kicks, Main, Home, Party
    <2>1. todo'[u] = todo[u]
        OBVIOUS
    <2> QED
        BY <2>1 DEF ControlOK, OrderOK
<1> QED
    BY <1>1, <1>2, <1>3, <1>4, <1>5

LEMMA Move ==
    ASSUME CInv, NEW t \in Threads, todo[t] = <<>>, UNCHANGED todo,
           NEW l \in LabelsOf(t), pc' = [pc EXCEPT ![t] = l],
           cur' \in [Threads -> Nat], \A u \in Threads \ {t} : cur'[u] = cur[u],
           l \in {"try", "loop_try"} => cur'[t] # 0,
           UNCHANGED <<ctx, data, status, fired, ring, head, tail, fholder, entered, left>>,
           t \in PutPorts /\ pc[t] = "idle" => l = "idle"
    PROVE  FieldsOK' /\ LockOK' /\ (t \in UserPorts \ Cancelled => PortOK(t)') => CInv'
<1>1. /\ ThreadsOK' /\ WorkOK' /\ OrderOK'
      /\ pc'[t] = l /\ \A u \in Threads \ {t} : pc'[u] = pc[u]
      /\ \A u, kind, x : Has(u, kind, x)' <=> Has(u, kind, x)
    BY MoveFacts DEF CInv, TypesOK
<1>2. FifosOK'
    BY DEF CInv, TypesOK, FifosOK
<1>3. RingsOK'
    BY <1>1, RingsStay DEF CInv
<1>4. OffersOK'
    BY <1>1, CPortAssumption DEF CInv, OffersOK, Threads
<1>5. ASSUME NEW p \in UserPorts \ Cancelled, p # t
      PROVE  PortOK(p)'
    <2>1. PortOK(p) /\ p \in Threads
        BY DEF CInv, PortsOK, Threads
    <2> QED
        BY <1>1, <1>5, <2>1, PortStays
<1>6. (t \in UserPorts \ Cancelled => PortOK(t)') => PortsOK'
    BY <1>5 DEF PortsOK
<1> QED
    BY <1>1, <1>2, <1>3, <1>4, <1>6 DEF CInv, TypesOK, ControlOK

\* In the middle of an action its labels make no difference.
LEMMA PortMoves ==
    ASSUME NEW p \in UserPorts, PortOK(p), UNCHANGED <<ctx, data, status, fired, todo>>,
           pc[p] \notin {"idle", "register", "return"},
           pc'[p] \notin {"idle", "register", "return", "fired"}
    PROVE  PortOK(p)'
<1>1. \A u, kind, x : Has(u, kind, x)' <=> Has(u, kind, x)
    BY DEF Has, Ops
<1>2. (Served(p)' <=> Served(p)) /\ (Leaving(p)' <=> Leaving(p)) /\ (Setting(p)' <=> Setting(p))
    BY <1>1 DEF Served, Leaving, Setting, Main
<1> QED
    BY <1>2 DEF PortOK
\* A thread that is not the program's own has a signal to send.
LEMMA BystanderSignals ==
    ASSUME CInv, NEW t \in Threads \ Main, todo[t] = <<>>, NEW x \in Objects,
           todo' = [todo EXCEPT ![t] = <<<<"signal", x>>>>],
           NEW l \in LabelsOf(t), pc'[t] = l, \A u \in Threads \ {t} : pc'[u] = pc[u],
           pc' = [pc EXCEPT ![t] = l], FieldsOK', LockOK',
           UNCHANGED <<fired, data, ring, head, tail, fholder, cur, entered, left>>,
           \A p \in UserPorts \ Cancelled : status'[p] = status[p] /\ (p \in ctx' <=> p \in ctx),
           \A p \in UserPorts : p \in ctx' => p \in ctx,
           \A e \in Ends : e \in ctx' <=> e \in ctx
    PROVE  CInv'
<1>1. todo \in [Threads -> Seq(Calls)]
    BY DEF CInv, TypesOK, ThreadsOK
<1>2. <<<<"signal", x>>>> \in Seq(Calls)
    BY DEF Calls
<1>3. /\ todo' \in [Threads -> Seq(Calls)] /\ todo'[t] = <<<<"signal", x>>>>
      /\ \A u \in Threads \ {t} : todo'[u] = todo[u]
    BY <1>1, <1>2
<1>4. Ops(t) = {} /\ Ops(t)' = {<<"signal", x>>} /\ \A u \in Threads \ {t} : Ops(u)' = Ops(u)
    BY <1>3 DEF Ops, Elements
<1>5. t \notin UserPorts /\ t \notin Active /\ l \in OtherLabels
    BY DEF Main, LabelsOf
<1>6. ThreadsOK'
    BY <1>3, <1>5 DEF CInv, TypesOK, ThreadsOK, LabelsOf, OtherLabels
<1>7. WorkOK'
    <2> SUFFICES ASSUME NEW u \in Threads
                 PROVE  /\ u \in Main /\ todo'[u] # <<>> => pc'[u] \in {"fired", "loop_fired"}
                        /\ u \notin Main => \A c \in Ops(u)' : c[1] = "signal"
                        /\ u \in Main => \A c \in Ops(u)' : Owns(u, c)
        BY DEF WorkOK, Owns, Main, Home
    <2>1. /\ u \in Main /\ todo[u] # <<>> => pc[u] \in {"fired", "loop_fired"}
          /\ u \notin Main => \A c \in Ops(u) : c[1] = "signal"
          /\ u \in Main => \A c \in Ops(u) : Owns(u, c)
        BY DEF CInv, ControlOK, WorkOK
    <2>2. CASE u # t
        BY <1>3, <1>4, <2>1, <2>2
    <2>3. CASE u = t
        BY <1>4, <2>3
    <2> QED
        BY <2>2, <2>3
<1>8. OrderOK'
    <2> SUFFICES ASSUME NEW u \in Threads
                 PROVE  InOrder(todo'[u]) /\ (u \in Main => Kicks(todo'[u], Home(u)))
        BY DEF OrderOK, InOrder, Kicks, Main, Home, Party
    <2>1. InOrder(todo[u]) /\ (u \in Main => Kicks(todo[u], Home(u)))
        BY DEF CInv, ControlOK, OrderOK
    <2>2. InOrder(todo'[t])
        BY <1>3 DEF InOrder
    <2> QED
        BY <1>3, <2>1, <2>2
<1>9. \A u \in Threads : \A kind, y : kind # "signal" => (Has(u, kind, y)' <=> Has(u, kind, y))
    BY <1>4 DEF Has
<1>10. \A u \in Threads : \A y :
        /\ Has(u, "push", y)' <=> Has(u, "push", y)
        /\ Has(u, "pop", y)' <=> Has(u, "pop", y)
        /\ Has(u, "update", y)' <=> Has(u, "update", y)
        /\ Has(u, "update_output", y)' <=> Has(u, "update_output", y)
        /\ Has(u, "status", y)' <=> Has(u, "status", y)
        /\ Has(u, "remove", y)' <=> Has(u, "remove", y)
        /\ Has(u, "set", y)' <=> Has(u, "set", y)
    BY <1>9
<1>11. RingsOK'
    BY <1>10, RingsStay DEF CInv
<1>12. FifosOK'
    BY DEF CInv, TypesOK, FifosOK
<1>13. OffersOK'
    BY <1>5, CPortAssumption DEF CInv, OffersOK, Threads
<1>14. PortsOK'
    <2> SUFFICES ASSUME NEW p \in UserPorts \ Cancelled
                 PROVE  PortOK(p)'
        BY DEF PortsOK
    <2>1. p # t /\ p \in Threads /\ PortOK(p)
        BY <1>5 DEF Threads, CInv, PortsOK
    <2> QED
        BY <1>10, <2>1, PortStays, ThreadNames
<1> QED
    BY <1>6, <1>7, <1>8, <1>11, <1>12, <1>13, <1>14 DEF CInv, TypesOK, ControlOK

LEMMA LoopSteps ==
    ASSUME CInv, NEW a \in Active, LoopStep(a), UNCHANGED userVars
    PROVE  CInv'
<1> USE DEF userVars, autVars, portFields, fifoVars, history, Goto
<1>1. /\ a \in Threads /\ a \in Main /\ a \notin UserPorts /\ a \in Automata /\ Home(a) = a
      /\ LabelsOf(a) = LoopLabels
    BY ThreadNames, AutomatonAssumption DEF Main, Home, LabelsOf
<1>2. /\ holder \in [Automata -> Threads \cup {Null}] /\ cur \in [Threads -> Nat] /\ LockOK
      /\ sem \in [Automata \cup UserPorts -> 0 .. SemMax] /\ SemMax \in Nat
      /\ pc[a] \in LoopLabels /\ (pc[a] = "loop_try" => cur[a] # 0)
      /\ pc = [u \in Threads |-> pc[u]]
    BY <1>1, AutomatonAssumption DEF CInv, TypesOK, FieldsOK, ThreadsOK, ControlOK
<1>3. ASSUME NEW l \in LoopLabels, pc' = [pc EXCEPT ![a] = l], todo[a] = <<>>,
             UNCHANGED <<state, active, ctx, data, status, todo, fired, entered, left,
                         ring, head, tail, fholder, last, result>>,
             holder' \in [Automata -> Threads \cup {Null}],
             sem' \in [Automata \cup UserPorts -> 0 .. SemMax], cur' \in [Threads -> Nat],
             \A u \in Threads \ {a} : cur'[u] = cur[u], l = "loop_try" => cur'[a] # 0, LockOK'
      PROVE  CInv'
    <2>1. FieldsOK'
        BY <1>3 DEF CInv, TypesOK, FieldsOK
    <2>2. a \notin PutPorts /\ l # "try" /\ l \in LabelsOf(a)
        BY <1>1, CPortAssumption DEF LoopLabels
    <2> QED
        BY <1>1, <1>3, <2>1, <2>2, Move
<1>4. CASE LoopStart(a) \/ LoopCheck(a)
    <2>1. PICK l \in {"loop_lock", "loop_wait", "ended"} : pc' = [pc EXCEPT ![a] = l]
        BY <1>4 DEF LoopStart, LoopCheck
    <2>2. todo[a] = <<>> /\ UNCHANGED <<autVars, ctx, sem, portFields, fifoVars, cur, todo, history>>
        BY <1>4 DEF LoopStart, LoopCheck
    <2>3. pc'[a] = l /\ \A u \in Threads \ {a} : pc'[u] = pc[u]
        BY <1>1, <1>2, <2>1
    <2>4. LockOK'
        BY <1>1, <1>2, <2>2, <2>3, LockKept DEF Critical
    <2> QED
        BY <1>2, <1>3, <2>1, <2>2, <2>4 DEF LoopLabels
<1>5. CASE LoopLock(a)
    <2>1. /\ pc' = [pc EXCEPT ![a] = "loop_try"] /\ todo[a] = <<>> /\ holder[a] = Null
          /\ holder' = [holder EXCEPT ![a] = a] /\ sem' = [sem EXCEPT ![a] = 0]
          /\ cur' = [cur EXCEPT ![a] = 1]
          /\ UNCHANGED <<state, active, ctx, portFields, fifoVars, todo, history>>
        BY <1>5 DEF LoopLock
    <2>2. pc'[a] = "loop_try" /\ \A u \in Threads \ {a} : pc'[u] = pc[u]
        BY <1>1, <1>2, <2>1
    <2>3. LockOK'
        BY <1>1, <1>2, <2>1, <2>2, LockTaken
    <2>4. /\ holder' \in [Automata -> Threads \cup {Null}] /\ cur' \in [Threads -> Nat]
          /\ sem' \in [Automata \cup UserPorts -> 0 .. SemMax]
          /\ cur'[a] = 1 /\ \A u \in Threads \ {a} : cur'[u] = cur[u]
        BY <1>1, <1>2, <2>1
    <2> QED
        BY <1>3, <2>1, <2>3, <2>4 DEF LoopLabels
<1>6. CASE LoopTry(a)
    <2> DEFINE r == FromState(a)[cur[a]]
    <2>1. cur[a] <= Len(FromState(a)) /\ UNCHANGED <<autVars, ctx, sem, portFields, fifoVars>>
        BY <1>6 DEF LoopTry
    <2>2. CASE Goto(a, "loop_try", "loop_fired") /\ Fire(a, a, r) /\ UNCHANGED cur
        <3>1. FromState(a) \in Seq(Elements(FromState(a)))
            BY <1>1, AutomatonAssumption DEF FromState, CInv, TypesOK, FieldsOK
        <3>2. cur[a] \in 1 .. Len(FromState(a))
            BY <1>1, <1>2, <2>1, <2>2, <3>1
        <3>3. r \in Elements(FromState(a))
            BY <3>1, <3>2 DEF Elements
        <3>4. /\ pc[a] = "loop_try" /\ todo[a] = <<>> /\ pc' = [pc EXCEPT ![a] = "loop_fired"]
              /\ Critical(a)
            BY <2>2 DEF Critical
        <3>5. /\ "loop_fired" \in LabelsOf(a)
              /\ last' \in [UserPorts -> [States -> Nat]]
              /\ UNCHANGED <<holder, state, active, ctx, sem, data, status, ring, head, tail,
                             fholder, cur, result>>
            BY <1>1, <2>1, <2>2 DEF LoopLabels, CInv, TypesOK, FieldsOK
        <3> HIDE DEF r
        <3> QED
            BY <1>1, <2>2, <3>3, <3>4, <3>5, FireStep
    <2>3. CASE /\ Goto(a, "loop_try", "loop_try") /\ cur' = [cur EXCEPT ![a] = @ + 1]
               /\ UNCHANGED <<todo, history>>
        <3>1. pc'[a] = "loop_try" /\ \A u \in Threads \ {a} : pc'[u] = pc[u]
            BY <1>1, <1>2, <2>3
        <3>2. LockOK'
            BY <1>1, <1>2, <2>1, <2>3, <3>1, LockKept DEF Critical
        <3>3. /\ cur' \in [Threads -> Nat] /\ cur'[a] # 0 /\ \A u \in Threads \ {a} : cur'[u] = cur[u]
            BY <1>1, <1>2, <2>3
        <3>4. /\ holder' \in [Automata -> Threads \cup {Null}]
              /\ sem' \in [Automata \cup UserPorts -> 0 .. SemMax]
            BY <1>2, <2>1
        <3> QED
            BY <1>3, <2>1, <2>3, <3>2, <3>3, <3>4 DEF LoopLabels
    <2> QED
        BY <1>6, <2>2, <2>3 DEF LoopTry
<1>7. CASE LoopSignalSelf(a)
    <2>1. /\ pc[a] = "loop_fired" /\ todo[a] = <<>> /\ pc' = [pc EXCEPT ![a] = "loop_unlock"]
          /\ sem' = [sem EXCEPT ![a] = IF @ < SemMax THEN @ + 1 ELSE @]
          /\ UNCHANGED <<autVars, ctx, portFields, fifoVars, cur, todo, history>>
        BY <1>7 DEF LoopSignalSelf, Post
    <2>2. pc'[a] = "loop_unlock" /\ \A u \in Threads \ {a} : pc'[u] = pc[u]
        BY <1>1, <1>2, <2>1
    <2>3. LockOK'
        BY <1>1, <1>2, <2>1, <2>2, LockKept DEF Critical
    <2>4. sem' \in [Automata \cup UserPorts -> 0 .. SemMax]
        BY <1>1, <1>2, <2>1
    <2>5. holder' \in [Automata -> Threads \cup {Null}] /\ cur' \in [Threads -> Nat]
        BY <1>2, <2>1
    <2> QED
        BY <1>3, <2>1, <2>3, <2>4, <2>5 DEF LoopLabels
<1>8. CASE LoopUnlock(a)
    <2>1. /\ pc[a] \in {"loop_unlock", "loop_try"} /\ todo[a] = <<>>
          /\ pc' = [pc EXCEPT ![a] = "loop_check"]
          /\ holder' = [holder EXCEPT ![a] = Null]
          /\ UNCHANGED <<state, active, ctx, sem, portFields, fifoVars, cur, todo, history>>
        BY <1>8 DEF LoopUnlock
    <2>2. pc'[a] = "loop_check" /\ \A u \in Threads \ {a} : pc'[u] = pc[u]
        BY <1>1, <1>2, <2>1
    <2>3. Critical(a) /\ ~Critical(a)'
        BY <2>1, <2>2 DEF Critical
    <2>4. LockOK'
        BY <1>1, <1>2, <2>1, <2>2, <2>3, LockFreed
    <2>5. /\ holder' \in [Automata -> Threads \cup {Null}] /\ cur' \in [Threads -> Nat]
          /\ sem' \in [Automata \cup UserPorts -> 0 .. SemMax]
        BY <1>2, <2>1
    <2> QED
        BY <1>3, <2>1, <2>4, <2>5 DEF LoopLabels
<1>9. CASE LoopWait(a)
    <2>1. /\ pc[a] = "loop_wait" /\ todo[a] = <<>> /\ pc' = [pc EXCEPT ![a] = "loop_while"]
          /\ sem[a] > 0 /\ sem' = [sem EXCEPT ![a] = @ - 1]
          /\ UNCHANGED <<autVars, ctx, portFields, fifoVars, cur, todo, history>>
        BY <1>9 DEF LoopWait
    <2>2. pc'[a] = "loop_while" /\ \A u \in Threads \ {a} : pc'[u] = pc[u]
        BY <1>1, <1>2, <2>1
    <2>3. LockOK'
        BY <1>1, <1>2, <2>1, <2>2, LockKept DEF Critical
    <2>4. sem' \in [Automata \cup UserPorts -> 0 .. SemMax]
        <3>1. sem[a] - 1 \in 0 .. SemMax
            BY <1>1, <1>2, <2>1
        <3> QED
            BY <1>2, <2>1, <3>1
    <2>5. holder' \in [Automata -> Threads \cup {Null}] /\ cur' \in [Threads -> Nat]
        BY <1>2, <2>1
    <2> QED
        BY <1>3, <2>1, <2>3, <2>4, <2>5 DEF LoopLabels
<1> QED
    BY <1>4, <1>5, <1>6, <1>7, <1>8, <1>9 DEF LoopStep

\* Another thread stops an automaton: it only signals, and waits.
LEMMA StopSteps ==
    ASSUME CInv, NEW a \in Stopped, StopAutomaton(a)
    PROVE  CInv'
<1> USE DEF userVars, autVars, portFields, fifoVars, history, Goto
<1> SUFFICES ASSUME NEW t, t = Stopper(a)
             PROVE  CInv'
    OBVIOUS
<1>1. t \in Threads /\ t \notin Main /\ t \notin UserPorts /\ LabelsOf(t) = OtherLabels
    BY ThreadNames DEF LabelsOf, Main
<1>2. pc = [u \in Threads |-> pc[u]] /\ todo \in [Threads -> Seq(Calls)] /\ LockOK
    BY DEF CInv, TypesOK, ThreadsOK, ControlOK
<1>3. CASE Join(a)
    <2>1. /\ todo[t] = <<>> /\ pc' = [pc EXCEPT ![t] = "joined"]
          /\ UNCHANGED <<autVars, ctx, sem, portFields, fifoVars, cur, todo, history, userVars>>
        BY <1>3 DEF Join, StopAutomaton
    <2>2. pc'[t] = "joined" /\ \A u \in Threads \ {t} : pc'[u] = pc[u]
        BY <1>1, <1>2, <2>1
    <2>3. LockOK'
        BY <1>1, <1>2, <2>1, <2>2, LockKept DEF Critical
    <2>4. FieldsOK'
        BY <2>1 DEF CInv, TypesOK, FieldsOK
    <2>5. cur' \in [Threads -> Nat] /\ \A u \in Threads \ {t} : cur'[u] = cur[u]
        BY <2>1 DEF CInv, TypesOK, ThreadsOK
    <2>6. "joined" \in LabelsOf(t) /\ t \notin PutPorts
        BY <1>1, CPortAssumption DEF OtherLabels
    <2> QED
        BY <1>1, <2>1, <2>3, <2>4, <2>5, <2>6, Move
<1>4. CASE Stop(a)
    <2>1. /\ todo[t] = <<>> /\ pc' = [pc EXCEPT ![t] = "join"]
          /\ active' = [active EXCEPT ![a] = FALSE]
          /\ todo' = [todo EXCEPT ![t] = <<<<"signal", a>>>>]
          /\ UNCHANGED <<holder, state, ctx, sem, portFields, fifoVars, cur, history, userVars>>
        BY <1>4 DEF Stop, StopAutomaton
    <2>2. pc'[t] = "join" /\ \A u \in Threads \ {t} : pc'[u] = pc[u]
        BY <1>1, <1>2, <2>1
    <2>3. LockOK'
        BY <1>1, <1>2, <2>1, <2>2, LockKept DEF Critical
    <2>4. FieldsOK'
        BY <2>1 DEF CInv, TypesOK, FieldsOK
    <2>5. "join" \in LabelsOf(t) /\ a \in Objects
        BY <1>1, AutomatonAssumption DEF OtherLabels, Objects
    <2> QED
        BY <1>1, <1>2, <2>1, <2>2, <2>3, <2>4, <2>5, BystanderSignals
<1> QED
    BY <1>3, <1>4 DEF StopAutomaton

-----------------------------------------------------------------------------
(* The thread of a user port                                               *)

LEMMA PortThread ==
    ASSUME NEW p \in UserPorts
    PROVE  /\ p \in Threads /\ p \in Main /\ LabelsOf(p) = PortLabels
           /\ Home(p) = AutomatonOf(p) /\ AutomatonOf(p) \in Automata
BY PortsInAutomata DEF Threads, Main, LabelsOf, Home

\* Nobody resolves p while its own thread, or nobody, has the automaton.
LEMMA NotLeaving ==
    ASSUME CInv, NEW p \in UserPorts,
           (Critical(p) /\ todo[p] = <<>>) \/ holder[AutomatonOf(p)] = Null
    PROVE  ~Served(p) /\ ~Leaving(p) /\ ~Setting(p)
<1> SUFFICES ASSUME NEW u \in Main, NEW kind \in {"status", "remove", "set"}, Has(u, kind, p)
             PROVE  FALSE
    BY DEF Served, Leaving, Setting
<1>1. PICK c \in Ops(u) : c[1] = kind /\ c[2] = p
    BY DEF Has
<1>2. Owns(u, c) /\ u \in Threads
    BY ThreadNames DEF CInv, ControlOK, WorkOK
<1>3. Home(u) = AutomatonOf(p) /\ Home(p) = AutomatonOf(p)
    BY <1>1, <1>2, PortThread DEF Owns
<1>4. Critical(u)
    BY <1>2, HasSome DEF CInv, ControlOK, WorkOK, Critical
<1>5. CASE Critical(p) /\ todo[p] = <<>>
    BY <1>3, <1>5, PortThread, NobodyElse DEF CInv, TypesOK
<1>6. CASE holder[AutomatonOf(p)] = Null
    BY <1>2, <1>3, <1>4, <1>6, ThreadNames DEF CInv, ControlOK, LockOK
<1> QED
    BY <1>5, <1>6

LEMMA BeginStep ==
    ASSUME CInv, NEW p \in UserPorts, Begin(p)
    PROVE  CInv'
<1> USE DEF autVars, portFields, fifoVars, history, Goto
<1>1. /\ pc[p] = "idle" /\ todo[p] = <<>> /\ pc' = [pc EXCEPT ![p] = "register"]
      /\ status' = [status EXCEPT ![p] = "pending"] /\ fired' = [fired EXCEPT ![p] = 0]
      /\ UNCHANGED <<autVars, ctx, sem, fifoVars, cur, todo, entered, left, last, result>>
    BY DEF Begin
<1>2. PICK d \in Data \cup {Null} : data' = [data EXCEPT ![p] = d] /\ (p \in PutPorts => d # Null)
    <2>1. CASE p \in PutPorts
        <3>1. PICK d \in Puts[p] : data' = [data EXCEPT ![p] = d]
            BY <2>1 DEF Begin
        <3>2. d \in Data /\ d # Null
            BY <2>1, CPortAssumption, AutomatonAssumption
        <3> QED
            BY <3>1, <3>2
    <2>2. CASE p \notin PutPorts
        BY <2>2 DEF Begin
    <2> QED
        BY <2>1, <2>2
<1>3. p \in Threads /\ p \in Main /\ "register" \in LabelsOf(p)
    BY PortThread DEF PortLabels
<1>4. /\ ThreadsOK' /\ WorkOK' /\ OrderOK'
      /\ pc'[p] = "register" /\ \A u \in Threads \ {p} : pc'[u] = pc[u]
      /\ \A u, kind, x : Has(u, kind, x)' <=> Has(u, kind, x)
    BY <1>1, <1>3, MoveFacts DEF CInv, TypesOK, ThreadsOK
<1>5. FieldsOK' /\ FifosOK'
    BY <1>1, <1>2 DEF CInv, TypesOK, FieldsOK, FifosOK
<1>6. LockOK'
    BY <1>1, <1>3, <1>4, LockKept DEF CInv, ControlOK, Critical
<1>7. RingsOK'
    BY <1>1, <1>4, RingsStay DEF CInv
<1>8. /\ data'[p] = d /\ status'[p] = "pending" /\ fired'[p] = 0
      /\ \A q \in UserPorts \ {p} : data'[q] = data[q] /\ status'[q] = status[q] /\ fired'[q] = fired[q]
    BY <1>1, <1>2 DEF CInv, TypesOK, FieldsOK
<1>9. OffersOK'
    BY <1>1, <1>2, <1>4, <1>8, CPortAssumption DEF CInv, OffersOK, Threads
<1>10. PortsOK'
    <2> SUFFICES ASSUME NEW q \in UserPorts \ Cancelled
                 PROVE  PortOK(q)'
        BY DEF PortsOK
    <2>1. PortOK(q) /\ q \in Threads
        BY DEF CInv, PortsOK, Threads
    <2>2. CASE q # p
        BY <1>1, <1>4, <1>8, <2>1, <2>2, PortStays
    <2>3. CASE q = p
        <3>1. /\ (Served(q)' <=> Served(q)) /\ (Leaving(q)' <=> Leaving(q))
              /\ (Setting(q)' <=> Setting(q))
            BY <1>4 DEF Served, Leaving, Setting, Main
        <3>2. ~Served(q) /\ (q \in ctx => Leaving(q))
            BY <1>1, <2>1, <2>3 DEF PortOK
        <3> QED
            BY <1>1, <1>4, <1>8, <2>1, <2>3, <3>1, <3>2 DEF PortOK
    <2> QED
        BY <2>2, <2>3
<1> QED
    BY <1>4, <1>5, <1>6, <1>7, <1>9, <1>10 DEF CInv, TypesOK, ControlOK

LEMMA RegisterStep ==
    ASSUME CInv, NEW p \in UserPorts, Register(p)
    PROVE  CInv'
<1> USE DEF autVars, portFields, fifoVars, history, userVars, Goto
<1>1. /\ pc[p] = "register" /\ todo[p] = <<>> /\ pc' = [pc EXCEPT ![p] = "test"]
      /\ ctx' = ctx \cup {p}
      /\ UNCHANGED <<autVars, sem, portFields, fifoVars, cur, todo, history, userVars>>
    BY DEF Register
<1>2. p \in Threads /\ p \in Main /\ "test" \in LabelsOf(p)
    BY PortThread DEF PortLabels
<1>3. /\ ThreadsOK' /\ WorkOK' /\ OrderOK'
      /\ pc'[p] = "test" /\ \A u \in Threads \ {p} : pc'[u] = pc[u]
      /\ \A u, kind, x : Has(u, kind, x)' <=> Has(u, kind, x)
    BY <1>1, <1>2, MoveFacts DEF CInv, TypesOK, ThreadsOK
<1>4. FieldsOK' /\ FifosOK'
    BY <1>1 DEF CInv, TypesOK, FieldsOK, FifosOK
<1>5. LockOK'
    BY <1>1, <1>2, <1>3, LockKept DEF CInv, ControlOK, Critical
<1>6. RingsOK'
    <2>1. \A x \in Ends : x \in ctx' <=> x \in ctx
        BY <1>1, EndNames
    <2> QED
        BY <1>1, <1>3, <2>1, RingsStay DEF CInv
<1>7. OffersOK'
    BY <1>1, <1>3, CPortAssumption DEF CInv, OffersOK, Threads
<1>8. PortsOK'
    <2> SUFFICES ASSUME NEW q \in UserPorts \ Cancelled
                 PROVE  PortOK(q)'
        BY DEF PortsOK
    <2>1. PortOK(q) /\ q \in Threads
        BY DEF CInv, PortsOK, Threads
    <2>2. CASE q # p
        BY <1>1, <1>3, <2>1, <2>2, PortStays
    <2>3. CASE q = p
        <3>1. /\ (Served(q)' <=> Served(q)) /\ (Leaving(q)' <=> Leaving(q))
              /\ (Setting(q)' <=> Setting(q))
            BY <1>3 DEF Served, Leaving, Setting, Main
        <3>2. status[q] = "pending" /\ fired[q] = 0 /\ ~Served(q)
            BY <1>1, <2>1, <2>3 DEF PortOK
        <3> QED
            BY <1>1, <1>3, <2>1, <2>3, <3>1, <3>2 DEF PortOK
    <2> QED
        BY <2>2, <2>3
<1> QED
    BY <1>3, <1>4, <1>5, <1>6, <1>7, <1>8 DEF CInv, TypesOK, ControlOK

\* An action returns after it has been resolved, or after its timeout.
LEMMA ReturnSteps ==
    ASSUME CInv, NEW p \in UserPorts,
           (Goto(p, "test", "idle") /\ status[p] # "pending") \/ Goto(p, "return", "idle"),
           Return(p),
           UNCHANGED <<autVars, ctx, sem, portFields, fifoVars, cur, todo, history, last>>
    PROVE  CInv'
<1> USE DEF autVars, portFields, fifoVars, history, Goto
<1>1. p \in Threads /\ p \in Main /\ "idle" \in LabelsOf(p) /\ pc' = [pc EXCEPT ![p] = "idle"]
      /\ todo[p] = <<>> /\ pc[p] \in {"test", "return"}
    BY PortThread DEF PortLabels
<1>2. /\ pc'[p] = "idle" /\ \A u \in Threads \ {p} : pc'[u] = pc[u]
      /\ \A u, kind, x : Has(u, kind, x)' <=> Has(u, kind, x)
    BY <1>1, MoveFacts DEF CInv, TypesOK, ThreadsOK
<1>3. LockOK'
    BY <1>1, <1>2, LockKept DEF CInv, ControlOK, Critical
<1>4. FieldsOK'
    BY DEF CInv, TypesOK, FieldsOK, Return
<1>5. p \in UserPorts \ Cancelled => PortOK(p)'
    <2> SUFFICES ASSUME p \in UserPorts \ Cancelled
                 PROVE  PortOK(p)'
        OBVIOUS
    <2>1. PortOK(p)
        BY DEF CInv, PortsOK
    <2>2. /\ (Served(p)' <=> Served(p)) /\ (Leaving(p)' <=> Leaving(p))
          /\ (Setting(p)' <=> Setting(p))
        BY <1>2 DEF Served, Leaving, Setting, Main
    <2>3. ~Served(p) /\ (p \in ctx => Leaving(p))
        BY <2>1 DEF PortOK
    <2> QED
        BY <1>2, <2>1, <2>2, <2>3 DEF PortOK
<1>6. cur' \in [Threads -> Nat]
    BY DEF CInv, TypesOK, ThreadsOK
<1> QED
    BY <1>1, <1>3, <1>4, <1>5, <1>6, Move

\* REOPort_call and REOPort_unregister return when the transition that served
\* the action is known to be complete: p executed it, or has the mutex after it.
LEMMA PortReturns ==
    ASSUME CInv, NEW p \in UserPorts \ Cancelled, todo[p] = <<>>,
           Critical(p) \/ holder[AutomatonOf(p)] = Null, pc[p] # "idle", pc'[p] = "return",
           p \notin ctx \/ pc[p] = "fired" \/ status[p] # "pending",
           UNCHANGED <<ctx, data, status, fired, todo>>
    PROVE  PortOK(p)'
<1>1. \A u, kind, x : Has(u, kind, x)' <=> Has(u, kind, x)
    BY DEF Has, Ops
<1>2. (Served(p)' <=> Served(p)) /\ (Leaving(p)' <=> Leaving(p)) /\ (Setting(p)' <=> Setting(p))
    BY <1>1 DEF Served, Leaving, Setting, Main
<1>3. ~Served(p) /\ ~Leaving(p) /\ ~Setting(p)
    BY NotLeaving
<1>4. PortOK(p)
    BY DEF CInv, PortsOK
<1>5. p \notin ctx
    BY <1>3, <1>4 DEF PortOK
<1> QED
    BY <1>2, <1>3, <1>4, <1>5 DEF PortOK

\* The steps of a port's thread that change nothing but semaphores, its
\* automaton's mutex, and where the thread is.
LEMMA QuietSteps ==
    ASSUME CInv, NEW p \in UserPorts, todo[p] = <<>>,
           NEW l \in PortLabels, pc' = [pc EXCEPT ![p] = l],
           UNCHANGED <<state, active, ctx, data, status, todo, fired, entered, left,
                       ring, head, tail, fholder, last, result>>,
           holder' \in [Automata -> Threads \cup {Null}],
           sem' \in [Automata \cup UserPorts -> 0 .. SemMax], cur' \in [Threads -> Nat],
           \A u \in Threads \ {p} : cur'[u] = cur[u], l = "try" => cur'[p] # 0, LockOK',
           pc[p] # "idle",
           \/ pc[p] \notin {"register", "return"} /\ l \notin {"idle", "register", "return", "fired"}
           \/ /\ l = "return" /\ (Critical(p) \/ holder[AutomatonOf(p)] = Null)
              /\ p \notin ctx \/ pc[p] = "fired" \/ status[p] # "pending"
    PROVE  CInv'
<1>1. p \in Threads /\ l \in LabelsOf(p) /\ l # "loop_try"
    BY PortThread DEF PortLabels
<1>2. pc'[p] = l
    BY <1>1 DEF CInv, TypesOK, ThreadsOK
<1>3. p \in UserPorts \ Cancelled => PortOK(p)'
    <2>1. CASE pc[p] \notin {"register", "return"} /\ l \notin {"idle", "register", "return", "fired"}
        BY <1>2, <2>1, PortMoves DEF CInv, PortsOK
    <2>2. CASE /\ l = "return" /\ (Critical(p) \/ holder[AutomatonOf(p)] = Null)
               /\ p \notin ctx \/ pc[p] = "fired" \/ status[p] # "pending"
        BY <1>2, <2>2, PortReturns
    <2> QED
        BY <2>1, <2>2
<1>4. FieldsOK'
    BY DEF CInv, TypesOK, FieldsOK
<1> QED
    BY <1>1, <1>3, <1>4, Move

\* The thread looks at its status, and sleeps.
LEMMA SleepSteps ==
    ASSUME CInv, NEW p \in UserPorts, UNCHANGED userVars,
           (Goto(p, "test", "lock") /\ UNCHANGED sem) \/ Wait(p) \/ Timeout(p),
           UNCHANGED <<autVars, ctx, portFields, fifoVars, cur, todo, history>>
    PROVE  CInv'
<1> USE DEF userVars, autVars, portFields, fifoVars, history, Goto
<1>1. /\ p \in Threads /\ pc = [u \in Threads |-> pc[u]] /\ cur \in [Threads -> Nat] /\ LockOK
      /\ holder \in [Automata -> Threads \cup {Null}]
      /\ sem \in [Automata \cup UserPorts -> 0 .. SemMax] /\ SemMax \in Nat
    BY PortThread, AutomatonAssumption DEF CInv, TypesOK, FieldsOK, ThreadsOK, ControlOK
<1>2. PICK l \in {"lock", "test", "unregister"} : pc' = [pc EXCEPT ![p] = l]
    BY DEF Wait, Timeout
<1>3. todo[p] = <<>> /\ pc[p] \in {"test", "wait"}
    BY DEF Wait, Timeout
<1>4. pc'[p] = l /\ \A u \in Threads \ {p} : pc'[u] = pc[u]
    BY <1>1, <1>2
<1>5. LockOK'
    BY <1>1, <1>4, LockKept DEF Critical
<1>6. sem' \in [Automata \cup UserPorts -> 0 .. SemMax]
    <2>1. CASE Wait(p)
        <3>1. sem[p] > 0 /\ sem' = [sem EXCEPT ![p] = @ - 1]
            BY <2>1 DEF Wait
        <3>2. sem[p] - 1 \in 0 .. SemMax
            BY <1>1, <3>1
        <3> QED
            BY <1>1, <3>1, <3>2
    <2>2. CASE UNCHANGED sem
        BY <1>1, <2>2
    <2> QED
        BY <2>1, <2>2 DEF Timeout
<1> QED
    BY <1>1, <1>2, <1>3, <1>5, <1>6, QuietSteps DEF PortLabels

\* The mutex of the automaton is taken and released by REOPort_call.
LEMMA CallSteps ==
    ASSUME CInv, NEW p \in UserPorts, CallLock(p) \/ CallContains(p) \/ CallUnlock(p)
    PROVE  CInv'
<1> USE DEF userVars, autVars, portFields, fifoVars, history, Goto
<1> SUFFICES ASSUME NEW a \in Automata, a = AutomatonOf(p)
             PROVE  CInv'
    BY PortThread
<1>1. /\ p \in Threads /\ p \in Main /\ Home(p) = a
      /\ pc = [u \in Threads |-> pc[u]] /\ cur \in [Threads -> Nat] /\ LockOK
      /\ holder \in [Automata -> Threads \cup {Null}]
      /\ sem \in [Automata \cup UserPorts -> 0 .. SemMax] /\ SemMax \in Nat
    BY PortThread, AutomatonAssumption DEF CInv, TypesOK, FieldsOK, ThreadsOK, ControlOK
<1>2. CASE CallLock(p)
    <2>1. /\ pc[p] = "lock" /\ todo[p] = <<>> /\ pc' = [pc EXCEPT ![p] = "contains"]
          /\ holder[a] = Null /\ holder' = [holder EXCEPT ![a] = p]
          /\ UNCHANGED <<state, active, ctx, sem, portFields, fifoVars, cur, todo, history, userVars>>
        BY <1>2 DEF CallLock
    <2>2. pc'[p] = "contains" /\ \A u \in Threads \ {p} : pc'[u] = pc[u]
        BY <1>1, <2>1
    <2>3. LockOK'
        BY <1>1, <2>1, <2>2, LockTaken
    <2>4. /\ holder' \in [Automata -> Threads \cup {Null}]
          /\ sem' \in [Automata \cup UserPorts -> 0 .. SemMax] /\ cur' \in [Threads -> Nat]
          /\ \A u \in Threads \ {p} : cur'[u] = cur[u]
        BY <1>1, <2>1
    <2>5. "contains" \in PortLabels
        BY DEF PortLabels
    <2> QED
        BY <2>1, <2>3, <2>4, <2>5, QuietSteps
<1>3. CASE CallContains(p) /\ p \in ctx
    <2>1. /\ pc[p] = "contains" /\ todo[p] = <<>> /\ pc' = [pc EXCEPT ![p] = "try"]
          /\ sem' = [sem EXCEPT ![p] = 0] /\ cur' = [cur EXCEPT ![p] = 1]
          /\ UNCHANGED <<holder, state, active, ctx, portFields, fifoVars, todo, history, userVars>>
        BY <1>3 DEF CallContains
    <2>2. pc'[p] = "try" /\ \A u \in Threads \ {p} : pc'[u] = pc[u]
        BY <1>1, <2>1
    <2>3. LockOK'
        BY <1>1, <2>1, <2>2, LockKept DEF Critical
    <2>4. /\ holder' \in [Automata -> Threads \cup {Null}]
          /\ sem' \in [Automata \cup UserPorts -> 0 .. SemMax] /\ cur' \in [Threads -> Nat]
          /\ cur'[p] # 0 /\ \A u \in Threads \ {p} : cur'[u] = cur[u]
        BY <1>1, <2>1
    <2>5. "try" \in PortLabels
        BY DEF PortLabels
    <2> QED
        BY <2>1, <2>3, <2>4, <2>5, QuietSteps
<1>4. ASSUME NEW l \in {"wait", "return"}, pc' = [pc EXCEPT ![p] = l], todo[p] = <<>>,
             Critical(p), holder' = [holder EXCEPT ![a] = Null],
             UNCHANGED <<state, active, ctx, sem, portFields, fifoVars, cur, todo, history, userVars>>,
             l = "return" => p \notin ctx \/ pc[p] = "fired"
      PROVE  CInv'
    <2>1. pc'[p] = l /\ \A u \in Threads \ {p} : pc'[u] = pc[u]
        BY <1>1, <1>4
    <2>2. LockOK'
        BY <1>1, <1>4, <2>1, LockFreed DEF Critical
    <2>3. holder' \in [Automata -> Threads \cup {Null}]
        BY <1>1, <1>4
    <2>4. l \in PortLabels /\ l # "try" /\ pc[p] \notin {"idle", "register", "return"}
        BY <1>4 DEF Critical, PortLabels
    <2> QED
        BY <1>1, <1>4, <2>2, <2>3, <2>4, QuietSteps
<1>5. CASE CallContains(p) /\ p \notin ctx
    BY <1>4, <1>5 DEF CallContains, Critical
<1>6. CASE CallUnlock(p)
    BY <1>4, <1>6 DEF CallUnlock, Critical
<1> QED
    BY <1>2, <1>3, <1>5, <1>6

\* One transition is tried: it fires, or the next one is.
LEMMA CallTryStep ==
    ASSUME CInv, NEW p \in UserPorts, CallTry(p)
    PROVE  CInv'
<1> USE DEF userVars, autVars, portFields, fifoVars, history, Goto
<1> SUFFICES ASSUME NEW a \in Automata, a = AutomatonOf(p)
             PROVE  CInv'
    BY PortThread
<1>1. /\ p \in Threads /\ p \in Main /\ Home(p) = a
      /\ pc = [u \in Threads |-> pc[u]] /\ cur \in [Threads -> Nat] /\ LockOK
      /\ holder \in [Automata -> Threads \cup {Null}]
      /\ sem \in [Automata \cup UserPorts -> 0 .. SemMax]
      /\ last \in [UserPorts -> [States -> Nat]] /\ state[a] \in States
      /\ pc[p] = "try" /\ todo[p] = <<>> /\ cur[p] \in Nat \ {0}
    BY PortThread DEF CInv, TypesOK, FieldsOK, ThreadsOK, ControlOK, CallTry
<1> DEFINE s == TransitionsFor(p)
           idx == RoundRobin(p)
<1>2. /\ s \in Seq(Elements(FromState(a))) /\ cur[p] <= Len(s)
      /\ Elements(s) = {r \in Elements(FromState(a)) : p \in Elements(r.ports)}
    BY <1>1, TransitionsForFacts DEF CallTry, CInv, TypesOK
<1>3. Len(s) \in Nat \ {0}
    <2>1. Len(s) \in Nat
        BY ONLY <1>2
    <2> QED
        BY <1>1, <1>2, <2>1
<1>4. idx \in 0 .. Len(s) - 1
    <2>1. last[p][state[a]] + cur[p] \in Nat
        BY <1>1
    <2>2. idx = (last[p][state[a]] + cur[p]) % Len(s)
        BY DEF RoundRobin
    <2> HIDE DEF s, idx
    <2> QED
        BY <1>3, <2>1, <2>2
<1>5. idx + 1 \in 1 .. Len(s) /\ idx \in Nat
    <2> HIDE DEF s, idx
    <2> QED
        BY <1>3, <1>4
<1>6. s[idx + 1] \in Elements(s)
    <2> HIDE DEF s, idx
    <2> QED
        BY <1>2, <1>5 DEF Elements
<1>7. CASE /\ Goto(p, "try", "fired") /\ Fire(p, a, s[idx + 1])
           /\ last' = [last EXCEPT ![p][state[a]] = idx]
           /\ UNCHANGED cur
    <2> SUFFICES ASSUME NEW r \in Elements(FromState(a)), r = s[idx + 1], p \in Elements(r.ports)
                 PROVE  CInv'
        BY <1>2, <1>6
    <2>1. Fire(p, a, r)
        BY <1>7
    <2>2. last' \in [UserPorts -> [States -> Nat]]
        <3>1. idx \in Nat /\ last' = [last EXCEPT ![p][state[a]] = idx]
            BY <1>5, <1>7
        <3> HIDE DEF idx, s
        <3> QED
            BY <1>1, <3>1
    <2>3. /\ UNCHANGED <<holder, state, active, ctx, sem, data, status, ring, head, tail,
                         fholder, cur, result>>
          /\ pc' = [pc EXCEPT ![p] = "fired"]
        BY <1>7 DEF CallTry
    <2>4. Critical(p) /\ "fired" \in LabelsOf(p)
        BY <1>1, PortThread DEF Critical, PortLabels
    <2> HIDE DEF s, idx
    <2> QED
        BY <1>1, <2>1, <2>2, <2>3, <2>4, FireStep
<1>8. CASE /\ Goto(p, "try", "try") /\ cur' = [cur EXCEPT ![p] = @ + 1]
           /\ UNCHANGED <<todo, history, last>>
    <2>1. pc'[p] = "try" /\ \A u \in Threads \ {p} : pc'[u] = pc[u]
        BY <1>1, <1>8
    <2>2. UNCHANGED <<autVars, ctx, sem, portFields, fifoVars, calls, result>>
        BY DEF CallTry
    <2>3. LockOK'
        BY <1>1, <1>8, <2>1, <2>2, LockKept DEF Critical
    <2>4. /\ cur' \in [Threads -> Nat] /\ cur'[p] # 0 /\ \A u \in Threads \ {p} : cur'[u] = cur[u]
        BY <1>1, <1>8
    <2> HIDE DEF s, idx
    <2> QED
        BY <1>1, <1>8, <2>2, <2>3, <2>4, QuietSteps DEF PortLabels
<1> QED
    BY <1>7, <1>8 DEF CallTry
\* REOPort_unregister after a timeout.
LEMMA ExpireStep ==
    ASSUME CInv, NEW p \in UserPorts, Expire(p)
    PROVE  CInv'
<1> USE DEF userVars, autVars, portFields, fifoVars, history, Goto
<1> SUFFICES ASSUME NEW a \in Automata, a = AutomatonOf(p)
             PROVE  CInv'
    BY PortThread
<1>1. /\ p \in Threads /\ p \in Main /\ Home(p) = a /\ "return" \in LabelsOf(p)
      /\ pc = [u \in Threads |-> pc[u]] /\ cur \in [Threads -> Nat] /\ LockOK
      /\ holder \in [Automata -> Threads \cup {Null}]
      /\ sem \in [Automata \cup UserPorts -> 0 .. SemMax]
    BY PortThread DEF CInv, TypesOK, FieldsOK, ThreadsOK, ControlOK, PortLabels
<1>2. /\ pc[p] = "unregister" /\ todo[p] = <<>> /\ pc' = [pc EXCEPT ![p] = "return"]
      /\ holder[a] = Null
      /\ UNCHANGED <<state, active, data, sem, fifoVars, cur, todo, history, userVars>>
    BY DEF Expire, Unregister
<1>3. pc'[p] = "return" /\ \A u \in Threads \ {p} : pc'[u] = pc[u]
    BY <1>1, <1>2
<1>4. CASE status[p] = "success" /\ holder' = [holder EXCEPT ![a] = p] /\ UNCHANGED <<ctx, status>>
    <2>1. LockOK'
        BY <1>1, <1>2, <1>3, <1>4, LockTaken
    <2>2. /\ holder' \in [Automata -> Threads \cup {Null}]
          /\ sem' \in [Automata \cup UserPorts -> 0 .. SemMax] /\ cur' \in [Threads -> Nat]
          /\ \A u \in Threads \ {p} : cur'[u] = cur[u]
        BY <1>1, <1>2, <1>4
    <2>3. "return" \in PortLabels
        BY DEF PortLabels
    <2> QED
        BY <1>2, <1>4, <2>1, <2>2, <2>3, QuietSteps
<1>5. CASE /\ status[p] # "success" /\ UNCHANGED holder
           /\ ctx' = ctx \ {p} /\ status' = [status EXCEPT ![p] = "failed"]
    <2>1. /\ ThreadsOK' /\ WorkOK' /\ OrderOK'
          /\ \A u, kind, x : Has(u, kind, x)' <=> Has(u, kind, x)
        BY <1>1, <1>2, MoveFacts DEF CInv, TypesOK
    <2>2. FieldsOK' /\ FifosOK'
        BY <1>2, <1>5 DEF CInv, TypesOK, FieldsOK, FifosOK
    <2>3. LockOK'
        BY <1>1, <1>2, <1>3, <1>5, LockKept DEF Critical
    <2>4. RingsOK'
        <3>1. \A x \in Ends : x \in ctx' <=> x \in ctx
            BY <1>5, EndNames
        <3> QED
            BY <1>2, <2>1, <3>1, RingsStay DEF CInv
    <2>5. OffersOK'
        BY <1>2, <1>3, <1>5, CPortAssumption DEF CInv, OffersOK, Threads
    <2>6. /\ status'[p] = "failed" /\ p \notin ctx' /\ status[p] \in {"pending", "success", "failed"}
          /\ \A q \in UserPorts \ {p} : status'[q] = status[q] /\ (q \in ctx' <=> q \in ctx)
        BY <1>5 DEF CInv, TypesOK, FieldsOK
    <2>7. PortsOK'
        <3> SUFFICES ASSUME NEW q \in UserPorts \ Cancelled
                     PROVE  PortOK(q)'
            BY DEF PortsOK
        <3>1. PortOK(q) /\ q \in Threads
            BY DEF CInv, PortsOK, Threads
        <3>2. CASE q # p
            BY <1>2, <1>3, <2>1, <2>6, <3>1, <3>2, PortStays
        <3>3. CASE q = p
            <4>1. /\ (Served(q)' <=> Served(q)) /\ (Leaving(q)' <=> Leaving(q))
                  /\ (Setting(q)' <=> Setting(q))
                BY <2>1 DEF Served, Leaving, Setting, Main
            <4>2. ~Served(q) /\ ~Setting(q)
                BY <1>2, <3>3, NotLeaving
            <4>3. fired[q] = 0
                BY <1>2, <1>5, <2>6, <3>1, <3>3, <4>2 DEF PortOK
            <4> QED
                BY <1>2, <1>3, <2>6, <3>3, <4>1, <4>2, <4>3 DEF PortOK
        <3> QED
            BY <3>2, <3>3
    <2> QED
        BY <2>1, <2>2, <2>3, <2>4, <2>5, <2>7 DEF CInv, TypesOK, ControlOK
<1> QED
    BY <1>4, <1>5 DEF Expire, Unregister

\* REOPort_cancel, by another thread.
LEMMA CancelStep ==
    ASSUME CInv, NEW p \in Cancelled, Cancel(p)
    PROVE  CInv'
<1> USE DEF userVars, autVars, portFields, fifoVars, history, Goto
<1> SUFFICES ASSUME NEW t, t = Canceller(p), NEW a \in Automata, a = AutomatonOf(p)
             PROVE  CInv'
    BY PortThread, AutomatonAssumption
<1>1. /\ t \in Threads /\ t \notin Main /\ p \in UserPorts /\ p \in Objects
      /\ "idle" \in LabelsOf(t)
    BY ThreadNames, AutomatonAssumption DEF LabelsOf, Main, Objects, OtherLabels
<1>2. /\ pc = [u \in Threads |-> pc[u]] /\ LockOK /\ holder \in [Automata -> Threads \cup {Null}]
      /\ status \in [UserPorts -> {"pending", "success", "failed"}]
    BY DEF CInv, TypesOK, FieldsOK, ThreadsOK, ControlOK
<1>3. /\ pc[t] = "idle" /\ todo[t] = <<>> /\ pc' = [pc EXCEPT ![t] = "idle"]
      /\ todo' = [todo EXCEPT ![t] = <<<<"signal", p>>>>] /\ holder[a] = Null
      /\ UNCHANGED <<state, active, data, sem, fifoVars, cur, history, userVars>>
      /\ \/ holder' = [holder EXCEPT ![a] = t] /\ UNCHANGED <<ctx, status>>
         \/ /\ ctx' = ctx \ {p} /\ status' = [status EXCEPT ![p] = "failed"] /\ UNCHANGED holder
    BY DEF Cancel, Unregister
<1>4. pc'[t] = "idle" /\ \A u \in Threads \ {t} : pc'[u] = pc[u]
    BY <1>1, <1>2, <1>3
<1>5. LockOK'
    <2>1. CASE holder' = [holder EXCEPT ![a] = t]
        BY <1>1, <1>2, <1>3, <1>4, <2>1, LockTaken DEF Critical
    <2>2. CASE UNCHANGED holder
        BY <1>1, <1>2, <1>4, <2>2, LockKept DEF Critical
    <2> QED
        BY <1>3, <2>1, <2>2
<1>6. FieldsOK'
    BY <1>1, <1>2, <1>3 DEF CInv, TypesOK, FieldsOK
<1>7. /\ \A q \in UserPorts \ Cancelled : status'[q] = status[q] /\ (q \in ctx' <=> q \in ctx)
      /\ \A q \in UserPorts : q \in ctx' => q \in ctx
      /\ \A e \in Ends : e \in ctx' <=> e \in ctx
    BY <1>1, <1>2, <1>3, EndNames
<1> QED
    BY <1>1, <1>3, <1>4, <1>5, <1>6, <1>7, BystanderSignals

-----------------------------------------------------------------------------
(* The invariant                                                           *)

LEMMA FreshRing ==
    ASSUME NEW n \in Nat, n > 1
    PROVE  (0 + 1) % n # 0 /\ (0 + n - 0) % n = 0
OBVIOUS

LEMMA InitiallyTrue == Init => CInv
<1> SUFFICES ASSUME Init
             PROVE  CInv
    OBVIOUS
<1> USE DEF Init
<1>1. /\ \A t \in Threads : todo[t] = <<>> /\ Ops(t) = {}
      /\ \A t \in Threads : \A kind, x : ~Has(t, kind, x)
    BY DEF Has, Ops, Elements
<1>2. /\ \A p \in UserPorts : p \in Threads /\ pc[p] = "idle" /\ p \notin ctx
      /\ \A t \in Threads : pc[t] \in {"idle", "loop_while"} /\ (pc[t] = "loop_while" <=> t \in Active)
    BY ThreadNames, EndNames DEF Threads
<1>3. FieldsOK
    <2>1. SemMax \in Nat \ {0} /\ InitState \in [Automata -> States]
        BY AutomatonAssumption
    <2>2. ctx \subseteq UserPorts \cup Ends
        BY EndNames
    <2> QED
        BY <2>1, <2>2 DEF FieldsOK
<1>4. FifosOK
    BY AutomatonAssumption DEF FifosOK
<1>5. ThreadsOK
    <2>1. \A t \in Threads : pc[t] \in LabelsOf(t)
        BY <1>2, ThreadNames DEF LabelsOf, PortLabels, LoopLabels, OtherLabels
    <2> QED
        BY <1>2, <2>1 DEF ThreadsOK
<1>6. LockOK
    BY <1>2, ThreadNames DEF LockOK, Critical
<1>7. WorkOK
    BY <1>1 DEF WorkOK
<1>8. OrderOK
    <2>1. \A t \in Threads : DOMAIN todo[t] = {}
        OBVIOUS
    <2> QED
        BY <2>1 DEF OrderOK, InOrder, Kicks
<1>9. ASSUME NEW f \in Fifos
      PROVE  RoomOK(f) /\ StockOK(f) /\ ContentsOK(f)
    <2>1. Slots(f) \in Nat /\ Slots(f) > 1
        BY AutomatonAssumption DEF Slots
    <2>2. (0 + 1) % Slots(f) # 0 /\ (0 + Slots(f) - 0) % Slots(f) = 0
        BY ONLY <2>1, FreshRing
    <2>3. ~IsFull(f) /\ IsEmpty(f)
        BY <2>2 DEF IsFull, IsEmpty
    <2>4. Contents(f) = <<>>
        <3>1. (tail[f] + Slots(f) - head[f]) % Slots(f) = 0
            BY <2>1, <2>2
        <3>2. 1 .. 0 = {}
            OBVIOUS
        <3>3. DOMAIN Contents(f) = {}
            BY <3>1, <3>2 DEF Contents
        <3> QED
            BY <3>1, <3>2, <3>3 DEF Contents
    <2>5. InEnd(f) \in ctx /\ OutEnd(f) \notin ctx
        BY EndNames
    <2>6. ContentsOK(f)
        <3>1. entered[f] = <<>> /\ left[f] = <<>>
            OBVIOUS
        <3>2. \A t \in Threads : ~Has(t, "pop", f)
            BY <1>1
        <3> QED
            BY <2>4, <3>1, <3>2 DEF ContentsOK
    <2>7. RoomOK(f)
        BY <1>1, <2>3, <2>5 DEF RoomOK
    <2>8. StockOK(f)
        BY <1>1, <2>3, <2>5 DEF StockOK
    <2> QED
        BY <2>6, <2>7, <2>8
<1>10. OffersOK
    BY <1>2, CPortAssumption DEF OffersOK
<1>11. ASSUME NEW p \in UserPorts
       PROVE  PortOK(p)
    <2>1. ~Served(p) /\ ~Setting(p)
        BY <1>1, ThreadNames DEF Served, Setting
    <2>2. p \notin ctx /\ pc[p] = "idle" /\ fired[p] = 0
        BY <1>2
    <2> QED
        BY ONLY <2>1, <2>2 DEF PortOK
<1> QED
    BY <1>3, <1>4, <1>5, <1>6, <1>7, <1>8, <1>9, <1>10, <1>11
    DEF CInv, TypesOK, ControlOK, RingsOK, PortsOK

LEMMA Stutters == CInv /\ UNCHANGED vars => CInv'
<1> SUFFICES ASSUME CInv, UNCHANGED vars
             PROVE  CInv'
    OBVIOUS
<1>1. /\ UNCHANGED <<holder, state, active, ctx, sem, data, status, ring, head, tail, fholder>>
      /\ UNCHANGED <<pc, cur, todo, fired, entered, left, last, calls, result>>
    BY DEF vars
<1>2. \A u, kind, x : Has(u, kind, x)' <=> Has(u, kind, x)
    BY <1>1 DEF Has, Ops
<1>3. TypesOK'
    BY <1>1 DEF CInv, TypesOK, FieldsOK, FifosOK, ThreadsOK, LabelsOf
<1>4. LockOK'
    BY <1>1 DEF CInv, ControlOK, LockOK, Critical, Main, Home, AutomatonOf
<1>5. WorkOK' /\ OrderOK'
    <2> SUFFICES ASSUME NEW t \in Threads
                 PROVE  /\ t \in Main /\ todo'[t] # <<>> => pc'[t] \in {"fired", "loop_fired"}
                        /\ t \notin Main => \A c \in Elements(todo'[t]) : c[1] = "signal"
                        /\ t \in Main => \A c \in Elements(todo'[t]) : Owns(t, c)
                        /\ InOrder(todo'[t]) /\ (t \in Main => Kicks(todo'[t], Home(t)))
        BY DEF WorkOK, Owns, Main, Home, Ops, OrderOK, InOrder, Kicks, Party
    <2>1. todo'[t] = todo[t] /\ pc'[t] = pc[t]
        BY <1>1
    <2> QED
        BY <2>1 DEF CInv, ControlOK, WorkOK, OrderOK, Ops
<1>6. RingsOK'
    BY <1>1, <1>2, RingsStay DEF CInv
<1>7. OffersOK'
    BY <1>1 DEF CInv, OffersOK
<1>8. PortsOK'
    <2> SUFFICES ASSUME NEW p \in UserPorts \ Cancelled
                 PROVE  PortOK(p)'
        BY DEF PortsOK
    <2> QED
        BY <1>1, <1>2, PortStays DEF CInv, PortsOK
<1> QED
    BY <1>3, <1>4, <1>5, <1>6, <1>7, <1>8 DEF CInv, ControlOK

LEMMA StepPreserves == CInv /\ [Next]_vars => CInv'
<1> SUFFICES ASSUME CInv, [Next]_vars
             PROVE  CInv'
    OBVIOUS
<1>1. ASSUME NEW t \in Threads, RunCalls(t)
      PROVE  CInv'
    BY <1>1, SignalStep, SetDataStep, ResolveStatusStep, RemoveStep, SetStateStep,
       PushStep, PopStep, UpdateInputStep, UpdateOutputStep, UnlockFifoStep
    DEF RunCalls, CallStep
<1>2. ASSUME NEW p \in UserPorts, ActionStep(p)
      PROVE  CInv'
    <2>1. CASE Register(p)
        BY <2>1, RegisterStep
    <2>2. CASE Test(p)
        <3>1. UNCHANGED <<autVars, ctx, portFields, fifoVars, cur, todo, history, sem, last, calls>>
            BY <2>2 DEF Test, autVars, portFields, fifoVars, history
        <3>2. CASE Goto(p, "test", "lock") /\ UNCHANGED result
            BY <3>1, <3>2, SleepSteps DEF userVars, autVars, portFields, fifoVars, history
        <3>3. CASE Goto(p, "test", "idle") /\ status[p] # "pending" /\ Return(p)
            BY <3>1, <3>3, ReturnSteps DEF autVars, portFields, fifoVars, history
        <3> QED
            BY <2>2, <3>2, <3>3 DEF Test
    <2>3. CASE CallLock(p) \/ CallContains(p) \/ CallUnlock(p)
        BY <2>3, CallSteps
    <2>4. CASE CallTry(p)
        BY <2>4, CallTryStep
    <2>5. CASE CallReturn(p)
        BY <2>5, ReturnSteps DEF CallReturn, autVars, portFields, fifoVars, history
    <2>6. CASE Wait(p) \/ Timeout(p)
        BY <2>6, SleepSteps DEF Wait, Timeout, userVars, autVars, portFields, fifoVars, history
    <2>7. CASE Expire(p)
        BY <2>7, ExpireStep
    <2> QED
        BY <1>2, <2>1, <2>2, <2>3, <2>4, <2>5, <2>6, <2>7 DEF ActionStep
<1>3. CASE UNCHANGED vars
    BY <1>3, Stutters
<1> QED
    BY <1>1, <1>2, <1>3, BeginStep, CancelStep, LoopSteps, StopSteps DEF Next, RunLoop

\* The invariant holds in every state of the C runtime: whatever its threads
\* do, the contexts, the fifos and the actions are consistent.
THEOREM CInvariance == Spec => []CInv
<1> QED
    BY InitiallyTrue, StepPreserves, PTL DEF Spec

-----------------------------------------------------------------------------
(* What follows from it                                                    *)

\* Every variable of the C runtime keeps its type, and no action of a port that
\* nobody cancels is served by two transitions.
THEOREM CTyped == Spec => []CTypeOK
<1>1. CInv => CTypeOK
    <2> SUFFICES ASSUME CInv
                 PROVE  CTypeOK
        OBVIOUS
    <2>1. \A f \in Fifos : /\ ring[f] \in [0 .. Capacity[f] -> Data \cup {Null}]
                           /\ head[f] \in 0 .. Capacity[f] /\ tail[f] \in 0 .. Capacity[f]
        BY AutomatonAssumption DEF CInv, TypesOK, FifosOK
    <2>2. \A p \in UserPorts \ Cancelled : fired[p] <= 1
        BY DEF CInv, PortsOK, PortOK
    <2> QED
        BY <2>1, <2>2 DEF CTypeOK, CInv, TypesOK, FieldsOK, FifosOK
<1> QED
    BY <1>1, CInvariance, PTL

\* A fifo drops nothing and its head does not pass its tail (REOFifo_push and
\* REOFifo_pop, called by transitions of two automata under different mutexes).
THEOREM FifosSafe == Spec => []BuffersSafe
<1>1. CInv => BuffersSafe
    <2> SUFFICES ASSUME CInv, NEW t \in Threads, NEW kind \in {"push", "pop"}, NextCall(t, kind)
                 PROVE  /\ kind = "push" => ~IsFull(Arg(t, 2))
                        /\ kind = "pop" => ~IsEmpty(Arg(t, 2))
        BY DEF BuffersSafe
    <2>1. Head(todo[t]) \in Ops(t) /\ Head(todo[t]) \in Calls /\ Head(todo[t])[1] = kind
        BY TailFacts DEF NextCall, Ops, CInv, TypesOK, ThreadsOK
    <2>2. Arg(t, 2) \in Fifos /\ Has(t, kind, Arg(t, 2))
        BY <2>1, CallShape DEF Arg, Has
    <2> QED
        BY <2>2 DEF CInv, RingsOK, RoomOK, StockOK
<1> QED
    BY <1>1, CInvariance, PTL

\* Every fifo delivers what it was given, each datum once and in order.
THEOREM FifosInOrder == Spec => []FifoOrder
<1>1. CInv => FifoOrder
    <2> SUFFICES ASSUME CInv, NEW f \in Fifos
                 PROVE  entered[f] = left[f] \o (IF Popping(f) THEN Tail(Contents(f))
                                                 ELSE Contents(f))
        BY DEF FifoOrder
    <2>1. ASSUME NEW t \in Threads
          PROVE  Has(t, "pop", f) <=> \E m \in DOMAIN todo[t] : todo[t][m] = <<"pop", f>>
        <3>1. \A c \in Calls : c[1] = "pop" /\ c[2] = f <=> c = <<"pop", f>>
            BY DEF Calls
        <3>2. todo[t] \in Seq(Calls)
            BY DEF CInv, TypesOK, ThreadsOK
        <3>3. \A c \in Ops(t) : c \in Calls
            BY <3>2, SequenceElement DEF Ops
        <3>4. Has(t, "pop", f) <=> \E c \in Ops(t) : c = <<"pop", f>>
            BY <3>1, <3>3 DEF Has
        <3> QED
            BY <3>4 DEF Ops, Elements
    <2>2. Popping(f) <=> \E t \in Threads : Has(t, "pop", f)
        BY <2>1 DEF Popping
    <2> QED
        BY <2>2 DEF CInv, RingsOK, ContentsOK
<1> QED
    BY <1>1, CInvariance, PTL

\* The contexts of the two automata of a fifo agree with what it holds, except
\* while a thread is changing it (REOFifo_update_contexts).
THEOREM ContextsTrue == Spec => []ContextTrue
<1>1. CInv => ContextTrue
    <2> SUFFICES ASSUME CInv, NEW f \in Fifos, ~Changing(f)
                 PROVE  /\ InEnd(f) \in ctx <=> ~IsFull(f)
                        /\ OutEnd(f) \in ctx <=> ~IsEmpty(f)
        BY DEF ContextTrue
    <2>1. \A t \in Threads : ~Has(t, "update", f) /\ ~Has(t, "update_output", f)
        BY DEF Changing, Has, Ops, Elements
    <2> QED
        BY <2>1 DEF CInv, RingsOK, RoomOK, StockOK
<1> QED
    BY <1>1, CInvariance, PTL

\* Only two steps end an action, and both return its status.
LEMMA ActionEnds ==
    ASSUME CInv, NEW p \in UserPorts, [Next]_vars, pc[p] # "idle", pc'[p] = "idle"
    PROVE  /\ result'[p] = status[p]
           /\ (pc[p] = "test" /\ status[p] # "pending") \/ pc[p] = "return"
<1>1. /\ p \in Threads /\ p \notin Active /\ \A q \in Cancelled : Canceller(q) # p
      /\ \A a \in Stopped : Stopper(a) # p
    BY ThreadNames DEF Threads, Main
<1>2. pc = [u \in Threads |-> pc[u]] /\ result \in [UserPorts -> {"pending", "success", "failed"}]
    BY DEF CInv, TypesOK, ThreadsOK, FieldsOK
<1>3. ASSUME NEW t \in Threads \ {p}, NEW l, pc' = [pc EXCEPT ![t] = l]
      PROVE  FALSE
    BY <1>2, <1>3
<1>4. ASSUME NEW l, l # "idle", pc' = [pc EXCEPT ![p] = l]
      PROVE  FALSE
    BY <1>1, <1>2, <1>4
<1>5. pc' # pc
    OBVIOUS
<1>6. ~(\E t \in Threads : RunCalls(t)) /\ ~UNCHANGED vars
    BY <1>5 DEF RunCalls, CallStep, Signal, SetData, ResolveStatus, RemoveFromContext, SetState,
                Push, Pop, UpdateInput, UpdateOutput, UnlockFifo, vars
<1>7. ~(\E a \in Active : RunLoop(a))
    <2> SUFFICES ASSUME NEW a \in Active, LoopStep(a)
                 PROVE  FALSE
        BY DEF RunLoop
    <2>1. \E l : pc' = [pc EXCEPT ![a] = l]
        BY DEF LoopStep, LoopStart, LoopLock, LoopTry, LoopSignalSelf, LoopUnlock, LoopCheck,
               LoopWait, Goto
    <2> QED
        BY <1>1, <1>3, <2>1 DEF Threads
<1>8. ~(\E a \in Stopped : StopAutomaton(a)) /\ ~(\E q \in Cancelled : Cancel(q))
    <2>1. ASSUME NEW a \in Stopped, StopAutomaton(a)
          PROVE  FALSE
        BY <1>1, <1>3, <2>1, ThreadNames DEF StopAutomaton, Stop, Join, Goto
    <2>2. ASSUME NEW q \in Cancelled, Cancel(q)
          PROVE  FALSE
        BY <1>1, <1>3, <2>2, ThreadNames DEF Cancel, Goto
    <2> QED
        BY <2>1, <2>2
<1>9. PICK q \in UserPorts : Begin(q) \/ ActionStep(q)
    BY <1>6, <1>7, <1>8 DEF Next
<1>10. \E l : pc' = [pc EXCEPT ![q] = l]
    BY <1>9 DEF Begin, ActionStep, Register, Test, CallLock, CallContains, CallTry, CallUnlock,
                CallReturn, Wait, Timeout, Expire, Goto
<1>11. q = p
    BY <1>3, <1>10, PortThread
<1>12. ~(Begin(p) \/ Register(p) \/ CallLock(p) \/ CallContains(p) \/ CallUnlock(p))
    BY <1>4 DEF Begin, Register, CallLock, CallContains, CallUnlock, Goto
<1>13. ~(CallTry(p) \/ Wait(p) \/ Timeout(p) \/ Expire(p))
    BY <1>4 DEF CallTry, Wait, Timeout, Expire, Goto
<1>14. Test(p) \/ CallReturn(p)
    BY <1>9, <1>11, <1>12, <1>13 DEF ActionStep
<1>15. CASE Test(p)
    <2>1. status[p] # "pending" /\ pc[p] = "test" /\ Return(p)
        BY <1>4, <1>15 DEF Test, Goto
    <2> QED
        BY <1>2, <2>1 DEF Return
<1>16. CASE CallReturn(p)
    BY <1>2, <1>16 DEF CallReturn, Return, Goto
<1> QED
    BY <1>14, <1>15, <1>16

\* A put or get of a port that nobody cancels returns success if and only if
\* one transition has fired with it, and then a get has its datum, also when its
\* timeout races with the transition (REOPort_call, REOPort_unregister).
THEOREM OutcomesTrue == Spec => OutcomeTrue
<1>1. CInv /\ [Next]_vars =>
        [\A p \in UserPorts \ Cancelled : pc[p] # "idle" /\ pc'[p] = "idle" =>
            /\ result'[p] = "success" <=> fired[p] = 1
            /\ result'[p] = "success" => data[p] # Null]_vars
    <2> SUFFICES ASSUME CInv, [Next]_vars, NEW p \in UserPorts \ Cancelled,
                        pc[p] # "idle", pc'[p] = "idle"
                 PROVE  /\ result'[p] = "success" <=> fired[p] = 1
                        /\ result'[p] = "success" => data[p] # Null
        OBVIOUS
    <2>1. /\ result'[p] = status[p]
          /\ (pc[p] = "test" /\ status[p] # "pending") \/ pc[p] = "return"
        BY ActionEnds
    <2>2. PortOK(p) /\ status[p] \in {"pending", "success", "failed"}
        BY DEF CInv, PortsOK, TypesOK, FieldsOK
    <2>3. status[p] = "success" <=> fired[p] = 1
        BY <2>1, <2>2 DEF PortOK
    <2>4. status[p] = "success" => data[p] # Null
        <3>1. CASE p \in PutPorts
            BY <3>1 DEF CInv, OffersOK
        <3>2. CASE p \notin PutPorts
            BY <2>2, <2>3, <3>2 DEF PortOK
        <3> QED
            BY <3>1, <3>2
    <2> QED
        BY <2>1, <2>3, <2>4
<1> QED
    BY <1>1, CInvariance, PTL DEF Spec, OutcomeTrue

-----------------------------------------------------------------------------
(* No wakeup is lost                                                       *)

\* The transitions that t has tried since it drained its semaphore.
Passed(t, r) ==
    \/ pc[t] = "try" /\ \E n \in 1 .. cur[t] - 1 :
        TransitionsFor(t)[((last[t][state[AutomatonOf(t)]] + n) % Len(TransitionsFor(t))) + 1] = r
    \/ pc[t] = "loop_try" /\ \E n \in 1 .. cur[t] - 1 : FromState(t)[n] = r

\* Without another signal t will go to sleep, or stay asleep, without r; q is
\* about to try r.
Settled(t, r) ==
    /\ sem[t] = 0
    /\ pc[t] \in {"wait", "loop_wait", "loop_check", "loop_unlock"} \/ Passed(t, r)
WillTry(q, r) ==
    /\ status[q] = "pending"
    /\ \/ pc[q] \in {"test", "lock", "contains"}
       \/ pc[q] = "wait" /\ sem[q] > 0
       \/ pc[q] = "try" /\ ~Passed(q, r)

\* If a transition can fire, those who could have fired it and are settled
\* are signalled, or one of its ports is about to try it.
Ports(r) == Elements(r.ports) \cap UserPorts
AwakeFor(a, r) == Ready(r) => \A t \in Ports(r) \cup ({a} \cap Active) :
    Settled(t, r) => Signalled(t) \/ \E q \in Ports(r) : WillTry(q, r)
WakeOK(a) == \A r \in Elements(FromState(a)) : AwakeFor(a, r)
AllAwake == \A a \in Automata : WakeOK(a)

\* An action that may be cancelled shares no transition with another port, nor
\* with an automaton that runs.
LoneCancels == \A a \in Automata : \A s \in States : \A r \in Elements(Transitions[a][s]) :
    \A p \in Cancelled \cap Elements(r.ports) : Ports(r) \cup ({a} \cap Active) = {p}

\* The threads that may fire the transitions of an automaton.
Crew(a) == (Party(a) \cap UserPorts) \cup ({a} \cap Active)

LEMMA CrewFacts ==
    ASSUME FieldsOK, NEW a \in Automata
    PROVE  /\ \A t \in Crew(a) : t \in Main /\ t \in Threads /\ Home(t) = a /\ t \in Party(a)
           /\ \A r \in Elements(FromState(a)) :
                /\ Ports(r) \subseteq Crew(a) /\ Ports(r) \cup ({a} \cap Active) \subseteq Crew(a)
                /\ \A p \in Ports(r) : p \in UserPorts /\ AutomatonOf(p) = a
           /\ \A p \in UserPorts : p \in Crew(a) => AutomatonOf(p) = a
           /\ FromState(a) \in Seq(Elements(FromState(a))) /\ state[a] \in States
<1>1. state[a] \in States
    BY DEF FieldsOK
<1>2. /\ FromState(a) \in Seq(Elements(FromState(a)))
      /\ \A r \in Elements(FromState(a)) : IsTransition(a, r)
    BY <1>1, AutomatonAssumption DEF FromState
<1>3. \A t \in Crew(a) : t \in Main /\ t \in Threads /\ Home(t) = a /\ t \in Party(a)
    <2> SUFFICES ASSUME NEW t \in Crew(a)
                 PROVE  t \in Main /\ t \in Threads /\ Home(t) = a /\ t \in Party(a)
        OBVIOUS
    <2>1. CASE t \in UserPorts
        BY <2>1, EndNames, PortsInAutomata, PortThread DEF Crew, Party
    <2>2. CASE t \notin UserPorts
        BY <2>2, ThreadNames DEF Crew, Party, Main, Home
    <2> QED
        BY <2>1, <2>2
<1>4. ASSUME NEW r \in Elements(FromState(a))
      PROVE  /\ Ports(r) \subseteq Crew(a) /\ Ports(r) \cup ({a} \cap Active) \subseteq Crew(a)
             /\ \A p \in Ports(r) : p \in UserPorts /\ AutomatonOf(p) = a
    <2>1. r.ports \in Seq(Elements(PortList[a]))
        BY <1>2 DEF IsTransition
    <2>2. \A x \in Elements(r.ports) : x \in Elements(PortList[a])
        BY <2>1, SequenceElement
    <2> QED
        BY <2>2, PortsInAutomata DEF Ports, Crew, Party
<1>5. \A p \in UserPorts : p \in Crew(a) => AutomatonOf(p) = a
    BY <1>3 DEF Home
<1> QED
    BY <1>1, <1>2, <1>3, <1>4, <1>5

\* transitions_for depends on the current state only.
Chosen(p, s) == LET filled == CHOOSE f : Filled(p, s, f, Len(s)) IN filled[Len(s)]

LEMMA ChosenIs == \A p : TransitionsFor(p) = Chosen(p, FromState(AutomatonOf(p)))
BY DEF TransitionsFor, Filled, Chosen

LEMMA ChoiceStays ==
    ASSUME NEW p, state'[AutomatonOf(p)] = state[AutomatonOf(p)]
    PROVE  TransitionsFor(p)' = TransitionsFor(p)
<1>1. TransitionsFor(p) = Chosen(p, Transitions[AutomatonOf(p)][state[AutomatonOf(p)]])
    BY ChosenIs DEF FromState
<1>2. TransitionsFor(p)' = Chosen(p, Transitions[AutomatonOf(p)'][state'[AutomatonOf(p)']])
    BY DEF TransitionsFor, Filled, Chosen, FromState
<1> QED
    BY <1>1, <1>2 DEF AutomatonOf

\* What a port has passed, before and after a step in the same state.
LEMMA PassedNow ==
    ASSUME NEW p \in UserPorts, NEW r, pc[p] # "loop_try",
           NEW n, n = Len(TransitionsFor(p)), NEW l, l = last[p][state[AutomatonOf(p)]]
    PROVE  Passed(p, r) <=> /\ pc[p] = "try"
                            /\ \E m \in 1 .. cur[p] - 1 : TransitionsFor(p)[((l + m) % n) + 1] = r
BY DEF Passed

LEMMA PassedNext ==
    ASSUME NEW p \in UserPorts, NEW r, pc'[p] # "loop_try", last'[p] = last[p],
           state'[AutomatonOf(p)] = state[AutomatonOf(p)],
           NEW n, n = Len(TransitionsFor(p)), NEW l, l = last[p][state[AutomatonOf(p)]]
    PROVE  Passed(p, r)' <=> /\ pc'[p] = "try"
                             /\ \E m \in 1 .. cur'[p] - 1 : TransitionsFor(p)[((l + m) % n) + 1] = r
<1>1. TransitionsFor(p)' = TransitionsFor(p)
    BY ChoiceStays
<1>2. last'[p][state'[AutomatonOf(p)]] = l
    OBVIOUS
<1>3. Passed(p, r)' <=> /\ pc'[p] = "try"
                        /\ \E m \in 1 .. cur'[p] - 1 :
                            TransitionsFor(p)'[((last'[p][state'[AutomatonOf(p)]] + m)
                                                % Len(TransitionsFor(p)')) + 1] = r
    BY DEF Passed, AutomatonOf
<1> QED
    BY <1>1, <1>2, <1>3

LEMMA PassedStays ==
    ASSUME ThreadsOK, FieldsOK, NEW a \in Automata, NEW u \in Crew(a), NEW r,
           state'[a] = state[a], pc'[u] = pc[u], cur'[u] = cur[u],
           u \in UserPorts => last'[u] = last[u]
    PROVE  Passed(u, r)' <=> Passed(u, r)
<1>1. CASE u \in UserPorts
    <2>1. AutomatonOf(u) = a
        BY <1>1, CrewFacts
    <2>2. pc[u] # "loop_try"
        BY <1>1, PortThread DEF ThreadsOK, PortLabels
    <2> SUFFICES ASSUME NEW n, n = Len(TransitionsFor(u)), NEW l, l = last[u][state[AutomatonOf(u)]]
                 PROVE  Passed(u, r)' <=> Passed(u, r)
        OBVIOUS
    <2>3. state'[AutomatonOf(u)] = state[AutomatonOf(u)] /\ pc'[u] # "loop_try" /\ last'[u] = last[u]
        BY <1>1, <2>1, <2>2
    <2>4. Passed(u, r) <=> /\ pc[u] = "try"
                           /\ \E m \in 1 .. cur[u] - 1 : TransitionsFor(u)[((l + m) % n) + 1] = r
        BY <1>1, <2>2, PassedNow
    <2>6. Passed(u, r)' <=> /\ pc'[u] = "try"
                            /\ \E m \in 1 .. cur'[u] - 1 : TransitionsFor(u)[((l + m) % n) + 1] = r
        BY <1>1, <2>3, PassedNext
    <2>5. pc'[u] = pc[u] /\ cur'[u] = cur[u]
        OBVIOUS
    <2> QED
        BY <2>4, <2>5, <2>6
<1>2. CASE u \notin UserPorts
    <2>1. u = a /\ u \in Active /\ FromState(u)' = FromState(u)
        BY <1>2 DEF Crew, FromState
    <2>2. pc[u] # "try"
        BY <1>2, <2>1, ThreadNames DEF ThreadsOK, LabelsOf, LoopLabels, Main
    <2> QED
        BY <2>1, <2>2 DEF Passed
<1> QED
    BY <1>1, <1>2

\* What is not touched stays awake.
LEMMA WakeStays ==
    ASSUME FieldsOK, ThreadsOK, NEW a \in Automata, WakeOK(a), state'[a] = state[a],
           sem' \in [Automata \cup UserPorts -> 0 .. SemMax],
           \A r \in Elements(FromState(a)) : Ready(r)' => Ready(r),
           \A t \in Crew(a) : /\ pc'[t] = pc[t] /\ cur'[t] = cur[t] /\ sem'[t] >= sem[t]
                              /\ Signalled(t) => Signalled(t)' \/ sem'[t] > 0,
           \A p \in Crew(a) \cap UserPorts : last'[p] = last[p] /\ status'[p] = status[p]
    PROVE  WakeOK(a)'
<1>1. FromState(a)' = FromState(a)
    BY DEF FromState
<1> SUFFICES ASSUME NEW r \in Elements(FromState(a)), Ready(r)',
                    NEW t \in Ports(r) \cup ({a} \cap Active), Settled(t, r)'
             PROVE  Signalled(t)' \/ \E q \in Ports(r) : WillTry(q, r)'
    BY <1>1 DEF WakeOK, AwakeFor, Ports
<1>2. t \in Crew(a) /\ Ports(r) \subseteq Crew(a) /\ \A p \in Ports(r) : AutomatonOf(p) = a
    BY CrewFacts
<1>3. SemMax \in Nat /\ \A u \in Crew(a) : sem[u] \in Nat /\ sem'[u] \in Nat
    BY AutomatonAssumption DEF FieldsOK, Crew
<1>4. ASSUME NEW u \in Crew(a)
      PROVE  Passed(u, r)' <=> Passed(u, r)
    <2>1. pc'[u] = pc[u] /\ cur'[u] = cur[u] /\ (u \in UserPorts => last'[u] = last[u])
        OBVIOUS
    <2> QED
        BY <2>1, PassedStays
<1>5. Settled(t, r)
    BY <1>2, <1>3, <1>4 DEF Settled
<1>6. Signalled(t) \/ \E q \in Ports(r) : WillTry(q, r)
    BY <1>5 DEF WakeOK, AwakeFor
<1>7. Signalled(t) => Signalled(t)'
    BY <1>2, <1>3 DEF Settled
<1>8. ASSUME NEW q \in Ports(r), WillTry(q, r)
      PROVE  WillTry(q, r)'
    BY <1>2, <1>3, <1>4, <1>8 DEF WillTry, Ports
<1> QED
    BY <1>6, <1>7, <1>8

LEMMA ReadyStays ==
    ASSUME FieldsOK, NEW a \in Automata, \A x \in Elements(PortList[a]) : x \in ctx' => x \in ctx
    PROVE  \A r \in Elements(FromState(a)) : Ready(r)' => Ready(r)
<1> SUFFICES ASSUME NEW r \in Elements(FromState(a)), Ready(r)'
             PROVE  Ready(r)
    OBVIOUS
<1>1. r.ports \in Seq(Elements(PortList[a]))
    BY AutomatonAssumption DEF FieldsOK, FromState, IsTransition
<1>2. \A x \in Elements(r.ports) : x \in Elements(PortList[a])
    BY <1>1, SequenceElement
<1> QED
    BY <1>2 DEF Ready

\* Who is signalled is awake.
LEMMA WakeSignalled ==
    ASSUME FieldsOK', NEW a \in Automata, \A x \in Crew(a) : Signalled(x)'
    PROVE  WakeOK(a)'
<1>1. state'[a] \in States
    BY DEF FieldsOK
<1> SUFFICES ASSUME NEW r \in Elements(Transitions[a][state'[a]]),
                    NEW t \in Ports(r) \cup ({a} \cap Active)
             PROVE  t \in Crew(a)
    BY DEF WakeOK, AwakeFor, FromState, Ports
<1>2. r.ports \in Seq(Elements(PortList[a]))
    BY <1>1, AutomatonAssumption DEF IsTransition
<1>3. \A x \in Elements(r.ports) : x \in Elements(PortList[a])
    BY <1>2, SequenceElement
<1> QED
    BY <1>3 DEF Ports, Crew, Party

LEMMA SignalsStay ==
    ASSUME ThreadsOK, NEW u \in Threads, todo[u] # <<>>, NEW cs \in Seq(Calls), Then(u, cs), NEW x
    PROVE  /\ Head(todo[u]) # <<"signal", x>> => (Signalled(x) => Signalled(x)')
           /\ <<"signal", x>> \in Elements(cs) => Signalled(x)'
<1>1. /\ \A v \in Threads : v # u => todo'[v] = todo[v] /\ Ops(v)' = Ops(v)
      /\ Ops(u)' = Elements(cs) \cup Elements(Tail(todo[u]))
      /\ Ops(u) = {Head(todo[u])} \cup Elements(Tail(todo[u]))
    BY ThenFacts
<1>2. Signalled(x) <=> \E v \in Threads : <<"signal", x>> \in Ops(v)
    BY DEF Signalled, Ops
<1>3. Signalled(x)' <=> \E v \in Threads : <<"signal", x>> \in Ops(v)'
    BY DEF Signalled, Ops, Threads
<1> QED
    BY <1>1, <1>2, <1>3

\* After a call of a transition its automaton is kicked.
LEMMA KickFollows ==
    ASSUME CInv, NEW u \in Threads, todo[u] # <<>>, NEW cs \in Seq(Calls), Then(u, cs),
           Head(todo[u])[1] \in {"set", "push", "status", "remove", "pop", "state"}
    PROVE  u \in Main /\ Home(u) \in Automata /\ \A x \in Party(Home(u)) : Signalled(x)'
<1>1. todo[u] \in Seq(Calls)
    BY DEF CInv, TypesOK, ThreadsOK
<1>2. /\ Head(todo[u]) = todo[u][1] /\ 1 \in DOMAIN todo[u] /\ Head(todo[u]) \in Ops(u)
      /\ \A m \in DOMAIN todo[u] : m # 1 => m - 1 \in DOMAIN Tail(todo[u])
                                            /\ Tail(todo[u])[m - 1] = todo[u][m]
    BY <1>1, TailFacts DEF Ops
<1>3. u \in Main
    BY <1>2 DEF CInv, ControlOK, WorkOK
<1>4. ASSUME NEW x \in Party(Home(u))
      PROVE  Signalled(x)'
    <2>4. Kicks(todo[u], Home(u))
        BY <1>3 DEF CInv, ControlOK, OrderOK
    <2>5. todo[u][1][1] \in {"set", "push", "status", "remove", "pop", "state"}
        BY <1>2
    <2>6. ASSUME NEW s, NEW h, Kicks(s, h), 1 \in DOMAIN s, x \in Party(h),
                 s[1][1] \in {"set", "push", "status", "remove", "pop", "state"}
          PROVE  \E n \in DOMAIN s : 1 < n /\ s[n] = <<"signal", x>>
        BY <2>6 DEF Kicks
    <2>1. PICK n : n \in DOMAIN todo[u] /\ 1 < n /\ todo[u][n] = <<"signal", x>>
        BY <1>2, <1>4, <2>4, <2>5, <2>6, Zenon
    <2>7. n \in Nat
        <3>1. DOMAIN todo[u] = 1 .. Len(todo[u]) /\ Len(todo[u]) \in Nat
            BY <1>1
        <3> QED
            BY <2>1, <3>1
    <2>8. n - 1 \in DOMAIN Tail(todo[u]) /\ Tail(todo[u])[n - 1] = <<"signal", x>>
        <3>1. n # 1
            BY <2>1, <2>7
        <3>2. \A m \in DOMAIN todo[u] : m # 1 => m - 1 \in DOMAIN Tail(todo[u])
                                            /\ Tail(todo[u])[m - 1] = todo[u][m]
            BY <1>2
        <3> QED
            BY <2>1, <3>1, <3>2
    <2>2. <<"signal", x>> \in Elements(Tail(todo[u]))
        BY <2>8 DEF Elements
    <2>3. <<"signal", x>> \in Ops(u)'
        BY <2>2, ThenFacts DEF CInv, TypesOK
    <2> QED
        BY <2>3 DEF Signalled, Ops, Threads
<1> QED
    BY <1>3, <1>4, PortsInAutomata

\* A call that signals whom it makes able to fire.
LEMMA CallWakes ==
    ASSUME CInv, AllAwake, FieldsOK', NEW u \in Threads, todo[u] # <<>>,
           NEW cs \in Seq(Calls), Then(u, cs), UNCHANGED <<pc, cur, last, sem>>,
           Head(todo[u])[1] # "signal", NEW a \in Automata,
           \A b \in Automata \ {a} : state'[b] = state[b],
           \A x \in UserPorts \cup Ends : AutomatonOf(x) # a => (x \in ctx' => x \in ctx),
           \A p \in UserPorts : AutomatonOf(p) # a => status'[p] = status[p],
           \/ \A x \in Party(a) : Signalled(x)'
           \/ state'[a] = state[a] /\ ctx' \subseteq ctx /\ UNCHANGED status
    PROVE  AllAwake'
<1>1. FieldsOK /\ ThreadsOK /\ sem' \in [Automata \cup UserPorts -> 0 .. SemMax]
    BY DEF CInv, TypesOK, FieldsOK
<1>2. ASSUME NEW x
      PROVE  Signalled(x) => Signalled(x)'
    <2>1. Head(todo[u]) # <<"signal", x>>
        OBVIOUS
    <2> QED
        BY <1>1, <2>1, SignalsStay
<1>3. ASSUME NEW b \in Automata, state'[b] = state[b],
             \A x \in Elements(PortList[b]) : x \in ctx' => x \in ctx,
             \A p \in Crew(b) \cap UserPorts : status'[p] = status[p]
      PROVE  WakeOK(b)'
    <2>1. \A r \in Elements(FromState(b)) : Ready(r)' => Ready(r)
        BY <1>1, <1>3, ReadyStays
    <2>2. WakeOK(b)
        BY DEF AllAwake
    <2>3. \A t \in Crew(b) : /\ pc'[t] = pc[t] /\ cur'[t] = cur[t] /\ sem'[t] >= sem[t]
                             /\ Signalled(t) => Signalled(t)' \/ sem'[t] > 0
        <3> SUFFICES ASSUME NEW t \in Crew(b)
                     PROVE  sem'[t] >= sem[t]
            BY <1>2
        <3>1. sem[t] \in Nat
            BY <1>1, AutomatonAssumption DEF FieldsOK, Crew
        <3> QED
            BY <3>1
    <2> QED
        BY <1>1, <1>3, <2>1, <2>2, <2>3, WakeStays
<1>4. ASSUME NEW b \in Automata
      PROVE  WakeOK(b)'
    <2>1. CASE b # a
        <3>1. \A x \in Elements(PortList[b]) : x \in UserPorts \cup Ends /\ AutomatonOf(x) = b
            BY PortsInAutomata
        <3>2. \A p \in Crew(b) \cap UserPorts : AutomatonOf(p) = b
            BY <1>1, CrewFacts
        <3> QED
            BY <1>3, <2>1, <3>1, <3>2
    <2>2. CASE b = a /\ \A x \in Party(a) : Signalled(x)'
        <3>1. \A x \in Crew(a) : Signalled(x)'
            BY <1>1, <2>2, CrewFacts
        <3> QED
            BY <2>2, <3>1, WakeSignalled
    <2>3. CASE b = a /\ state'[a] = state[a] /\ ctx' \subseteq ctx /\ UNCHANGED status
        BY <1>3, <2>3
    <2> QED
        BY <2>1, <2>2, <2>3
<1> QED
    BY <1>4 DEF AllAwake

LEMMA CallStepWakes ==
    ASSUME CInv, AllAwake, FieldsOK', NEW u \in Threads, RunCalls(u)
    PROVE  AllAwake'
<1>1. /\ FieldsOK /\ ThreadsOK /\ todo[u] # <<>> /\ todo[u] \in Seq(Calls)
      /\ UNCHANGED <<pc, cur, last>>
    BY DEF RunCalls, CallStep, Signal, SetData, ResolveStatus, RemoveFromContext, SetState, Push,
           Pop, UpdateInput, UpdateOutput, UnlockFifo, NextCall, userVars, CInv, TypesOK, ThreadsOK
<1>2. Head(todo[u]) \in Ops(u) /\ Head(todo[u]) \in Calls
    BY <1>1, TailFacts DEF Ops
<1>3. CASE Signal(u)
    <2> SUFFICES ASSUME NEW b \in Automata
                 PROVE  WakeOK(b)'
        BY DEF AllAwake
    <2> SUFFICES ASSUME NEW x, x = Arg(u, 2)
                 PROVE  WakeOK(b)'
        OBVIOUS
    <2>1. /\ Head(todo[u])[1] = "signal" /\ Then(u, <<>>) /\ UNCHANGED <<state, ctx, status>>
          /\ IF x \in Ends THEN UNCHANGED sem ELSE Post(x)
        BY <1>3 DEF Signal, NextCall, autVars, portFields
    <2>2. Head(todo[u]) = <<"signal", x>> /\ <<>> \in Seq(Calls)
        BY <1>2, <2>1 DEF Calls, Arg
    <2>3. SemMax \in Nat \ {0} /\ sem \in [Automata \cup UserPorts -> 0 .. SemMax]
        BY <1>1, AutomatonAssumption DEF FieldsOK
    <2>4. sem' \in [Automata \cup UserPorts -> 0 .. SemMax]
        BY DEF FieldsOK
    <2>5. ASSUME NEW y \in Crew(b)
          PROVE  sem'[y] >= sem[y] /\ (Signalled(y) => Signalled(y)' \/ sem'[y] > 0)
        <3>1. y \in Automata \cup UserPorts /\ y \notin Ends
            BY EndNames, AutomatonAssumption DEF Crew
        <3>2. sem[y] \in Nat
            BY <2>3, <3>1
        <3>3. CASE y = x
            BY <2>1, <2>3, <3>1, <3>2, <3>3 DEF Post
        <3>4. CASE y # x
            <4>1. sem'[y] = sem[y]
                BY <2>1, <2>3, <3>1, <3>4 DEF Post
            <4>2. Head(todo[u]) # <<"signal", y>>
                BY <2>2, <3>4
            <4>3. Signalled(y) => Signalled(y)'
                BY <1>1, <2>1, <2>2, <4>2, SignalsStay
            <4> QED
                BY <3>2, <4>1, <4>3
        <3> QED
            BY <3>3, <3>4
    <2>6. \A r \in Elements(FromState(b)) : Ready(r)' => Ready(r)
        BY <2>1 DEF Ready
    <2>7. \A p \in Crew(b) \cap UserPorts : last'[p] = last[p] /\ status'[p] = status[p]
        BY <1>1, <2>1
    <2>8. \A y \in Crew(b) : /\ pc'[y] = pc[y] /\ cur'[y] = cur[y] /\ sem'[y] >= sem[y]
                             /\ Signalled(y) => Signalled(y)' \/ sem'[y] > 0
        BY <1>1, <2>5
    <2> QED
        BY <1>1, <2>1, <2>4, <2>6, <2>7, <2>8, WakeStays DEF AllAwake
<1>4. CASE SetData(u) \/ ResolveStatus(u) \/ RemoveFromContext(u) \/ SetState(u) \/ Push(u) \/ Pop(u)
    <2>1. /\ Head(todo[u])[1] \in {"set", "push", "status", "remove", "pop", "state"}
          /\ UNCHANGED sem /\ ctx' \subseteq ctx
        BY <1>4 DEF SetData, ResolveStatus, RemoveFromContext, SetState, Push, Pop, NextCall,
                    portFields, fifoVars, autVars
    <2>2. \E cs \in Seq(Calls) : Then(u, cs)
        <3>1. CASE ResolveStatus(u)
            <4>1. Arg(u, 2) \in UserPorts
                BY <1>2, <3>1, CallShape DEF ResolveStatus, NextCall, Arg
            <4> SUFFICES ASSUME NEW p \in UserPorts, p = Arg(u, 2)
                         PROVE  \E cs \in Seq(Calls) : Then(u, cs)
                BY <4>1
            <4>2. <<"remove", p>> \in Calls /\ <<"signal", p>> \in Calls
                BY DEF Calls, Objects
            <4>3. Then(u, <<<<"remove", p>>, <<"signal", p>>>>)
                BY <3>1 DEF ResolveStatus
            <4>4. <<<<"remove", p>>, <<"signal", p>>>> \in Seq(Calls)
                BY <4>2
            <4> QED
                BY <4>3, <4>4
        <3>2. CASE Push(u) \/ Pop(u)
            <4>1. Arg(u, 2) \in Fifos
                BY <1>2, <3>2, CallShape DEF Push, Pop, NextCall, Arg
            <4> SUFFICES ASSUME NEW f \in Fifos, f = Arg(u, 2)
                         PROVE  \E cs \in Seq(Calls) : Then(u, cs)
                BY <4>1
            <4>2. <<"update", f>> \in Calls
                BY DEF Calls
            <4>3. Then(u, <<>>) \/ Then(u, <<<<"update", f>>>>)
                BY <3>2 DEF Push, Pop
            <4>4. <<<<"update", f>>>> \in Seq(Calls) /\ <<>> \in Seq(Calls)
                BY <4>2
            <4> QED
                BY <4>3, <4>4
        <3>3. CASE SetData(u) \/ RemoveFromContext(u) \/ SetState(u)
            <4>1. Then(u, <<>>) /\ <<>> \in Seq(Calls)
                BY <3>3 DEF SetData, RemoveFromContext, SetState
            <4> QED
                BY <4>1
        <3> QED
            BY <1>4, <3>1, <3>2, <3>3
    <2>3. PICK cs \in Seq(Calls) : Then(u, cs)
        BY <2>2
    <2>4. u \in Main /\ Home(u) \in Automata /\ \A x \in Party(Home(u)) : Signalled(x)'
        BY <1>1, <2>1, <2>3, KickFollows
    <2>5. Owns(u, Head(todo[u]))
        BY <1>2, <2>4 DEF CInv, ControlOK, WorkOK
    <2>6. \A b \in Automata \ {Home(u)} : state'[b] = state[b]
        BY <1>1, <1>4, <2>5 DEF SetData, ResolveStatus, RemoveFromContext, SetState, Push, Pop,
            NextCall, autVars, Owns, Arg, FieldsOK
    <2>7. \A p \in UserPorts : AutomatonOf(p) # Home(u) => status'[p] = status[p]
        BY <1>1, <1>4, <2>5 DEF SetData, ResolveStatus, RemoveFromContext, SetState, Push, Pop,
            NextCall, portFields, Owns, Arg, FieldsOK
    <2>8. \A x \in UserPorts \cup Ends : AutomatonOf(x) # Home(u) => (x \in ctx' => x \in ctx)
        BY <2>1
    <2>9. Head(todo[u])[1] # "signal"
        BY <2>1
    <2> QED
        BY <1>1, <2>1, <2>3, <2>4, <2>6, <2>7, <2>8, <2>9, CallWakes
<1>5. CASE UpdateInput(u) \/ UpdateOutput(u)
    <2> SUFFICES ASSUME NEW f, f = Arg(u, 2)
                 PROVE  AllAwake'
        OBVIOUS
    <2> DEFINE add(x) == /\ ctx' = ctx \cup {x}
                         /\ \E c \in {<<"update_output", f>>, <<"unlock", f>>} :
                                Then(u, Kick(AutomatonOf(x)) \o <<c>>)
               drop(x) == /\ ctx' = ctx \ {x}
                          /\ \E c \in {<<"update_output", f>>, <<"unlock", f>>} : Then(u, <<c>>)
    <2>1. /\ f \in Fifos /\ Head(todo[u])[1] # "signal" /\ UNCHANGED <<state, status, sem>>
          /\ \E x \in {InEnd(f), OutEnd(f)} : add(x) \/ drop(x)
        <3>1. NextCall(u, "update") \/ NextCall(u, "update_output")
            BY <1>5 DEF UpdateInput, UpdateOutput
        <3>2. f \in Fifos /\ Head(todo[u])[1] # "signal"
            BY <1>2, <3>1, CallShape DEF NextCall, Arg
        <3>3. UNCHANGED <<state, status, sem>>
            BY <1>5 DEF UpdateInput, UpdateOutput, autVars, portFields
        <3>4. CASE UpdateInput(u)
            <4>1. CASE IsFull(f)
                <5>1. drop(InEnd(f))
                    BY <3>4, <4>1 DEF UpdateInput
                <5> QED
                    BY <3>2, <3>3, <5>1
            <4>2. CASE ~IsFull(f)
                <5>1. add(InEnd(f))
                    BY <3>4, <4>2 DEF UpdateInput
                <5> QED
                    BY <3>2, <3>3, <5>1
            <4> QED
                BY <4>1, <4>2
        <3>5. CASE UpdateOutput(u)
            <4>1. CASE IsEmpty(f)
                <5>1. drop(OutEnd(f))
                    BY <3>5, <4>1 DEF UpdateOutput
                <5> QED
                    BY <3>2, <3>3, <5>1
            <4>2. CASE ~IsEmpty(f)
                <5>1. add(OutEnd(f))
                    BY <3>5, <4>2 DEF UpdateOutput
                <5> QED
                    BY <3>2, <3>3, <5>1
            <4> QED
                BY <4>1, <4>2
        <3> QED
            BY <1>5, <3>4, <3>5
    <2>2. PICK x \in {InEnd(f), OutEnd(f)} : add(x) \/ drop(x)
        BY <2>1
    <2>3. x \in Ends /\ AutomatonOf(x) \in Automata
        BY <2>1, EndNames, PortsInAutomata
    <2>4. /\ <<<<"update_output", f>>>> \in Seq(Calls) /\ <<<<"unlock", f>>>> \in Seq(Calls)
        <3>1. <<"update_output", f>> \in Calls /\ <<"unlock", f>> \in Calls
            BY <2>1 DEF Calls
        <3> QED
            BY <3>1
    <2>5. CASE add(x)
        <3>1. PICK c \in {<<"update_output", f>>, <<"unlock", f>>} :
                Then(u, Kick(AutomatonOf(x)) \o <<c>>)
            BY <2>5
        <3> SUFFICES ASSUME NEW cs, cs = Kick(AutomatonOf(x)) \o <<c>>
                     PROVE  AllAwake'
            OBVIOUS
        <3>2. /\ Kick(AutomatonOf(x)) \in Seq(Calls) /\ <<c>> \in Seq(Calls)
              /\ Elements(Kick(AutomatonOf(x))) = {<<"signal", y>> : y \in Party(AutomatonOf(x))}
            BY <2>3, <2>4, <3>1, KickFacts
        <3>3. cs \in Seq(Calls) /\ Elements(cs) = Elements(Kick(AutomatonOf(x))) \cup Elements(<<c>>)
            BY <3>2, ConcatFacts
        <3>4. Then(u, cs)
            BY <3>1
        <3>5. ASSUME NEW y \in Party(AutomatonOf(x))
              PROVE  Signalled(y)'
            <4>1. <<"signal", y>> \in Elements(cs)
                BY <3>2, <3>3
            <4> QED
                BY <1>1, <3>3, <3>4, <4>1, SignalsStay
        <3>6. \A z \in UserPorts \cup Ends : AutomatonOf(z) # AutomatonOf(x) => (z \in ctx' => z \in ctx)
            BY <2>5
        <3> QED
            BY <1>1, <2>1, <2>3, <3>3, <3>4, <3>5, <3>6, CallWakes
    <2>6. CASE drop(x)
        <3>1. PICK c \in {<<"update_output", f>>, <<"unlock", f>>} : Then(u, <<c>>)
            BY <2>6
        <3>2. <<c>> \in Seq(Calls) /\ ctx' \subseteq ctx
            BY <2>4, <2>6
        <3> QED
            BY <1>1, <2>1, <2>3, <3>1, <3>2, CallWakes
    <2> QED
        BY <2>2, <2>5, <2>6
<1>6. CASE UnlockFifo(u)
    <2>1. /\ Head(todo[u])[1] # "signal" /\ Then(u, <<>>) /\ <<>> \in Seq(Calls)
          /\ UNCHANGED <<state, ctx, status, sem>>
        BY <1>6 DEF UnlockFifo, NextCall, autVars, portFields
    <2>2. PICK f \in Fifos : TRUE
        BY <1>2, <1>6, CallShape DEF UnlockFifo, NextCall
    <2>3. AutomatonOf(InEnd(f)) \in Automata
        BY EndNames, PortsInAutomata
    <2> QED
        BY <1>1, <2>1, <2>3, CallWakes
<1> QED
    BY <1>3, <1>4, <1>5, <1>6 DEF RunCalls, CallStep

\* A step that concerns one thread and takes no signal away.
LEMMA WakeOwn ==
    ASSUME FieldsOK, ThreadsOK, AllAwake, NEW u \in Main, NEW a, a = Home(u),
           UNCHANGED state, \A x : Signalled(x) => Signalled(x)',
           sem' \in [Automata \cup UserPorts -> 0 .. SemMax],
           \A t \in Main \ {u} : pc'[t] = pc[t] /\ cur'[t] = cur[t] /\ sem'[t] = sem[t],
           \A p \in UserPorts \ {u} : last'[p] = last[p] /\ status'[p] = status[p],
           \A x \in UserPorts \cup Ends : x # u => (x \in ctx' => x \in ctx),
           \A r \in Elements(FromState(a)) : u \in Ports(r) \cup {a} /\ Ready(r)' =>
               \/ u \in Ports(r) /\ WillTry(u, r)'
               \/ /\ Ready(r) /\ (Settled(u, r)' => Settled(u, r))
                  /\ ~(u \in Ports(r) /\ WillTry(u, r))
               \/ Ports(r) \cup ({a} \cap Active) = {u} /\ ~Settled(u, r)'
    PROVE  AllAwake'
<1>1. /\ a \in Automata /\ Active \cap UserPorts = {} /\ UserPorts \subseteq Main /\ Active \subseteq Main
      /\ u \in UserPorts => AutomatonOf(u) = a
      /\ u \notin UserPorts => u = a /\ u \in Active
    BY PortsInAutomata, ThreadNames DEF Main, Home
<1>3. SemMax \in Nat /\ sem \in [Automata \cup UserPorts -> 0 .. SemMax]
    BY AutomatonAssumption DEF FieldsOK
<1> SUFFICES ASSUME NEW b \in Automata
             PROVE  WakeOK(b)'
    BY DEF AllAwake
<1>4. \A t \in Crew(b) : /\ t \in Main /\ Home(t) = b /\ t \in Automata \cup UserPorts
                         /\ t # u => pc'[t] = pc[t] /\ cur'[t] = cur[t] /\ sem'[t] = sem[t]
                         /\ t # u /\ t \in UserPorts => last'[t] = last[t] /\ status'[t] = status[t]
    BY CrewFacts, AutomatonAssumption DEF Crew
<1>5. /\ \A x \in Elements(PortList[b]) : x \in UserPorts \cup Ends /\ AutomatonOf(x) = b
      /\ \A r \in Elements(FromState(b)) : \A x \in Elements(r.ports) : x \in Elements(PortList[b])
    <2>1. \A r \in Elements(FromState(b)) : r.ports \in Seq(Elements(PortList[b]))
        BY CrewFacts, AutomatonAssumption DEF FromState, IsTransition
    <2> QED
        BY <2>1, PortsInAutomata, SequenceElement
<1>6. CASE b # a
    <2>1. \A t \in Crew(b) : t # u
        BY <1>4, <1>6
    <2>2. \A x \in Elements(PortList[b]) : x \in ctx' => x \in ctx
        BY <1>1, <1>5, <1>6, EndNames DEF Main
    <2>3. \A r \in Elements(FromState(b)) : Ready(r)' => Ready(r)
        BY <2>2, ReadyStays
    <2>4. \A t \in Crew(b) : /\ pc'[t] = pc[t] /\ cur'[t] = cur[t] /\ sem'[t] >= sem[t]
                             /\ Signalled(t) => Signalled(t)' \/ sem'[t] > 0
        <3> SUFFICES ASSUME NEW t \in Crew(b)
                     PROVE  pc'[t] = pc[t] /\ cur'[t] = cur[t] /\ sem'[t] >= sem[t]
            OBVIOUS
        <3>1. sem[t] \in Nat /\ sem'[t] = sem[t]
            BY <1>3, <1>4, <2>1
        <3> QED
            BY <1>4, <2>1, <3>1
    <2>5. \A p \in Crew(b) \cap UserPorts : last'[p] = last[p] /\ status'[p] = status[p]
        BY <1>4, <2>1
    <2>6. WakeOK(b) /\ state'[b] = state[b]
        BY DEF AllAwake
    <2> QED
        BY <2>3, <2>4, <2>5, <2>6, WakeStays
<1>7. CASE b = a
    <2>1. FromState(a)' = FromState(a)
        BY DEF FromState
    <2> SUFFICES ASSUME NEW r \in Elements(FromState(a)), Ready(r)',
                        NEW t \in Ports(r) \cup ({a} \cap Active), Settled(t, r)'
                 PROVE  Signalled(t) \/ \E q \in Ports(r) : WillTry(q, r)'
        BY <1>7, <2>1 DEF WakeOK, AwakeFor, Ports
    <2>2. t \in Crew(a) /\ Ports(r) \subseteq Crew(a) /\ Ports(r) \subseteq UserPorts
        BY <1>7, CrewFacts
    <2>3. CASE u \in Ports(r) /\ WillTry(u, r)'
        BY <2>3
    <2>5. ~(Ports(r) \cup ({a} \cap Active) = {u} /\ ~Settled(u, r)')
        OBVIOUS
    <2>4. CASE ~(u \in Ports(r) /\ WillTry(u, r)')
        <3>1. /\ Ready(r) /\ ~(u \in Ports(r) /\ WillTry(u, r))
              /\ u \in Ports(r) \cup {a} => (Settled(u, r)' => Settled(u, r))
            <4>1. CASE u \in Ports(r) \cup {a}
                BY <2>4, <2>5, <4>1
            <4>2. CASE u \notin Ports(r) \cup {a}
                <5>1. u \in UserPorts /\ u \notin Elements(r.ports)
                    BY <1>1, <4>2 DEF Ports
                <5>2. \A x \in Elements(r.ports) : x \in ctx' => x \in ctx
                    BY <1>5, <1>7, <5>1
                <5> QED
                    BY <4>2, <5>2 DEF Ready
            <4> QED
                BY <4>1, <4>2
        <3>2. Settled(t, r)
            <4>1. CASE t = u
                BY <1>1, <3>1, <4>1
            <4>2. CASE t # u
                <5>1. Passed(t, r)' <=> Passed(t, r)
                    BY <1>1, <1>4, <1>7, <2>2, <4>2, PassedStays
                <5>2. pc'[t] = pc[t] /\ sem'[t] = sem[t]
                    BY <1>4, <1>7, <2>2, <4>2
                <5> QED
                    BY <5>1, <5>2 DEF Settled
            <4> QED
                BY <4>1, <4>2
        <3>3. Signalled(t) \/ \E q \in Ports(r) : WillTry(q, r)
            BY <1>7, <3>1, <3>2 DEF AllAwake, WakeOK, AwakeFor
        <3>4. ASSUME NEW q \in Ports(r), WillTry(q, r)
              PROVE  WillTry(q, r)'
            <4>1. q # u /\ q \in Crew(a) /\ q \in UserPorts
                BY <2>2, <3>1, <3>4
            <4>2. /\ pc'[q] = pc[q] /\ cur'[q] = cur[q] /\ sem'[q] = sem[q]
                  /\ last'[q] = last[q] /\ status'[q] = status[q]
                BY <1>4, <1>7, <4>1
            <4>3. Passed(q, r)' <=> Passed(q, r)
                BY <1>1, <4>1, <4>2, PassedStays
            <4> QED
                BY <3>4, <4>2, <4>3 DEF WillTry
        <3> QED
            BY <3>3, <3>4
    <2> QED
        BY <2>3, <2>4
<1> QED
    BY <1>6, <1>7

\* A step of a port that tries nothing yet.
Busy(p) == status[p] = "pending" /\ (pc[p] \in {"test", "lock", "contains", "try"}
                                     \/ (pc[p] = "wait" /\ sem[p] > 0))

LEMMA WakePort ==
    ASSUME LoneCancels, FieldsOK, ThreadsOK, AllAwake, NEW p \in UserPorts,
           NEW l \in PortLabels \ {"wait"}, pc' = [pc EXCEPT ![p] = l],
           UNCHANGED <<state, todo, last>>,
           sem' \in [Automata \cup UserPorts -> 0 .. SemMax],
           \A t \in Main \ {p} : cur'[t] = cur[t] /\ sem'[t] = sem[t],
           \A q \in UserPorts \ {p} : status'[q] = status[q],
           ctx' \subseteq ctx \cup {p},
           l = "try" => cur'[p] = 1,
           p \in ctx' => \/ p \in Cancelled
                         \/ status'[p] = "pending" /\ l \in {"test", "lock", "contains", "try"}
                         \/ p \in ctx /\ ~Busy(p)
    PROVE  AllAwake'
<1>1. p \in Main /\ p \in Threads /\ Home(p) = AutomatonOf(p) /\ p \notin Automata
    BY PortThread, EndNames
<1>2. pc'[p] = l /\ \A t \in Main \ {p} : pc'[t] = pc[t]
    BY <1>1, ThreadNames DEF ThreadsOK
<1>3. ASSUME NEW r
      PROVE  ~Passed(p, r)'
    <2>1. CASE l = "try"
        <3>1. cur'[p] = 1 /\ pc'[p] # "loop_try"
            BY <1>2, <2>1
        <3>2. 1 .. cur'[p] - 1 = {}
            BY <3>1
        <3> QED
            BY <3>1, <3>2 DEF Passed
    <2>2. CASE l # "try"
        BY <1>2, <2>2 DEF Passed, PortLabels
    <2> QED
        BY <2>1, <2>2
<1>4. ASSUME NEW r
      PROVE  ~Settled(p, r)'
    BY <1>2, <1>3 DEF Settled, PortLabels
<1>5. ASSUME NEW r \in Elements(FromState(AutomatonOf(p))), p \in Ports(r) \cup {AutomatonOf(p)}, Ready(r)'
      PROVE  \/ p \in Ports(r) /\ WillTry(p, r)'
             \/ /\ Ready(r) /\ (Settled(p, r)' => Settled(p, r))
                /\ ~(p \in Ports(r) /\ WillTry(p, r))
             \/ Ports(r) \cup ({AutomatonOf(p)} \cap Active) = {p} /\ ~Settled(p, r)'
    <2>1. p \in Ports(r) /\ p \in Elements(r.ports) /\ p \in ctx'
        BY <1>1, <1>5, PortThread DEF Ports, Ready
    <2>2. CASE status'[p] = "pending" /\ l \in {"test", "lock", "contains", "try"}
        BY <1>2, <1>3, <2>1, <2>2 DEF WillTry
    <2>3. CASE p \in ctx /\ ~Busy(p)
        <3>1. Ready(r)
            BY <1>5, <2>3 DEF Ready
        <3>2. ~WillTry(p, r)
            BY <2>3 DEF WillTry, Busy
        <3> QED
            BY <1>4, <3>1, <3>2
    <2>4. CASE p \in Cancelled
        <3>1. r \in Elements(Transitions[AutomatonOf(p)][state[AutomatonOf(p)]])
              /\ state[AutomatonOf(p)] \in States /\ AutomatonOf(p) \in Automata
            BY <1>5, PortThread DEF FieldsOK, FromState
        <3> QED
            BY <1>4, <2>1, <2>4, <3>1 DEF LoneCancels
    <2> QED
        BY <2>1, <2>2, <2>3, <2>4
<1>6. \A x : Signalled(x) => Signalled(x)'
    BY DEF Signalled, Threads
<1> QED
    BY <1>1, <1>2, <1>5, <1>6, WakeOwn

\* A port tries its transitions round robin.
LEMMA Remainder ==
    ASSUME NEW n \in Nat \ {0}, NEW q \in Nat, NEW i \in 0 .. n - 1
    PROVE  (n * q + i) % n = i
<1> SUFFICES ASSUME NEW x \in Nat, x = n * q + i
             PROVE  x % n = i
    OBVIOUS
<1>1. PICK d \in Nat : x = n * d + (x % n) /\ x % n \in 0 .. n - 1
    <2>1. x \div n \in Nat /\ x = n * (x \div n) + (x % n) /\ x % n \in 0 .. n - 1
        OBVIOUS
    <2> QED
        BY <2>1
<1> DEFINE m == x % n
<1> HIDE DEF m
<1>3. n * d + m = n * q + i /\ m \in 0 .. n - 1
    BY <1>1 DEF m
<1>4. ASSUME NEW u \in Nat, NEW v \in Nat, u < v
      PROVE  n * u + n <= n * v
    <2>1. PICK w \in Nat : v = u + 1 + w
        <3>1. v - u - 1 \in Nat /\ v = u + 1 + (v - u - 1)
            BY <1>4
        <3> QED
            BY <3>1
    <2>2. n * v = n * u + n + n * w /\ n * w \in Nat /\ n * u \in Nat
        BY <2>1
    <2> QED
        BY <2>2
<1>5. n * d \in Nat /\ n * q \in Nat
    OBVIOUS
<1>6. ~(d < q)
    BY <1>3, <1>4, <1>5
<1>7. ~(q < d)
    BY <1>3, <1>4, <1>5
<1>8. d = q
    BY <1>6, <1>7
<1>9. m = i
    BY <1>3, <1>5, <1>8
<1> QED
    BY <1>9 DEF m

LEMMA RoundCovers ==
    ASSUME NEW n \in Nat \ {0}, NEW l \in Nat, NEW i \in 0 .. n - 1
    PROVE  \E m \in 1 .. n : (l + m) % n = i
<1>1. PICK q \in Nat, k \in 0 .. n - 1 : l = n * q + k
    <2>1. l \div n \in Nat /\ l = n * (l \div n) + (l % n) /\ l % n \in 0 .. n - 1
        OBVIOUS
    <2> QED
        BY <2>1
<1>2. CASE k < i
    <2>1. i - k \in 1 .. n /\ l + (i - k) = n * q + i
        BY <1>1, <1>2
    <2>2. (n * q + i) % n = i
        BY Remainder
    <2> QED
        BY <2>1, <2>2
<1>3. CASE ~(k < i)
    <2>1. n - k + i \in 1 .. n /\ l + (n - k + i) = n * (q + 1) + i
        BY <1>1, <1>3
    <2>2. (n * (q + 1) + i) % n = i
        BY Remainder
    <2> QED
        BY <2>1, <2>2
<1> QED
    BY <1>2, <1>3

LEMMA TryFacts ==
    ASSUME CInv, NEW p \in UserPorts, pc[p] = "try"
    PROVE  LET s == TransitionsFor(p)
               l == last[p][state[AutomatonOf(p)]]
           IN  /\ cur[p] \in Nat \ {0} /\ Len(s) \in Nat /\ l \in Nat
               /\ DOMAIN s = 1 .. Len(s)
               /\ s \in Seq(Elements(FromState(AutomatonOf(p))))
               /\ \A r \in Elements(FromState(AutomatonOf(p))) :
                    p \in Ports(r) => r \in Elements(s)
               /\ \A r \in Elements(s) : r \in Elements(FromState(AutomatonOf(p)))
                                         /\ p \in Elements(r.ports)
<1>1. /\ FieldsOK /\ p \in Threads /\ cur \in [Threads -> Nat] /\ cur[p] # 0
      /\ last \in [UserPorts -> [States -> Nat]]
    BY PortThread DEF CInv, TypesOK, FieldsOK, ThreadsOK
<1>2. /\ state[AutomatonOf(p)] \in States
      /\ TransitionsFor(p) \in Seq(Elements(FromState(AutomatonOf(p))))
      /\ Elements(TransitionsFor(p))
            = {r \in Elements(FromState(AutomatonOf(p))) : p \in Elements(r.ports)}
    BY <1>1, TransitionsForFacts
<1>3. Len(TransitionsFor(p)) \in Nat /\ DOMAIN TransitionsFor(p) = 1 .. Len(TransitionsFor(p))
    BY ONLY <1>2
<1> QED
    BY <1>1, <1>2, <1>3 DEF Ports

Place(l, m, n) == ((l + m) % n) + 1

LEMMA RoundFinds ==
    ASSUME NEW s, NEW n \in Nat, DOMAIN s = 1 .. n, NEW r \in Elements(s), NEW l \in Nat
    PROVE  \E m \in 1 .. n : s[Place(l, m, n)] = r
<1>1. PICK i \in 1 .. n : s[i] = r
    BY DEF Elements
<1>2. n \in Nat \ {0} /\ i - 1 \in 0 .. n - 1 /\ (i - 1) + 1 = i
    BY <1>1
<1>3. ASSUME NEW k \in 0 .. n - 1
      PROVE  \E m \in 1 .. n : (l + m) % n = k
    BY <1>2, RoundCovers
<1>4. PICK m \in 1 .. n : (l + m) % n = i - 1
    BY <1>2, <1>3
<1>5. Place(l, m, n) = i
    BY <1>2, <1>4 DEF Place
<1> QED
    BY <1>1, <1>5

\* When a port has tried all its transitions, it has passed each of them.
LEMMA AllPassed ==
    ASSUME CInv, NEW p \in UserPorts, pc[p] = "try", cur[p] > Len(TransitionsFor(p)),
           NEW r \in Elements(FromState(AutomatonOf(p))), p \in Ports(r)
    PROVE  Passed(p, r)
<1>1. /\ cur[p] \in Nat /\ Len(TransitionsFor(p)) \in Nat
      /\ last[p][state[AutomatonOf(p)]] \in Nat
      /\ DOMAIN TransitionsFor(p) = 1 .. Len(TransitionsFor(p)) /\ r \in Elements(TransitionsFor(p))
    BY TryFacts
<1> SUFFICES ASSUME NEW s, s = TransitionsFor(p), NEW n \in Nat, n = Len(TransitionsFor(p)),
                    NEW l \in Nat, l = last[p][state[AutomatonOf(p)]]
             PROVE  Passed(p, r)
    BY <1>1
<1>2. DOMAIN s = 1 .. n /\ r \in Elements(s) /\ n \in Nat /\ l \in Nat
    BY <1>1
<1>3. PICK m \in 1 .. n : s[Place(l, m, n)] = r
    BY ONLY <1>2, RoundFinds
<1>4. m \in 1 .. cur[p] - 1
    BY <1>1, <1>3
<1> QED
    BY <1>3, <1>4 DEF Passed, Place

\* A transition that is tried in vain cannot fire.
LEMMA TryInVain ==
    ASSUME CInv, CInv', AllAwake, NEW p \in UserPorts, CallTry(p), cur' # cur
    PROVE  AllAwake'
<1> SUFFICES ASSUME NEW s, s = TransitionsFor(p), NEW n, n = Len(s),
                    NEW l, l = last[p][state[AutomatonOf(p)]],
                    NEW g, g = s[((l + cur[p]) % n) + 1]
             PROVE  AllAwake'
    OBVIOUS
<1>1. /\ pc[p] = "try" /\ pc' = [pc EXCEPT ![p] = "try"] /\ ~Ready(g)
      /\ cur' = [cur EXCEPT ![p] = @ + 1]
      /\ UNCHANGED <<state, todo, last, sem, status, ctx>>
    BY DEF CallTry, RoundRobin, Goto, autVars, portFields
<1>2. /\ FieldsOK /\ ThreadsOK /\ p \in Main /\ p \in Threads /\ Home(p) = AutomatonOf(p)
      /\ p \notin Automata /\ cur \in [Threads -> Nat] /\ pc = [t \in Threads |-> pc[t]]
      /\ sem \in [Automata \cup UserPorts -> 0 .. SemMax] /\ Main \subseteq Threads
    BY PortThread, EndNames, ThreadNames DEF CInv, TypesOK, FieldsOK, ThreadsOK
<1>3. pc'[p] = "try" /\ cur'[p] = cur[p] + 1 /\ cur[p] \in Nat \ {0}
    BY <1>1, <1>2, TryFacts
<1>4. \A t \in Main \ {p} : pc'[t] = pc[t] /\ cur'[t] = cur[t] /\ sem'[t] = sem[t]
    BY <1>1, <1>2
<1>5. ASSUME NEW r \in Elements(FromState(AutomatonOf(p))), Ready(r)'
      PROVE  Ready(r) /\ (Passed(p, r)' <=> Passed(p, r))
    <2>1. Ready(r) /\ r # g
        BY <1>1, <1>5 DEF Ready
    <2>2. Passed(p, r) <=> \E m \in 1 .. cur[p] - 1 : s[((l + m) % n) + 1] = r
        BY <1>1, PassedNow
    <2>3. Passed(p, r)' <=> \E m \in 1 .. cur'[p] - 1 : s[((l + m) % n) + 1] = r
        <3>1. /\ pc'[p] = "try" /\ last'[p] = last[p]
              /\ state'[AutomatonOf(p)] = state[AutomatonOf(p)]
            BY <1>1, <1>3
        <3> QED
            BY <3>1, PassedNext
    <2>4. 1 .. cur'[p] - 1 = (1 .. cur[p] - 1) \cup {cur[p]}
        BY <1>3
    <2>5. s[((l + cur[p]) % n) + 1] # r
        BY <2>1
    <2> QED
        BY <2>1, <2>2, <2>3, <2>4, <2>5
<1>6. ASSUME NEW r \in Elements(FromState(AutomatonOf(p))), p \in Ports(r) \cup {AutomatonOf(p)}, Ready(r)'
      PROVE  \/ p \in Ports(r) /\ WillTry(p, r)'
             \/ /\ Ready(r) /\ (Settled(p, r)' => Settled(p, r))
                /\ ~(p \in Ports(r) /\ WillTry(p, r))
    <2>1. Ready(r) /\ (Passed(p, r)' <=> Passed(p, r))
        BY <1>5, <1>6
    <2>2. WillTry(p, r)' <=> WillTry(p, r)
        BY <1>1, <1>3, <2>1 DEF WillTry
    <2>3. Settled(p, r)' => Settled(p, r)
        BY <1>1, <1>3, <2>1 DEF Settled
    <2> QED
        BY <2>1, <2>2, <2>3
<1>7. \A x : Signalled(x) => Signalled(x)'
    BY <1>1 DEF Signalled, Threads
<1> QED
    BY <1>1, <1>2, <1>4, <1>6, <1>7, WakeOwn

\* A port goes to sleep when it has tried all its transitions.
LEMMA GoToSleep ==
    ASSUME CInv, CInv', AllAwake, NEW p \in UserPorts, CallUnlock(p), pc[p] = "try"
    PROVE  AllAwake'
<1>1. /\ pc' = [pc EXCEPT ![p] = "wait"] /\ cur[p] > Len(TransitionsFor(p))
      /\ UNCHANGED <<cur, state, todo, last, sem, status, ctx>>
    BY DEF CallUnlock, Goto, portFields, userVars
<1>2. /\ FieldsOK /\ ThreadsOK /\ p \in Main /\ p \in Threads /\ Home(p) = AutomatonOf(p)
      /\ p \notin Automata /\ pc = [t \in Threads |-> pc[t]]
      /\ sem \in [Automata \cup UserPorts -> 0 .. SemMax] /\ Main \subseteq Threads
    BY PortThread, EndNames, ThreadNames DEF CInv, TypesOK, FieldsOK, ThreadsOK
<1>3. pc'[p] = "wait" /\ \A t \in Main \ {p} : pc'[t] = pc[t]
    BY <1>1, <1>2
<1>4. ASSUME NEW r \in Elements(FromState(AutomatonOf(p))), p \in Ports(r) \cup {AutomatonOf(p)}, Ready(r)'
      PROVE  /\ Ready(r) /\ (Settled(p, r)' => Settled(p, r))
             /\ ~(p \in Ports(r) /\ WillTry(p, r))
    <2>0. p \in Ports(r)
        BY <1>2, <1>4, PortThread
    <2>1. p \in Ports(r) /\ Passed(p, r)
        BY <1>1, <2>0, AllPassed
    <2>2. Ready(r)
        BY <1>1, <1>4 DEF Ready
    <2>3. Settled(p, r)' => Settled(p, r)
        BY <1>1, <2>1 DEF Settled
    <2>4. ~WillTry(p, r)
        BY <2>1 DEF WillTry
    <2> QED
        BY <2>1, <2>2, <2>3, <2>4
<1>5. \A x : Signalled(x) => Signalled(x)'
    BY <1>1 DEF Signalled, Threads
<1> QED
    BY <1>1, <1>2, <1>3, <1>4, <1>5, WakeOwn


\* Who fires is going to kick his automaton.
LEMMA FireWakes ==
    ASSUME CInv, CInv', AllAwake, NEW u \in Main, Critical(u), todo[u] = <<>>, NEW a, a = Home(u),
           NEW r \in Elements(FromState(a)), Fire(u, a, r), NEW l, pc' = [pc EXCEPT ![u] = l],
           UNCHANGED <<ctx, state, status, sem, cur>>,
           \A p \in UserPorts \ {u} : last'[p] = last[p]
    PROVE  AllAwake'
<1>1. /\ FieldsOK /\ ThreadsOK /\ FieldsOK' /\ a \in Automata /\ u \in Threads
      /\ pc = [t \in Threads |-> pc[t]] /\ todo = [t \in Threads |-> todo[t]]
      /\ sem \in [Automata \cup UserPorts -> 0 .. SemMax] /\ SemMax \in Nat /\ Main \subseteq Threads
    BY PortsInAutomata, ThreadNames, AutomatonAssumption DEF CInv, TypesOK, FieldsOK, ThreadsOK
<1> SUFFICES ASSUME NEW cs, cs = FireCalls(a, r)
             PROVE  AllAwake'
    OBVIOUS
<1>2. todo' = [todo EXCEPT ![u] = cs] /\ Ready(r)
    BY DEF Fire
<1>3. \A x \in Party(a) : <<"signal", x>> \in Elements(cs)
    <2>1. PICK s \in States : /\ r \in Elements(Transitions[a][s])
                              /\ \A v \in Elements(r.sets) : Peek(v.source) \in Data
        BY <1>2, ReadyData
    <2>2. Elements(Kick(a)) \subseteq Elements(cs)
        BY <1>1, <2>1, FireCallsFacts
    <2> QED
        BY <1>1, <2>2, KickFacts
<1>4. todo'[u] = cs /\ \A t \in Threads \ {u} : todo'[t] = todo[t]
    BY <1>1, <1>2
<1>5. \A x \in Party(a) : Signalled(x)'
    BY <1>1, <1>3, <1>4 DEF Signalled, Threads
<1>6. ASSUME NEW x
      PROVE  Signalled(x) => Signalled(x)'
    <2>1. Elements(todo[u]) = {}
        BY EmptySeq DEF Elements
    <2> SUFFICES ASSUME NEW t \in Threads, <<"signal", x>> \in Elements(todo[t])
                 PROVE  <<"signal", x>> \in Elements(todo'[t])
        BY DEF Signalled, Threads, Elements
    <2>2. t # u
        BY <2>1
    <2> QED
        BY <1>4, <2>2
<1> SUFFICES ASSUME NEW b \in Automata
             PROVE  WakeOK(b)'
    BY DEF AllAwake
<1>7. CASE b = a
    <2>1. \A x \in Crew(a) : Signalled(x)'
        BY <1>1, <1>5, CrewFacts
    <2> QED
        BY <1>1, <1>7, <2>1, WakeSignalled
<1>8. CASE b # a
    <2>1. \A t \in Crew(b) : t # u /\ t \in Threads /\ t \in Automata \cup UserPorts
        BY <1>1, <1>8, CrewFacts, AutomatonAssumption DEF Crew
    <2>2. \A t \in Crew(b) : /\ pc'[t] = pc[t] /\ cur'[t] = cur[t] /\ sem'[t] >= sem[t]
                             /\ Signalled(t) => Signalled(t)' \/ sem'[t] > 0
        <3> SUFFICES ASSUME NEW t \in Crew(b)
                     PROVE  pc'[t] = pc[t] /\ cur'[t] = cur[t] /\ sem'[t] >= sem[t]
            BY <1>6
        <3>1. sem[t] \in Nat
            BY <1>1, <2>1
        <3> QED
            BY <1>1, <2>1, <3>1
    <2>3. \A q \in Elements(FromState(b)) : Ready(q)' => Ready(q)
        BY DEF Ready
    <2>4. \A p \in Crew(b) \cap UserPorts : last'[p] = last[p] /\ status'[p] = status[p]
        BY <2>1
    <2>5. WakeOK(b) /\ state'[b] = state[b] /\ sem' \in [Automata \cup UserPorts -> 0 .. SemMax]
        BY <1>1 DEF AllAwake
    <2> QED
        BY <1>1, <2>2, <2>3, <2>4, <2>5, WakeStays
<1> QED
    BY <1>7, <1>8

LEMMA PortWakes ==
    ASSUME LoneCancels, CInv, CInv', AllAwake, NEW p \in UserPorts, Begin(p) \/ ActionStep(p)
    PROVE  AllAwake'
<1>1. /\ FieldsOK /\ ThreadsOK /\ p \in Main /\ p \in Threads /\ Home(p) = AutomatonOf(p)
      /\ (p \notin Cancelled => PortOK(p)) /\ todo[p] = <<>>
      /\ cur \in [Threads -> Nat] /\ status \in [UserPorts -> {"pending", "success", "failed"}]
      /\ sem \in [Automata \cup UserPorts -> 0 .. SemMax]
      /\ sem' \in [Automata \cup UserPorts -> 0 .. SemMax]
      /\ Main \subseteq Threads /\ Main \subseteq Automata \cup UserPorts
    <2>1. todo[p] = <<>>
        BY DEF Begin, ActionStep, Register, Test, CallLock, CallContains, CallTry, CallUnlock,
               CallReturn, Wait, Timeout, Expire, Goto
    <2>2. sem' \in [Automata \cup UserPorts -> 0 .. SemMax]
        BY DEF CInv, TypesOK, FieldsOK
    <2> QED
        BY <2>1, <2>2, PortThread, ThreadNames, AutomatonAssumption
        DEF CInv, TypesOK, FieldsOK, ThreadsOK, PortsOK, Main
<1> DEFINE quiet(l) ==
        /\ l \in PortLabels \ {"wait"} /\ pc' = [pc EXCEPT ![p] = l]
        /\ UNCHANGED <<state, todo, last>>
        /\ \A t \in Main \ {p} : cur'[t] = cur[t] /\ sem'[t] = sem[t]
        /\ \A q \in UserPorts \ {p} : status'[q] = status[q]
        /\ ctx' \subseteq ctx \cup {p}
        /\ l = "try" => cur'[p] = 1
        /\ p \in ctx' => \/ p \in Cancelled
                         \/ status'[p] = "pending" /\ l \in {"test", "lock", "contains", "try"}
                         \/ p \in ctx /\ ~Busy(p)
<1>2. ASSUME NEW l, quiet(l)
      PROVE  AllAwake'
    BY <1>1, <1>2, WakePort
<1> USE DEF Goto, autVars, portFields, fifoVars, history, userVars
<1>3. CASE Begin(p)
    <2>1. quiet("register")
        BY <1>1, <1>3 DEF Begin, Busy, PortLabels
    <2> QED
        BY <1>2, <2>1
<1>4. CASE Register(p)
    <2>1. quiet("test")
        BY <1>1, <1>4 DEF Register, PortOK, PortLabels
    <2> QED
        BY <1>2, <2>1
<1>5. CASE Test(p)
    <2>1. quiet("lock") \/ quiet("idle")
        BY <1>1, <1>5 DEF Test, Busy, PortLabels
    <2> QED
        BY <1>2, <2>1
<1>6. CASE CallLock(p)
    <2>1. quiet("contains")
        BY <1>1, <1>6 DEF CallLock, Busy, PortLabels
    <2> QED
        BY <1>2, <2>1
<1>7. CASE CallContains(p)
    <2>1. quiet("try") \/ quiet("return")
        <3>1. CASE p \in ctx
            BY <1>1, <1>7, <3>1 DEF CallContains, Busy, PortLabels
        <3>2. CASE p \notin ctx
            BY <1>1, <1>7, <3>2 DEF CallContains, Busy, PortLabels
        <3> QED
            BY <3>1, <3>2
    <2> QED
        BY <1>2, <2>1
<1>8. CASE CallTry(p)
    <2>1. CASE cur' # cur
        BY <1>8, <2>1, TryInVain
    <2>2. CASE cur' = cur
        <3> SUFFICES ASSUME NEW s, s = TransitionsFor(p), NEW n, n = Len(s),
                            NEW l, l = last[p][state[AutomatonOf(p)]],
                            NEW k, k = (l + cur[p]) % n
                     PROVE  AllAwake'
            OBVIOUS
        <3>1. pc[p] = "try"
            BY <1>8 DEF CallTry
        <3>2. /\ cur[p] \in Nat \ {0} /\ n \in Nat /\ l \in Nat /\ DOMAIN s = 1 .. n
              /\ \A r \in Elements(s) : r \in Elements(FromState(AutomatonOf(p)))
            BY <3>1, TryFacts
        <3>3. cur[p] <= n
            BY <1>8 DEF CallTry
        <3>4. n \in Nat \ {0} /\ l + cur[p] \in Nat
            BY <3>2, <3>3
        <3>5. k \in 0 .. n - 1
            BY <3>4
        <3>6. k + 1 \in 1 .. n
            BY <3>4, <3>5
        <3>7. s[k + 1] \in Elements(FromState(AutomatonOf(p)))
            BY <3>2, <3>6 DEF Elements
        <3>8. cur[p] + 1 # cur[p] /\ p \in DOMAIN cur
            BY <1>1, <3>2
        <3>9. /\ Fire(p, AutomatonOf(p), s[k + 1]) /\ pc' = [pc EXCEPT ![p] = "fired"]
              /\ \E i : last' = [last EXCEPT ![p][state[AutomatonOf(p)]] = i]
              /\ UNCHANGED <<ctx, state, status, sem>>
            BY <1>8, <2>2, <3>8 DEF CallTry, RoundRobin
        <3>10. \A q \in UserPorts \ {p} : last'[q] = last[q]
            BY <1>1, <3>9 DEF FieldsOK
        <3> QED
            BY <1>1, <2>2, <3>1, <3>7, <3>9, <3>10, FireWakes DEF Critical
    <2> QED
        BY <2>1, <2>2
<1>9. CASE CallUnlock(p)
    <2>1. CASE pc[p] = "try"
        BY <1>9, <2>1, GoToSleep
    <2>2. CASE pc[p] # "try"
        <3>1. quiet("return")
            BY <1>1, <1>9, <2>2 DEF CallUnlock, Busy, PortLabels
        <3> QED
            BY <1>2, <3>1
    <2> QED
        BY <2>1, <2>2
<1>10. CASE CallReturn(p)
    <2>1. quiet("idle")
        BY <1>1, <1>10 DEF CallReturn, Busy, PortLabels
    <2> QED
        BY <1>2, <2>1
<1>11. CASE Wait(p)
    <2>1. quiet("test")
        BY <1>1, <1>11 DEF Wait, Busy, PortLabels
    <2> QED
        BY <1>2, <2>1
<1>12. CASE Timeout(p)
    <2>1. quiet("unregister")
        BY <1>1, <1>12 DEF Timeout, Busy, PortLabels
    <2> QED
        BY <1>2, <2>1
<1>13. CASE Expire(p)
    <2>1. quiet("return")
        BY <1>1, <1>13 DEF Expire, Unregister, Busy, PortLabels
    <2> QED
        BY <1>2, <2>1
<1> QED
    BY <1>3, <1>4, <1>5, <1>6, <1>7, <1>8, <1>9, <1>10, <1>11, <1>12, <1>13 DEF ActionStep

\* The steps of the thread of an automaton.
LEMMA LoopWakes ==
    ASSUME CInv, CInv', AllAwake, NEW a \in Active, LoopStep(a), UNCHANGED userVars
    PROVE  AllAwake'
<1>1. /\ FieldsOK /\ ThreadsOK /\ a \in Main /\ a \in Threads /\ Home(a) = a /\ a \in Automata
      /\ a \notin UserPorts
      /\ cur \in [Threads -> Nat] /\ pc = [t \in Threads |-> pc[t]] /\ cur[a] \in Nat
      /\ pc[a] \in LoopLabels /\ (pc[a] = "loop_try" => cur[a] # 0)
      /\ sem \in [Automata \cup UserPorts -> 0 .. SemMax] /\ SemMax \in Nat \ {0}
      /\ sem' \in [Automata \cup UserPorts -> 0 .. SemMax]
      /\ Main \subseteq Threads /\ Main \subseteq Automata \cup UserPorts
    <2>1. a \in Main /\ a \in Threads /\ a \in Automata /\ a \notin UserPorts /\ Home(a) = a
        BY ThreadNames, AutomatonAssumption DEF Main, Home
    <2>2. pc[a] \in LoopLabels
        BY <2>1 DEF CInv, TypesOK, ThreadsOK, LabelsOf
    <2>3. sem' \in [Automata \cup UserPorts -> 0 .. SemMax]
        BY DEF CInv, TypesOK, FieldsOK
    <2> QED
        BY <2>1, <2>2, <2>3, ThreadNames, AutomatonAssumption
        DEF CInv, TypesOK, FieldsOK, ThreadsOK, Main
<1>2. FromState(a) \in Seq(Elements(FromState(a)))
    BY <1>1, CrewFacts
<1>3. Len(FromState(a)) \in Nat /\ DOMAIN FromState(a) = 1 .. Len(FromState(a))
    BY ONLY <1>2
<1>4. UNCHANGED <<last, calls, result>>
    BY DEF userVars
<1> USE DEF Goto, autVars, portFields, fifoVars, history
\* A step other than firing, after which the thread is not settled, or no more
\* than it was before.
<1> DEFINE calm == /\ UNCHANGED <<state, todo, status, ctx>>
                   /\ \A t \in Main \ {a} : pc'[t] = pc[t] /\ cur'[t] = cur[t] /\ sem'[t] = sem[t]
                   /\ \A r \in Elements(FromState(a)) :
                        Ready(r) => (Settled(a, r)' => Settled(a, r))
<1>5. ASSUME calm
      PROVE  AllAwake'
    <2>1. \A r \in Elements(FromState(a)) : Ready(r)' => Ready(r)
        BY <1>5 DEF Ready
    <2>2. \A r \in Elements(FromState(a)) : a \notin Ports(r)
        BY <1>1 DEF Ports
    <2>3. \A x : Signalled(x) => Signalled(x)'
        BY <1>5 DEF Signalled, Threads
    <2> QED
        BY <1>1, <1>4, <1>5, <2>1, <2>2, <2>3, WakeOwn
<1>6. ASSUME NEW l \in LoopLabels, pc' = [pc EXCEPT ![a] = l]
      PROVE  pc'[a] = l /\ \A t \in Main \ {a} : pc'[t] = pc[t]
    BY <1>1, <1>6
<1>7. ASSUME NEW r, pc'[a] \in LoopLabels \ {"loop_wait", "loop_check", "loop_unlock", "loop_try"}
      PROVE  ~Settled(a, r)'
    BY <1>7 DEF Settled, Passed, LoopLabels
<1>8. CASE LoopStart(a)
    <2>1. PICK l \in {"loop_lock", "ended"} : pc' = [pc EXCEPT ![a] = l]
        BY <1>8 DEF LoopStart
    <2>2. l \in LoopLabels
        BY <2>1 DEF LoopLabels
    <2>3. pc'[a] = l /\ \A t \in Main \ {a} : pc'[t] = pc[t]
        BY <1>6, <2>1, <2>2
    <2>4. \A r : ~Settled(a, r)'
        BY <1>7, <2>1, <2>2, <2>3
    <2>5. calm
        BY <1>8, <2>3, <2>4 DEF LoopStart
    <2> QED
        BY <1>5, <2>5
<1>9. CASE LoopLock(a)
    <2>1. pc'[a] = "loop_try" /\ \A t \in Main \ {a} : pc'[t] = pc[t]
        BY <1>6, <1>9 DEF LoopLock, LoopLabels
    <2>2. cur'[a] = 1 /\ \A t \in Main \ {a} : cur'[t] = cur[t] /\ sem'[t] = sem[t]
        BY <1>1, <1>9 DEF LoopLock
    <2>3. ASSUME NEW r
          PROVE  ~Settled(a, r)'
        <3>1. 1 .. cur'[a] - 1 = {}
            BY <2>2
        <3>2. ~Passed(a, r)'
            BY <2>1, <3>1 DEF Passed
        <3> QED
            BY <2>1, <3>2 DEF Settled
    <2>4. calm
        BY <1>9, <2>1, <2>2, <2>3 DEF LoopLock
    <2> QED
        BY <1>5, <2>4
<1>10. CASE LoopTry(a) /\ cur' # cur
    <2>1. /\ pc[a] = "loop_try" /\ pc' = [pc EXCEPT ![a] = "loop_try"]
          /\ cur' = [cur EXCEPT ![a] = @ + 1] /\ ~Ready(FromState(a)[cur[a]])
          /\ UNCHANGED <<state, todo, status, ctx, sem>>
        BY <1>10 DEF LoopTry
    <2>2. pc'[a] = "loop_try" /\ \A t \in Main \ {a} : pc'[t] = pc[t]
        BY <1>6, <2>1 DEF LoopLabels
    <2>3. cur'[a] = cur[a] + 1 /\ cur[a] # 0 /\ \A t \in Main \ {a} : cur'[t] = cur[t]
        BY <1>1, <2>1
    <2>4. ASSUME NEW r \in Elements(FromState(a)), Ready(r), Settled(a, r)'
          PROVE  Settled(a, r)
        <3>1. FromState(a)' = FromState(a)
            BY <2>1 DEF FromState
        <3>2. PICK n \in 1 .. cur'[a] - 1 : FromState(a)[n] = r
            BY <2>2, <2>4, <3>1 DEF Settled, Passed
        <3>3. n \in 1 .. cur[a] - 1
            <4>1. n # cur[a]
                BY <2>1, <2>4, <3>2
            <4> QED
                BY <1>1, <2>3, <3>2, <4>1
        <3> QED
            BY <2>1, <2>4, <3>2, <3>3 DEF Settled, Passed
    <2>5. calm
        BY <2>1, <2>2, <2>3, <2>4
    <2> QED
        BY <1>5, <2>5
<1>11. CASE LoopTry(a) /\ cur' = cur
    <2>1. cur[a] + 1 # cur[a] /\ a \in DOMAIN cur
        BY <1>1
    <2>2. /\ pc[a] = "loop_try" /\ todo[a] = <<>> /\ Fire(a, a, FromState(a)[cur[a]])
          /\ pc' = [pc EXCEPT ![a] = "loop_fired"] /\ cur[a] <= Len(FromState(a))
          /\ UNCHANGED <<ctx, state, status, sem>>
        BY <1>11, <2>1 DEF LoopTry
    <2>3. cur[a] \in 1 .. Len(FromState(a))
        BY <1>1, <1>3, <2>2
    <2>4. FromState(a)[cur[a]] \in Elements(FromState(a))
        BY <1>3, <2>3 DEF Elements
    <2> QED
        BY <1>1, <1>4, <1>11, <2>2, <2>4, FireWakes DEF Critical
<1>12. CASE LoopSignalSelf(a)
    <2>1. sem'[a] > 0 /\ \A t \in Main \ {a} : sem'[t] = sem[t]
        <3>1. sem[a] \in Nat /\ sem' = [sem EXCEPT ![a] = IF @ < SemMax THEN @ + 1 ELSE @]
            BY <1>1, <1>12 DEF LoopSignalSelf, Post
        <3>2. sem'[a] = IF sem[a] < SemMax THEN sem[a] + 1 ELSE sem[a]
            BY <1>1, <3>1
        <3>3. sem'[a] > 0
            BY <1>1, <3>1, <3>2
        <3> QED
            BY <1>1, <3>1, <3>3
    <2>2. \A t \in Main \ {a} : pc'[t] = pc[t]
        BY <1>6, <1>12 DEF LoopSignalSelf, LoopLabels
    <2>3. ASSUME NEW r
          PROVE  ~Settled(a, r)'
        BY <2>1 DEF Settled
    <2>4. calm
        BY <1>12, <2>1, <2>2, <2>3 DEF LoopSignalSelf
    <2> QED
        BY <1>5, <2>4
<1>13. CASE LoopUnlock(a)
    <2>1. pc'[a] = "loop_check" /\ \A t \in Main \ {a} : pc'[t] = pc[t]
        BY <1>6, <1>13 DEF LoopUnlock, LoopLabels
    <2>2. UNCHANGED <<state, todo, status, ctx, sem, cur>>
        BY <1>13 DEF LoopUnlock
    <2>3. ASSUME NEW r \in Elements(FromState(a)), Settled(a, r)'
          PROVE  Settled(a, r)
        <3>1. sem[a] = 0
            BY <2>2, <2>3 DEF Settled
        <3>2. CASE pc[a] = "loop_unlock"
            BY <3>1, <3>2 DEF Settled
        <3>3. CASE pc[a] = "loop_try" /\ cur[a] > Len(FromState(a))
            <4>1. PICK n \in 1 .. Len(FromState(a)) : FromState(a)[n] = r
                BY <1>3 DEF Elements
            <4>2. n \in 1 .. cur[a] - 1
                BY <1>1, <1>3, <3>3, <4>1
            <4> QED
                BY <3>1, <3>3, <4>1, <4>2 DEF Settled, Passed
        <3> QED
            BY <1>13, <3>2, <3>3 DEF LoopUnlock
    <2>4. calm
        BY <2>1, <2>2, <2>3
    <2> QED
        BY <1>5, <2>4
<1>14. CASE LoopCheck(a)
    <2>1. PICK l \in {"loop_wait", "ended"} : pc' = [pc EXCEPT ![a] = l]
        BY <1>14 DEF LoopCheck
    <2>2. pc'[a] = l /\ \A t \in Main \ {a} : pc'[t] = pc[t]
        BY <1>6, <2>1 DEF LoopLabels
    <2>3. pc[a] = "loop_check" /\ UNCHANGED <<state, todo, status, ctx, sem, cur>>
        BY <1>14 DEF LoopCheck
    <2>4. ASSUME NEW r, Settled(a, r)'
          PROVE  Settled(a, r)
        BY <2>3, <2>4 DEF Settled
    <2>5. calm
        BY <2>2, <2>3, <2>4
    <2> QED
        BY <1>5, <2>5
<1>15. CASE LoopWait(a)
    <2>1. pc'[a] = "loop_while" /\ \A t \in Main \ {a} : pc'[t] = pc[t]
        BY <1>6, <1>15 DEF LoopWait, LoopLabels
    <2>2. \A t \in Main \ {a} : sem'[t] = sem[t] /\ cur'[t] = cur[t]
        BY <1>1, <1>15 DEF LoopWait
    <2>3. \A r : ~Settled(a, r)'
        BY <1>7, <2>1 DEF LoopLabels
    <2>4. calm
        BY <1>15, <2>1, <2>2, <2>3 DEF LoopWait
    <2> QED
        BY <1>5, <2>4
<1> QED
    BY <1>8, <1>9, <1>10, <1>11, <1>12, <1>13, <1>14, <1>15 DEF LoopStep

\* Stopping an automaton takes no signal away.
LEMMA StopWakes ==
    ASSUME CInv, AllAwake, NEW a \in Stopped, StopAutomaton(a)
    PROVE  AllAwake'
<1>1. /\ FieldsOK /\ ThreadsOK /\ Stopper(a) \in Threads \ Main
      /\ pc = [t \in Threads |-> pc[t]] /\ todo = [t \in Threads |-> todo[t]]
      /\ sem \in [Automata \cup UserPorts -> 0 .. SemMax] /\ SemMax \in Nat
    BY ThreadNames, AutomatonAssumption DEF CInv, TypesOK, FieldsOK, ThreadsOK
<1> SUFFICES ASSUME NEW u, u = Stopper(a)
             PROVE  AllAwake'
    OBVIOUS
<1>2. /\ todo[u] = <<>> /\ \E l : pc' = [pc EXCEPT ![u] = l]
      /\ UNCHANGED <<state, ctx, sem, status, cur, last>>
      /\ todo' = todo \/ \E s : todo' = [todo EXCEPT ![u] = s]
    BY DEF StopAutomaton, Stop, Join, Goto, autVars, portFields, userVars
<1>3. ASSUME NEW x
      PROVE  Signalled(x) => Signalled(x)'
    <2>1. Elements(todo[u]) = {}
        BY <1>2, EmptySeq DEF Elements
    <2> SUFFICES ASSUME NEW t \in Threads, <<"signal", x>> \in Elements(todo[t])
                 PROVE  <<"signal", x>> \in Elements(todo'[t])
        BY DEF Signalled, Threads, Elements
    <2>2. t # u
        BY <2>1
    <2>3. todo'[t] = todo[t]
        BY <1>1, <1>2, <2>2
    <2> QED
        BY <2>3
<1> SUFFICES ASSUME NEW b \in Automata
             PROVE  WakeOK(b)'
    BY DEF AllAwake
<1>4. \A t \in Crew(b) : /\ pc'[t] = pc[t] /\ cur'[t] = cur[t] /\ sem'[t] >= sem[t]
                         /\ Signalled(t) => Signalled(t)' \/ sem'[t] > 0
    <2> SUFFICES ASSUME NEW t \in Crew(b)
                 PROVE  pc'[t] = pc[t] /\ sem'[t] >= sem[t]
        BY <1>2, <1>3
    <2>1. t \in Main /\ t \in Threads /\ t \in Automata \cup UserPorts
        BY <1>1, CrewFacts DEF Crew
    <2>2. sem[t] \in Nat /\ sem'[t] = sem[t]
        BY <1>1, <1>2, <2>1
    <2>3. PICK l : pc' = [pc EXCEPT ![u] = l]
        BY <1>2
    <2>4. pc'[t] = pc[t]
        BY <1>1, <2>1, <2>3
    <2> QED
        BY <2>2, <2>4
<1>5. \A q \in Elements(FromState(b)) : Ready(q)' => Ready(q)
    BY <1>2 DEF Ready
<1>6. /\ WakeOK(b) /\ state'[b] = state[b] /\ sem' \in [Automata \cup UserPorts -> 0 .. SemMax]
      /\ \A p \in Crew(b) \cap UserPorts : last'[p] = last[p] /\ status'[p] = status[p]
    BY <1>1, <1>2 DEF AllAwake
<1> QED
    BY <1>1, <1>4, <1>5, <1>6, WakeStays

\* Nor does cancelling an action.
LEMMA CancelWakes ==
    ASSUME CInv, CInv', AllAwake, NEW p \in Cancelled, Cancel(p)
    PROVE  AllAwake'
<1>1. /\ FieldsOK /\ ThreadsOK /\ p \in UserPorts /\ p \in Main /\ Home(p) = AutomatonOf(p)
      /\ Canceller(p) \in Threads \ Main
      /\ pc = [t \in Threads |-> pc[t]] /\ todo = [t \in Threads |-> todo[t]]
      /\ status = [q \in UserPorts |-> status[q]]
      /\ sem' \in [Automata \cup UserPorts -> 0 .. SemMax]
    <2>1. p \in UserPorts
        BY AutomatonAssumption
    <2>2. sem' \in [Automata \cup UserPorts -> 0 .. SemMax]
        BY DEF CInv, TypesOK, FieldsOK
    <2> QED
        BY <2>1, <2>2, ThreadNames, PortThread DEF CInv, TypesOK, FieldsOK, ThreadsOK
<1> SUFFICES ASSUME NEW u, u = Canceller(p)
             PROVE  AllAwake'
    OBVIOUS
<1>2. /\ todo[u] = <<>> /\ pc' = [pc EXCEPT ![u] = "idle"] /\ pc[u] = "idle"
      /\ todo' = [todo EXCEPT ![u] = <<<<"signal", p>>>>]
      /\ UNCHANGED <<state, sem, cur, last>>
      /\ \/ UNCHANGED <<ctx, status>>
         \/ ctx' = ctx \ {p} /\ status' = [status EXCEPT ![p] = "failed"]
    BY DEF Cancel, Unregister, Goto, userVars
<1>3. ASSUME NEW x
      PROVE  Signalled(x) => Signalled(x)'
    <2>1. Elements(todo[u]) = {}
        BY <1>2, EmptySeq DEF Elements
    <2> SUFFICES ASSUME NEW t \in Threads, <<"signal", x>> \in Elements(todo[t])
                 PROVE  <<"signal", x>> \in Elements(todo'[t])
        BY DEF Signalled, Threads, Elements
    <2>2. t # u
        BY <2>1
    <2>3. todo'[t] = todo[t]
        BY <1>1, <1>2, <2>2
    <2> QED
        BY <2>3
<1>4. \A t \in Main : pc'[t] = pc[t] /\ cur'[t] = cur[t] /\ sem'[t] = sem[t]
    BY <1>1, <1>2, ThreadNames
<1>5. ASSUME NEW r \in Elements(FromState(AutomatonOf(p))), p \in Ports(r) \cup {AutomatonOf(p)}, Ready(r)'
      PROVE  \/ p \in Ports(r) /\ WillTry(p, r)'
             \/ /\ Ready(r) /\ (Settled(p, r)' => Settled(p, r))
                /\ ~(p \in Ports(r) /\ WillTry(p, r))
    <2>1. p \in Ports(r) /\ p \in Elements(r.ports) /\ p \in ctx'
        BY <1>1, <1>5, PortThread, EndNames DEF Ports, Ready
    <2>2. UNCHANGED <<ctx, status>>
        BY <1>2, <2>1
    <2>3. p \in Crew(AutomatonOf(p)) /\ AutomatonOf(p) \in Automata
        BY <1>1, PortsInAutomata DEF Crew, Party
    <2>4. Passed(p, r)' <=> Passed(p, r)
        BY <1>1, <1>2, <1>4, <2>3, PassedStays
    <2>5. pc'[p] = pc[p] /\ sem'[p] = sem[p] /\ status'[p] = status[p]
        BY <1>1, <1>4, <2>2
    <2> QED
        BY <1>5, <2>1, <2>2, <2>4, <2>5 DEF Ready, Settled, WillTry
<1>6. /\ \A q \in UserPorts \ {p} : last'[q] = last[q] /\ status'[q] = status[q]
      /\ \A x \in UserPorts \cup Ends : x # p => (x \in ctx' => x \in ctx)
    BY <1>1, <1>2
<1> QED
    BY <1>1, <1>2, <1>3, <1>4, <1>5, <1>6, WakeOwn

LEMMA AwakeAtFirst == Init => AllAwake
<1> SUFFICES ASSUME Init, NEW a \in Automata, NEW r \in Elements(FromState(a)),
                    NEW t \in Ports(r) \cup ({a} \cap Active)
             PROVE  ~Settled(t, r)
    BY DEF AllAwake, WakeOK, AwakeFor
<1>1. pc = [u \in Threads |-> IF u \in Active THEN "loop_while" ELSE "idle"]
    BY DEF Init
<1>2. t \in Threads
    BY DEF Ports, Threads
<1>3. pc[t] \in {"loop_while", "idle"}
    BY <1>1, <1>2
<1> QED
    BY <1>3 DEF Settled, Passed

LEMMA StaysAwake ==
    ASSUME LoneCancels, CInv, CInv', AllAwake, [Next]_vars
    PROVE  AllAwake'
<1>1. ASSUME NEW t \in Threads, RunCalls(t)
      PROVE  AllAwake'
    BY <1>1, CallStepWakes DEF CInv, TypesOK
<1>2. ASSUME NEW p \in UserPorts, Begin(p) \/ ActionStep(p)
      PROVE  AllAwake'
    BY <1>2, PortWakes
<1>3. ASSUME NEW a \in Active, RunLoop(a)
      PROVE  AllAwake'
    BY <1>3, LoopWakes DEF RunLoop
<1>4. ASSUME NEW a \in Stopped, StopAutomaton(a)
      PROVE  AllAwake'
    BY <1>4, StopWakes
<1>5. CASE UNCHANGED vars
    <2>1. /\ UNCHANGED <<pc, cur, last, sem, state, status, ctx, todo>> /\ FieldsOK /\ ThreadsOK
          /\ sem' \in [Automata \cup UserPorts -> 0 .. SemMax]
        BY <1>5 DEF vars, CInv, TypesOK, FieldsOK
    <2> SUFFICES ASSUME NEW b \in Automata
                 PROVE  WakeOK(b)'
        BY DEF AllAwake
    <2>2. \A t \in Crew(b) : /\ pc'[t] = pc[t] /\ cur'[t] = cur[t] /\ sem'[t] >= sem[t]
                             /\ Signalled(t) => Signalled(t)' \/ sem'[t] > 0
        <3> SUFFICES ASSUME NEW t \in Crew(b)
                     PROVE  sem'[t] >= sem[t] /\ (Signalled(t) => Signalled(t)')
            BY <2>1
        <3>1. sem[t] \in Nat
            BY <2>1, AutomatonAssumption DEF FieldsOK, Crew
        <3>2. Signalled(t) => Signalled(t)'
            BY <2>1 DEF Signalled, Threads
        <3> QED
            BY <2>1, <3>1, <3>2
    <2>3. \A q \in Elements(FromState(b)) : Ready(q)' => Ready(q)
        BY <2>1 DEF Ready
    <2>4. WakeOK(b) /\ state'[b] = state[b]
        BY <2>1 DEF AllAwake
    <2>5. \A p \in Crew(b) \cap UserPorts : last'[p] = last[p] /\ status'[p] = status[p]
        BY <2>1
    <2> QED
        BY <2>1, <2>2, <2>3, <2>4, <2>5, WakeStays
<1> QED
    BY <1>1, <1>2, <1>3, <1>4, <1>5, CancelWakes DEF Next

\* No wakeup is lost, when an action that may be cancelled needs no other thread:
\* while a transition can fire, a thread that sleeps is or will be signalled, or
\* another is about to try the transition (REOAutomaton_kick, and the drain of the
\* semaphores in REOPort_call and REOAutomaton_loop).
THEOREM WakeupsKept ==
    ASSUME LoneCancels
    PROVE  Spec => []NoLostKick
<1>1. AllAwake => NoLostKick
    <2> SUFFICES ASSUME AllAwake, NEW a \in Automata, NEW r \in Elements(FromState(a)), Ready(r),
                        NEW t \in (Elements(r.ports) \cap UserPorts) \cup ({a} \cap Active), Sleeping(t)
                 PROVE  Signalled(t) \/ Trying(a, r)
        BY DEF NoLostKick
    <2>1. Settled(t, r)
        BY DEF Sleeping, Settled
    <2>2. Signalled(t) \/ \E q \in Ports(r) : WillTry(q, r)
        BY <2>1 DEF AllAwake, WakeOK, AwakeFor, Ports
    <2>3. ASSUME NEW q \in Ports(r), WillTry(q, r)
          PROVE  Trying(a, r)
        BY <2>3 DEF Ports, WillTry, Trying
    <2> QED
        BY <2>2, <2>3
<1> QED
    BY <1>1, AwakeAtFirst, StaysAwake, CInvariance, PTL DEF Spec
=============================================================================
