------------------------- MODULE CRefinementProof --------------------------
(***************************************************************************)
(* The C runtime implements Circuit: every step of every thread is, in the *)
(* view of the components, the start or the end of an action, a timeout,   *)
(* one transition of one automaton, or no step at all.  A transition is    *)
(* seen at the moment a thread that holds the mutex of its automaton finds *)
(* its ports ready; the calls that follow are seen as done already.  The   *)
(* invariant says that each of them will do what is seen, and that nobody  *)
(* can come in between who would see otherwise.                            *)
(***************************************************************************)
EXTENDS CPortProof

StepsView == [a \in Automata |-> [s \in States |-> {AsStep(r) : r \in Elements(Transitions[a][s])}]]
ModeView == [a \in Automata |-> Mode(a)]
QueueView == [f \in Fifos |-> Queue(f)]
DatumView == [p \in UserPorts |-> Datum(p)]
RequestView == [p \in UserPorts \ Cancelled |-> Request(p)]
AnswerView == [p \in UserPorts \ Cancelled |-> result[p]]

\* The calls that are seen as done before they are made.
Foreseen == {"state", "set", "pop", "push"}

\* The calls to come agree about what they bring.
OneValue == \A kind \in {"state", "set", "push"} : \A x :
    \A c, e \in Coming(kind, x) : c[3] = e[3]
TimedOnly == \A p \in UserPorts : pc[p] = "unregister" => p \in TimedPorts
SeenInv == CInv /\ OneValue /\ TimedOnly

-----------------------------------------------------------------------------
(* The calls to come                                                       *)

LEMMA ComingAre ==
    \A kind, x, c : c \in Coming(kind, x) <=>
        /\ \E t \in Threads : c \in Ops(t)
        /\ c[1] = kind /\ c[2] = x
BY DEF Coming, Ops

LEMMA ComingHas ==
    \A kind, x : Coming(kind, x) # {} <=> \E t \in Threads : Has(t, kind, x)
BY ComingAre DEF Has

LEMMA ComesIs ==
    /\ \A kind, x : Comes(kind, x) <=> Coming(kind, x) # {}
    /\ \A kind, x : Comes(kind, x)' <=> Coming(kind, x)' # {}
<1>1. \A kind, x : Comes(kind, x) <=> Coming(kind, x) # {}
    BY DEF Comes, Coming, Elements
<1>2. \A kind, x : Comes(kind, x)' <=> Coming(kind, x)' # {}
    BY DEF Comes, Coming, Elements
<1> QED
    BY <1>1, <1>2

LEMMA DueIs ==
    /\ \A kind, x, now : Coming(kind, x) = {} => Due(kind, x, now) = now
    /\ \A kind, x, now, d : Coming(kind, x) # {} /\ (\A e \in Coming(kind, x) : e[3] = d) =>
          Due(kind, x, now) = d
BY ComesIs DEF Due

\* Who has a call of a transition to make, makes it for its own automaton.
LEMMA ComingOwned ==
    ASSUME ThreadsOK, ControlOK, NEW kind \in Foreseen, NEW x, NEW c \in Coming(kind, x)
    PROVE  /\ c \in Calls
           /\ \E t \in Main : c \in Ops(t) /\ todo[t] # <<>> /\ Critical(t) /\ Owns(t, c)
<1>1. PICK t \in Threads : c \in Ops(t)
    BY ComingAre
<1>2. c[1] = kind /\ c[1] # "signal"
    BY ComingAre DEF Foreseen
<1>3. t \in Main /\ Owns(t, c) /\ todo[t] # <<>>
    BY <1>1, <1>2, HasSome DEF ControlOK, WorkOK, Has
<1>4. Critical(t)
    BY <1>3, ThreadNames DEF ControlOK, WorkOK, Critical
<1>5. c \in Calls
    BY <1>1, SequenceElement DEF ThreadsOK, Ops
<1> QED
    BY <1>1, <1>3, <1>4, <1>5

\* While a thread holds the mutex and makes no calls, nothing is foreseen of its
\* automaton.
LEMMA NothingComing ==
    ASSUME ThreadsOK, ControlOK, NEW t \in Main, Critical(t), todo[t] = <<>>
    PROVE  /\ Coming("state", Home(t)) = {}
           /\ \A p : AutomatonOf(p) = Home(t) => Coming("set", p) = {}
           /\ \A f : AutomatonOf(InEnd(f)) = Home(t) => Coming("push", f) = {}
           /\ \A f : AutomatonOf(OutEnd(f)) = Home(t) => Coming("pop", f) = {}
<1>1. ASSUME NEW kind \in Foreseen, NEW x, NEW c \in Coming(kind, x)
      PROVE  \E u \in Main : Owns(u, c) /\ Home(u) # Home(t)
    BY NobodyElse, ComingOwned
<1>2. \A kind, x : \A c \in Coming(kind, x) : c[1] = kind /\ c[2] = x
    BY ComingAre
<1> QED
    BY <1>1, <1>2 DEF Owns, Foreseen

-----------------------------------------------------------------------------
(* One call is made                                                        *)

LEMMA CallComes ==
    ASSUME ThreadsOK, ControlOK, NEW t \in Threads, todo[t] # <<>>, NEW cs \in Seq(Calls),
           Then(t, cs), \A c \in Elements(cs) : c[1] \notin Foreseen, NEW kind \in Foreseen
    PROVE  /\ \A x : Coming(kind, x)' \subseteq Coming(kind, x)
           /\ \A x : ~(Head(todo[t])[1] = kind /\ Head(todo[t])[2] = x) =>
                Coming(kind, x)' = Coming(kind, x)
           /\ \A x : Head(todo[t])[1] = kind /\ Head(todo[t])[2] = x =>
                /\ Head(todo[t]) \in Coming(kind, x)
                /\ kind \in {"push", "pop"} => Coming(kind, x)' = {}
<1>1. /\ \A u \in Threads : u # t => Ops(u)' = Ops(u)
      /\ Ops(t)' = Elements(cs) \cup Elements(Tail(todo[t]))
      /\ Ops(t) = {Head(todo[t])} \cup Elements(Tail(todo[t]))
    BY ThenFacts
<1>2. \A x, c : c \in Coming(kind, x)' <=> /\ \E u \in Threads : c \in Ops(u)'
                                           /\ c[1] = kind /\ c[2] = x
    BY DEF Coming, Ops
<1>3. \A x, c : c \in Coming(kind, x)' => c \in Coming(kind, x)
    BY <1>1, <1>2, ComingAre
<1>4. \A x, c : c \in Coming(kind, x) /\ c # Head(todo[t]) => c \in Coming(kind, x)'
    BY <1>1, <1>2, ComingAre
<1>5. ASSUME NEW x, ~(Head(todo[t])[1] = kind /\ Head(todo[t])[2] = x)
      PROVE  Coming(kind, x)' = Coming(kind, x)
    <2>1. \A c \in Coming(kind, x) : c # Head(todo[t])
        BY <1>5, ComingAre
    <2>2. \A c : c \in Coming(kind, x)' <=> c \in Coming(kind, x)
        BY <1>3, <1>4, <2>1
    <2>3. Coming(kind, x)' \subseteq Coming(kind, x) /\ Coming(kind, x) \subseteq Coming(kind, x)'
        BY <2>2
    <2> QED
        BY <2>3
<1>6. ASSUME NEW x, Head(todo[t])[1] = kind, Head(todo[t])[2] = x
      PROVE  Head(todo[t]) \in Coming(kind, x)
    BY <1>1, <1>6, ComingAre
<1>7. ASSUME NEW x, kind \in {"push", "pop"}, Head(todo[t])[1] = kind, Head(todo[t])[2] = x
      PROVE  Coming(kind, x)' = {}
    <2>1. Has(t, kind, x)
        BY <1>1, <1>7 DEF Has
    <2>2. \A c \in Elements(cs) : c[1] # kind /\ c[1] # "set"
        BY DEF Foreseen
    <2>4. ~Has(t, kind, x)'
        BY <1>7, <2>2, HasGone
    <2>5. \A u \in Threads : Has(u, kind, x) => u = t
        BY <1>7, <2>1, Alone
    <2>3. \A u \in Threads : ~Has(u, kind, x)'
        BY <1>1, <2>4, <2>5 DEF Has
    <2> QED
        BY <1>2, <2>3 DEF Has
<1> QED
    BY <1>3, <1>5, <1>6, <1>7

-----------------------------------------------------------------------------
(* What is in the queues                                                   *)

RestOK == \A f \in Fifos :
    /\ Contents(f) \in Seq(Data) /\ Rest(f) \in Seq(Data) /\ entered[f] = left[f] \o Rest(f)
    /\ left[f] \in Seq(Data) /\ entered[f] \in Seq(Data)
    /\ Len(Rest(f)) <= Len(Contents(f))
    /\ Coming("pop", f) # {} => Contents(f) # <<>>

LEMMA RestFacts == CInv => RestOK
<1> SUFFICES ASSUME CInv, NEW f \in Fifos
             PROVE  /\ Contents(f) \in Seq(Data) /\ Rest(f) \in Seq(Data)
                    /\ entered[f] = left[f] \o Rest(f)
                    /\ left[f] \in Seq(Data) /\ entered[f] \in Seq(Data)
                    /\ Len(Rest(f)) <= Len(Contents(f))
                    /\ Coming("pop", f) # {} => Contents(f) # <<>>
    BY DEF RestOK
<1>1. /\ Contents(f) \in Seq(Data) /\ left[f] \in Seq(Data) /\ entered[f] \in Seq(Data)
      /\ Rest(f) = IF \E t \in Threads : Has(t, "pop", f) THEN Tail(Contents(f)) ELSE Contents(f)
      /\ entered[f] = left[f] \o Rest(f)
    BY ComingHas, ComesIs DEF Rest, CInv, RingsOK, ContentsOK, TypesOK, FifosOK
<1>2. CASE Coming("pop", f) = {}
    <2>1. Rest(f) = Contents(f) /\ Len(Contents(f)) \in Nat
        BY <1>1, <1>2, ComesIs DEF Rest
    <2> QED
        BY <1>1, <1>2, <2>1
<1>3. CASE Coming("pop", f) # {}
    <2>1. ~IsEmpty(f)
        BY <1>3, ComingHas DEF CInv, RingsOK, StockOK
    <2>2. Contents(f) # <<>>
        BY <1>1, <2>1, NotEmpty DEF CInv, TypesOK
    <2>3. Rest(f) = Tail(Contents(f)) /\ Len(Rest(f)) = Len(Contents(f)) - 1
          /\ Rest(f) \in Seq(Data) /\ Len(Contents(f)) \in Nat
        BY <1>1, <1>3, <2>2, TailFacts, ComesIs DEF Rest
    <2> QED
        BY <1>1, <2>2, <2>3
<1> QED
    BY <1>2, <1>3

\* What is left in a fifo is told by what has been put in and taken out.
LEMMA RestStays ==
    ASSUME CInv, CInv', NEW f \in Fifos, entered'[f] = entered[f], left'[f] = left[f]
    PROVE  Rest(f)' = Rest(f)
<1>1. RestOK /\ RestOK'
    BY RestFacts, PTL
<1> DEFINE s == left[f]
           t == Rest(f)
           v == Rest(f)'
<1>2. s \in Seq(Data) /\ t \in Seq(Data) /\ v \in Seq(Data) /\ s \o t = s \o v
    BY <1>1 DEF RestOK
<1> HIDE DEF s, t, v
<1>3. t = v
    BY <1>2, ConcatSimplifications
<1> QED
    BY <1>3 DEF t, v

LEMMA RestGrows ==
    ASSUME CInv, CInv', NEW f \in Fifos, NEW d \in Data,
           entered'[f] = Append(entered[f], d), left'[f] = left[f]
    PROVE  Rest(f)' = Rest(f) \o <<d>>
<1>1. RestOK /\ RestOK'
    BY RestFacts, PTL
<1> DEFINE s == left[f]
           t == Rest(f)
           v == Rest(f)'
<1>2. s \in Seq(Data) /\ t \in Seq(Data) /\ v \in Seq(Data) /\ Append(s \o t, d) = s \o v
    BY <1>1 DEF RestOK
<1> HIDE DEF s, t, v
<1>3. <<d>> \in Seq(Data) /\ t \o <<d>> \in Seq(Data) /\ s \o t \in Seq(Data)
    BY <1>2, ConcatProperties
<1>4. Append(s \o t, d) = (s \o t) \o <<d>>
    BY <1>3, AppendIsConcat
<1>5. (s \o t) \o <<d>> = s \o (t \o <<d>>)
    BY <1>2, <1>3, ConcatAssociative
<1>6. v = t \o <<d>>
    BY <1>2, <1>3, <1>4, <1>5, ConcatSimplifications
<1> QED
    BY <1>6 DEF t, v

-----------------------------------------------------------------------------
(* Nobody sees a call                                                      *)

\* What a call leaves to do is never one that is foreseen.
LEMMA CallForm ==
    ASSUME CInv, NEW t \in Threads, CallStep(t)
    PROVE  /\ todo[t] # <<>> /\ Head(todo[t]) \in Calls /\ Head(todo[t]) \in Ops(t)
           /\ \E cs \in Seq(Calls) : Then(t, cs) /\ \A c \in Elements(cs) : c[1] \notin Foreseen
<1>1. todo[t] # <<>>
    BY DEF CallStep, Signal, SetData, ResolveStatus, RemoveFromContext, SetState, Push, Pop,
           UpdateInput, UpdateOutput, UnlockFifo, NextCall
<1>2. Head(todo[t]) \in Calls /\ Head(todo[t]) \in Ops(t)
    BY <1>1, TailFacts DEF CInv, TypesOK, ThreadsOK, Ops
<1> SUFFICES ASSUME NEW x, x = Arg(t, 2)
             PROVE  \E cs \in Seq(Calls) : Then(t, cs) /\ \A c \in Elements(cs) : c[1] \notin Foreseen
    BY <1>1, <1>2
<1>3. <<>> \in Seq(Calls) /\ Elements(<<>>) = {}
    BY DEF Elements
<1>4. ASSUME NEW kind \in {"update", "update_output", "unlock"}, x \in Fifos
      PROVE  /\ <<<<kind, x>>>> \in Seq(Calls)
             /\ Elements(<<<<kind, x>>>>) = {<<kind, x>>} /\ kind \notin Foreseen
    <2>1. <<kind, x>> \in Calls
        BY <1>4 DEF Calls
    <2> QED
        BY <2>1 DEF Elements, Foreseen
<1>5. ASSUME NEW kind \in {"update", "update_output", "unlock"}, NEW a \in Automata, x \in Fifos
      PROVE  /\ Kick(a) \o <<<<kind, x>>>> \in Seq(Calls)
             /\ \A c \in Elements(Kick(a) \o <<<<kind, x>>>>) : c[1] \notin Foreseen
    <2> DEFINE w == <<<<kind, x>>>>
    <2>1. w \in Seq(Calls) /\ \A c \in Elements(w) : c[1] \notin Foreseen
        BY <1>4, <1>5
    <2>2. Kick(a) \in Seq(Calls) /\ \A c \in Elements(Kick(a)) : c[1] \notin Foreseen
        BY KickFacts DEF Foreseen
    <2> HIDE DEF w
    <2>3. Kick(a) \o w \in Seq(Calls) /\ Elements(Kick(a) \o w) = Elements(Kick(a)) \cup Elements(w)
        BY <2>1, <2>2, ConcatFacts
    <2>4. \A c \in Elements(Kick(a) \o w) : c[1] \notin Foreseen
        BY <2>1, <2>2, <2>3
    <2> QED
        BY <2>3, <2>4 DEF w
<1>6. CASE Signal(t) \/ SetData(t) \/ RemoveFromContext(t) \/ SetState(t) \/ UnlockFifo(t)
    <2>1. Then(t, <<>>)
        BY <1>6 DEF Signal, SetData, RemoveFromContext, SetState, UnlockFifo
    <2> QED
        BY <1>3, <2>1
<1>7. CASE ResolveStatus(t)
    <2> DEFINE cs == <<<<"remove", x>>, <<"signal", x>>>>
    <2>1. Then(t, cs) /\ Head(todo[t])[1] = "status" /\ Head(todo[t])[2] = x
        BY <1>7 DEF ResolveStatus, NextCall, Arg
    <2>2. x \in UserPorts
        BY <1>2, <2>1, CallShape
    <2>3. <<"remove", x>> \in Calls /\ <<"signal", x>> \in Calls
        BY <2>2 DEF Calls, Objects
    <2>4. cs \in Seq(Calls) /\ DOMAIN cs = {1, 2}
        BY <2>3
    <2>5. \A c \in Elements(cs) : c[1] \notin Foreseen
        BY <2>4 DEF Elements, Foreseen
    <2> QED
        BY <2>1, <2>4, <2>5
<1>8. CASE Push(t) \/ Pop(t)
    <2>1. /\ Then(t, <<>>) \/ Then(t, <<<<"update", x>>>>)
          /\ Head(todo[t])[1] \in {"push", "pop"} /\ Head(todo[t])[2] = x
        BY <1>8 DEF Push, Pop, NextCall, Arg
    <2>2. x \in Fifos
        BY <1>2, <2>1, CallShape
    <2>3. /\ <<<<"update", x>>>> \in Seq(Calls)
          /\ \A c \in Elements(<<<<"update", x>>>>) : c[1] \notin Foreseen
        BY <1>4, <2>2
    <2> QED
        BY <1>3, <2>1, <2>3
<1>9. CASE UpdateInput(t) \/ UpdateOutput(t)
    <2>1. Head(todo[t])[1] \in {"update", "update_output"} /\ Head(todo[t])[2] = x
        BY <1>9 DEF UpdateInput, UpdateOutput, NextCall, Arg
    <2>2. x \in Fifos
        BY <1>2, <2>1, CallShape
    <2>3. AutomatonOf(InEnd(x)) \in Automata /\ AutomatonOf(OutEnd(x)) \in Automata
        BY <2>2, PortsInAutomata, EndNames
    <2>4. PICK kind \in {"update_output", "unlock"} :
            \/ Then(t, <<<<kind, x>>>>)
            \/ \E a \in Automata : Then(t, Kick(a) \o <<<<kind, x>>>>)
        BY <1>9, <2>3 DEF UpdateInput, UpdateOutput
    <2>5. CASE Then(t, <<<<kind, x>>>>)
        <3>1. <<<<kind, x>>>> \in Seq(Calls) /\ \A c \in Elements(<<<<kind, x>>>>) : c[1] \notin Foreseen
            BY <1>4, <2>2
        <3> QED
            BY <2>5, <3>1
    <2>6. ASSUME NEW a \in Automata, Then(t, Kick(a) \o <<<<kind, x>>>>)
          PROVE  \E cs \in Seq(Calls) : Then(t, cs) /\ \A c \in Elements(cs) : c[1] \notin Foreseen
        <3>1. /\ Kick(a) \o <<<<kind, x>>>> \in Seq(Calls)
              /\ \A c \in Elements(Kick(a) \o <<<<kind, x>>>>) : c[1] \notin Foreseen
            BY <1>5, <2>2
        <3> QED
            BY <2>6, <3>1
    <2> QED
        BY <2>4, <2>5, <2>6
<1> QED
    BY <1>6, <1>7, <1>8, <1>9 DEF CallStep

\* The status of a request is seen as soon as its transition has fired.
LEMMA RequestsStay ==
    ASSUME CInv, NEW t \in Threads, RunCalls(t)
    PROVE  RequestView' = RequestView /\ AnswerView' = AnswerView
<1>1. UNCHANGED <<pc, fired, result>>
    BY DEF RunCalls, CallStep, Signal, SetData, ResolveStatus, RemoveFromContext, SetState, Push,
           Pop, UpdateInput, UpdateOutput, UnlockFifo, history, userVars
<1>2. ASSUME NEW p \in UserPorts \ Cancelled
      PROVE  Request(p)' = Request(p)
    <2>1. CASE status' = status
        BY <1>1, <2>1 DEF Request
    <2>2. CASE status' # status
        <3>1. NextCall(t, "status") /\ status' = [status EXCEPT ![Arg(t, 2)] = "success"]
            BY <2>2 DEF RunCalls, CallStep, Signal, SetData, ResolveStatus, RemoveFromContext,
                        SetState, Push, Pop, UpdateInput, UpdateOutput, UnlockFifo, portFields
        <3>2. CASE p = Arg(t, 2)
            <4>1. Has(t, "status", p) /\ t \in Main
                BY <3>1, <3>2, CallerFacts DEF Has, Arg, CInv, TypesOK
            <4>2. pc[p] # "idle" /\ status[p] = "pending" /\ fired[p] = 1
                BY <4>1 DEF CInv, PortsOK, PortOK, Served
            <4>3. status'[p] = "success"
                BY <3>1, <3>2 DEF CInv, TypesOK, FieldsOK
            <4> QED
                BY <1>1, <4>2, <4>3 DEF Request
        <3>3. CASE p # Arg(t, 2)
            BY <1>1, <3>1, <3>3 DEF Request, CInv, TypesOK, FieldsOK
        <3> QED
            BY <3>2, <3>3
    <2> QED
        BY <2>1, <2>2
<1> QED
    BY <1>1, <1>2 DEF RequestView, AnswerView

\* What is foreseen is seen as long as the calls to come are the same.
LEMMA ModeStays ==
    ASSUME OneValue, NEW a \in Automata, Coming("state", a)' = Coming("state", a), state'[a] = state[a]
    PROVE  Mode(a)' = Mode(a)
<1>1. CASE Coming("state", a) = {}
    BY <1>1, ComesIs DEF Mode, Due
<1>2. ASSUME NEW e \in Coming("state", a)
      PROVE  Mode(a)' = Mode(a)
    <2>1. \A g \in Coming("state", a) : g[3] = e[3]
        BY <1>2 DEF OneValue
    <2>2. Mode(a) = e[3]
        BY <1>2, <2>1, ComesIs DEF Mode, Due
    <2>3. Mode(a)' = e[3]
        BY <1>2, <2>1, ComesIs DEF Mode, Due
    <2> QED
        BY <2>2, <2>3
<1> QED
    BY <1>1, <1>2

LEMMA DatumStays ==
    ASSUME OneValue, NEW p \in UserPorts, Coming("set", p)' = Coming("set", p), data'[p] = data[p]
    PROVE  Datum(p)' = Datum(p)
<1>1. CASE Coming("set", p) = {}
    BY <1>1, ComesIs DEF Datum, Due
<1>2. ASSUME NEW e \in Coming("set", p)
      PROVE  Datum(p)' = Datum(p)
    <2>1. \A g \in Coming("set", p) : g[3] = e[3]
        BY <1>2 DEF OneValue
    <2>2. Datum(p) = e[3]
        BY <1>2, <2>1, ComesIs DEF Datum, Due
    <2>3. Datum(p)' = e[3]
        BY <1>2, <2>1, ComesIs DEF Datum, Due
    <2> QED
        BY <2>2, <2>3
<1> QED
    BY <1>1, <1>2

LEMMA OneQueueStays ==
    ASSUME OneValue, NEW f \in Fifos, Coming("push", f)' = Coming("push", f), Rest(f)' = Rest(f)
    PROVE  Queue(f)' = Queue(f)
<1>1. CASE Coming("push", f) = {}
    BY <1>1, ComesIs DEF Queue, Due
<1>2. ASSUME NEW e \in Coming("push", f)
      PROVE  Queue(f)' = Queue(f)
    <2>1. \A g \in Coming("push", f) : g[3] = e[3]
        BY <1>2 DEF OneValue
    <2>2. Queue(f) = Rest(f) \o <<e[3]>>
        BY <1>2, <2>1, ComesIs DEF Queue, Due
    <2>3. Queue(f)' = Rest(f)' \o <<e[3]>>
        BY <1>2, <2>1, ComesIs DEF Queue, Due
    <2> QED
        BY <2>2, <2>3
<1> QED
    BY <1>1, <1>2

LEMMA QueueStays ==
    ASSUME CInv, CInv', OneValue, UNCHANGED <<entered, left>>,
           \A f : Coming("push", f)' = Coming("push", f)
    PROVE  QueueView' = QueueView
<1>1. ASSUME NEW f \in Fifos
      PROVE  Queue(f)' = Queue(f)
    <2>1. Rest(f)' = Rest(f)
        BY RestStays
    <2> QED
        BY <2>1, OneQueueStays
<1> QED
    BY <1>1 DEF QueueView

LEMMA CallSeen ==
    ASSUME SeenInv, CInv', NEW t \in Threads, RunCalls(t)
    PROVE  UNCHANGED Promised!vars /\ OneValue'
<1> DEFINE c == Head(todo[t])
<1>1. CInv /\ ThreadsOK /\ ControlOK /\ CallStep(t) /\ OneValue
    BY DEF SeenInv, CInv, TypesOK, RunCalls
<1>2. todo[t] # <<>> /\ c \in Calls /\ c \in Ops(t)
    BY <1>1, CallForm
<1>3. PICK cs \in Seq(Calls) : Then(t, cs) /\ \A e \in Elements(cs) : e[1] \notin Foreseen
    BY <1>1, CallForm
<1>4. ASSUME NEW kind \in Foreseen
      PROVE  /\ \A x : Coming(kind, x)' \subseteq Coming(kind, x)
             /\ \A x : ~(c[1] = kind /\ c[2] = x) => Coming(kind, x)' = Coming(kind, x)
             /\ \A x : c[1] = kind /\ c[2] = x =>
                  c \in Coming(kind, x) /\ (kind \in {"push", "pop"} => Coming(kind, x)' = {})
    BY <1>1, <1>2, <1>3, CallComes
<1>5. RequestView' = RequestView /\ AnswerView' = AnswerView
    BY <1>1, RequestsStay
<1>6. OneValue'
    BY <1>1, <1>4 DEF OneValue, Foreseen
<1> HIDE DEF c
<1>7. ModeView' = ModeView
    <2>1. ASSUME NEW a \in Automata
          PROVE  Mode(a)' = Mode(a)
        <3>1. CASE c[1] = "state" /\ c[2] = a
            <4>1. state' = [state EXCEPT ![a] = c[3]]
                BY <1>1, <3>1 DEF CallStep, Signal, SetData, ResolveStatus, RemoveFromContext,
                    SetState, Push, Pop, UpdateInput, UpdateOutput, UnlockFifo, NextCall, Arg, c
            <4>2. state'[a] = c[3]
                BY <1>1, <4>1 DEF CInv, TypesOK, FieldsOK
            <4>3. c \in Coming("state", a) /\ Coming("state", a)' \subseteq Coming("state", a)
                BY <1>4, <3>1 DEF Foreseen
            <4>4. \A e \in Coming("state", a) : e[3] = c[3]
                BY <1>1, <4>3 DEF OneValue
            <4>5. Mode(a) = c[3]
                BY <4>3, <4>4, ComesIs DEF Mode, Due
            <4>6. Mode(a)' = c[3]
                BY <4>2, <4>3, <4>4, ComesIs DEF Mode, Due
            <4> QED
                BY <4>5, <4>6
        <3>2. CASE ~(c[1] = "state" /\ c[2] = a)
            <4>1. Coming("state", a)' = Coming("state", a)
                BY <1>4, <3>2 DEF Foreseen
            <4>2. state'[a] = state[a]
                BY <1>1, <3>2 DEF CallStep, Signal, SetData, ResolveStatus, RemoveFromContext,
                    SetState, Push, Pop, UpdateInput, UpdateOutput, UnlockFifo, NextCall, Arg, c,
                    autVars, CInv, TypesOK, FieldsOK
            <4> QED
                BY <1>1, <4>1, <4>2, ModeStays
        <3> QED
            BY <3>1, <3>2
    <2> QED
        BY <2>1 DEF ModeView
<1>8. DatumView' = DatumView
    <2>1. ASSUME NEW p \in UserPorts
          PROVE  Datum(p)' = Datum(p)
        <3>1. CASE c[1] = "set" /\ c[2] = p
            <4>1. data' = [data EXCEPT ![p] = c[3]]
                BY <1>1, <3>1 DEF CallStep, Signal, SetData, ResolveStatus, RemoveFromContext,
                    SetState, Push, Pop, UpdateInput, UpdateOutput, UnlockFifo, NextCall, Arg, c
            <4>2. data'[p] = c[3]
                BY <1>1, <4>1 DEF CInv, TypesOK, FieldsOK
            <4>3. c \in Coming("set", p) /\ Coming("set", p)' \subseteq Coming("set", p)
                BY <1>4, <3>1 DEF Foreseen
            <4>4. \A e \in Coming("set", p) : e[3] = c[3]
                BY <1>1, <4>3 DEF OneValue
            <4>5. Datum(p) = c[3]
                BY <4>3, <4>4, ComesIs DEF Datum, Due
            <4>6. Datum(p)' = c[3]
                BY <4>2, <4>3, <4>4, ComesIs DEF Datum, Due
            <4> QED
                BY <4>5, <4>6
        <3>2. CASE ~(c[1] = "set" /\ c[2] = p)
            <4>1. Coming("set", p)' = Coming("set", p)
                BY <1>4, <3>2 DEF Foreseen
            <4>2. data'[p] = data[p]
                BY <1>1, <3>2 DEF CallStep, Signal, SetData, ResolveStatus, RemoveFromContext,
                    SetState, Push, Pop, UpdateInput, UpdateOutput, UnlockFifo, NextCall, Arg, c,
                    portFields, CInv, TypesOK, FieldsOK
            <4> QED
                BY <1>1, <4>1, <4>2, DatumStays
        <3> QED
            BY <3>1, <3>2
    <2> QED
        BY <2>1 DEF DatumView
<1>9. left' = left
    BY <1>1 DEF CallStep, Signal, SetData, ResolveStatus, RemoveFromContext, SetState, Push, Pop,
        UpdateInput, UpdateOutput, UnlockFifo, history
<1>10. QueueView' = QueueView
    <2>1. CASE c[1] = "push"
        <3>1. /\ entered' = [entered EXCEPT ![c[2]] = Append(@, c[3])]
            BY <1>1, <2>1 DEF CallStep, Signal, SetData, ResolveStatus, RemoveFromContext,
               SetState, Push, Pop, UpdateInput, UpdateOutput, UnlockFifo, NextCall, Arg, c
        <3>2. c[2] \in Fifos /\ c[3] \in Data
            BY <1>2, <2>1, CallShape DEF c
        <3>3. ASSUME NEW f \in Fifos
              PROVE  Queue(f)' = Queue(f)
            <4>1. CASE f = c[2]
                <5>1. entered'[f] = Append(entered[f], c[3])
                    BY <1>1, <3>1, <4>1 DEF CInv, TypesOK, FifosOK
                <5>2. Rest(f)' = Rest(f) \o <<c[3]>>
                    BY <1>1, <1>9, <3>2, <5>1, RestGrows
                <5>3. c \in Coming("push", f) /\ Coming("push", f)' = {}
                    BY <1>4, <2>1, <4>1 DEF Foreseen
                <5>4. \A e \in Coming("push", f) : e[3] = c[3]
                    BY <1>1, <5>3 DEF OneValue
                <5>5. Queue(f) = Rest(f) \o <<c[3]>>
                    BY <5>3, <5>4, ComesIs DEF Queue, Due
                <5>6. Queue(f)' = Rest(f)' \o <<>>
                    BY <5>3, ComesIs DEF Queue
                <5>7. Rest(f)' \in Seq(Data)
                    <6>1. RestOK'
                        BY RestFacts, PTL
                    <6> QED
                        BY <6>1 DEF RestOK
                <5>8. Rest(f)' \o <<>> = Rest(f)'
                    BY <5>7, ConcatEmptySeq
                <5> QED
                    BY <5>2, <5>5, <5>6, <5>8
            <4>2. CASE f # c[2]
                <5>1. entered'[f] = entered[f]
                    BY <1>1, <3>1, <4>2 DEF CInv, TypesOK, FifosOK
                <5>2. Rest(f)' = Rest(f)
                    BY <1>1, <1>9, <5>1, RestStays
                <5>3. Coming("push", f)' = Coming("push", f)
                    BY <1>4, <4>2 DEF Foreseen
                <5> QED
                    BY <1>1, <5>2, <5>3, OneQueueStays
            <4> QED
                BY <4>1, <4>2
        <3> QED
            BY <3>3 DEF QueueView
    <2>2. CASE c[1] # "push"
        <3>1. entered' = entered
            BY <1>1, <2>2 DEF CallStep, Signal, SetData, ResolveStatus, RemoveFromContext,
               SetState, Push, Pop, UpdateInput, UpdateOutput, UnlockFifo, NextCall, history, c
        <3>2. \A f : Coming("push", f)' = Coming("push", f)
            BY <1>4, <2>2 DEF Foreseen
        <3> QED
            BY <1>1, <1>9, <3>1, <3>2, QueueStays
    <2> QED
        BY <2>1, <2>2
<1> QED
    BY <1>5, <1>6, <1>7, <1>8, <1>10
    DEF Promised!vars, ModeView, QueueView, DatumView, RequestView, AnswerView

-----------------------------------------------------------------------------
(* A transition fires                                                      *)

\* What the calls of a transition will do: each sink of its constraint problem
\* gets the datum that was peeked at its source.
LEMMA FireBrings ==
    ASSUME NEW a \in Automata, NEW s \in States, NEW r \in Elements(Transitions[a][s]),
           \A v \in Elements(r.sets) : Peek(v.source) \in Data
    PROVE  /\ \A c \in Elements(FireCalls(a, r)) :
                /\ c[1] = "set" => \E v \in Elements(r.sets) : v.sink = c[2] /\ c[3] = Peek(v.source)
                /\ c[1] = "push" =>
                     \E v \in Elements(r.sets) : v.sink = InEnd(c[2]) /\ c[3] = Peek(v.source)
                /\ c[1] = "state" => c = <<"state", a, r.to>>
           /\ \A v \in Elements(r.sets) :
                /\ v.sink \in UserPorts =>
                     <<"set", v.sink, Peek(v.source)>> \in Elements(FireCalls(a, r))
                /\ \A f \in Fifos : v.sink = InEnd(f) =>
                     <<"push", f, Peek(v.source)>> \in Elements(FireCalls(a, r))
           /\ <<"state", a, r.to>> \in Elements(FireCalls(a, r))
<1> DEFINE A == {SetCall(r.sets[m]) : m \in DOMAIN r.sets}
           B == {ResolveCall(r.ports[m]) : m \in DOMAIN r.ports}
<1>1. Elements(FireCalls(a, r)) = A \cup B \cup {<<"state", a, r.to>>} \cup Elements(Kick(a))
    BY FireCallsFacts
<1>2. ASSUME NEW v \in Elements(r.sets)
      PROVE  /\ SetCall(v)[3] = Peek(v.source) /\ SetCall(v)[1] \in {"set", "push"}
             /\ v.sink \in UserPorts => SetCall(v) = <<"set", v.sink, Peek(v.source)>>
             /\ \A f \in Fifos : v.sink = InEnd(f) => SetCall(v) = <<"push", f, Peek(v.source)>>
             /\ SetCall(v)[1] = "set" => SetCall(v)[2] = v.sink
             /\ SetCall(v)[1] = "push" => InEnd(SetCall(v)[2]) = v.sink
    <2>1. v.sink \in UserPorts \/ \E f \in Fifos : v.sink = InEnd(f)
        BY TransitionFacts
    <2>2. CASE v.sink \in UserPorts
        BY <2>2, EndNames DEF SetCall
    <2>3. ASSUME NEW f \in Fifos, v.sink = InEnd(f)
          PROVE  /\ SetCall(v) = <<"push", f, Peek(v.source)>> /\ v.sink \notin UserPorts
                 /\ \A g \in Fifos : v.sink = InEnd(g) => g = f
        BY <2>3, EndNames DEF SetCall
    <2> QED
        BY <2>1, <2>2, <2>3
<1>3. \A m \in DOMAIN r.sets : r.sets[m] \in Elements(r.sets)
    BY DEF Elements
<1>4. ASSUME NEW c \in A
      PROVE  \E v \in Elements(r.sets) : c = SetCall(v)
    BY <1>3, <1>4
<1>5. \A v \in Elements(r.sets) : SetCall(v) \in A
    BY DEF Elements
<1>6. \A c \in B : c[1] \notin {"set", "push", "state"}
    <2>1. \A x \in Elements(r.ports) : x \in UserPorts \cup Ends
        BY TransitionFacts
    <2>2. \A m \in DOMAIN r.ports : r.ports[m] \in UserPorts \cup Ends
        BY <2>1 DEF Elements
    <2> QED
        BY <2>2, ResolveCallKind
<1>7. \A c \in Elements(Kick(a)) : c[1] = "signal"
    BY KickFacts
<1> HIDE DEF A, B
<1>8. ASSUME NEW c \in Elements(FireCalls(a, r))
      PROVE  /\ c[1] = "set" =>
                  \E v \in Elements(r.sets) : v.sink = c[2] /\ c[3] = Peek(v.source)
             /\ c[1] = "push" =>
                  \E v \in Elements(r.sets) : v.sink = InEnd(c[2]) /\ c[3] = Peek(v.source)
             /\ c[1] = "state" => c = <<"state", a, r.to>>
    <2>1. CASE c \in A
        <3>1. PICK v \in Elements(r.sets) : c = SetCall(v)
            BY <1>4, <2>1
        <3> QED
            BY <1>2, <3>1
    <2>2. CASE c \notin A
        BY <1>1, <1>6, <1>7, <2>2
    <2> QED
        BY <2>1, <2>2
<1>9. ASSUME NEW v \in Elements(r.sets)
      PROVE  /\ v.sink \in UserPorts =>
                  <<"set", v.sink, Peek(v.source)>> \in Elements(FireCalls(a, r))
             /\ \A f \in Fifos : v.sink = InEnd(f) =>
                  <<"push", f, Peek(v.source)>> \in Elements(FireCalls(a, r))
    BY <1>1, <1>2, <1>5
<1> QED
    BY <1>1, <1>8, <1>9

\* A thread that holds the mutex of a fires r; what is kept is what no call of
\* the transition has changed yet.
Firing(t, a, r) ==
    /\ t \in Main /\ Critical(t) /\ todo[t] = <<>> /\ a = Home(t)
    /\ r \in Elements(FromState(a)) /\ Fire(t, a, r)
    /\ UNCHANGED <<state, data, status, ring, head, tail, result>>

LEMMA FireComes ==
    ASSUME CInv, NEW t, NEW a, NEW r, Firing(t, a, r)
    PROVE  /\ a \in Automata /\ state[a] \in States /\ r \in Elements(Transitions[a][state[a]])
           /\ \A v \in Elements(r.sets) : Peek(v.source) \in Data
           /\ \A kind \in Foreseen : \A x :
                Coming(kind, x)' = Coming(kind, x)
                    \cup {c \in Elements(FireCalls(a, r)) : c[1] = kind /\ c[2] = x}
<1>1. a \in Automata /\ t \in Threads
    BY PortsInAutomata, ThreadNames DEF Firing
<1>2. /\ state[a] \in States /\ r \in Elements(Transitions[a][state[a]])
      /\ \A v \in Elements(r.sets) : Peek(v.source) \in Data
    BY ReadyData DEF Firing, Fire
<1>3. todo' = [todo EXCEPT ![t] = FireCalls(a, r)] /\ todo \in [Threads -> Seq(Calls)]
    BY DEF Firing, Fire, CInv, TypesOK, ThreadsOK
<1>4. /\ Ops(t) = {} /\ Ops(t)' = Elements(FireCalls(a, r))
      /\ \A u \in Threads : u # t => Ops(u)' = Ops(u)
    BY <1>1, <1>3 DEF Ops, Elements, Firing
<1>5. ASSUME NEW kind \in Foreseen, NEW x
      PROVE  Coming(kind, x)' = Coming(kind, x)
                    \cup {c \in Elements(FireCalls(a, r)) : c[1] = kind /\ c[2] = x}
    <2>1. \A c : c \in Coming(kind, x)' <=> /\ \E u \in Threads : c \in Ops(u)'
                                            /\ c[1] = kind /\ c[2] = x
        BY DEF Coming, Ops
    <2> DEFINE E == {c \in Elements(FireCalls(a, r)) : c[1] = kind /\ c[2] = x}
    <2>2. \A c : c \in Coming(kind, x)' <=> c \in Coming(kind, x) \/ c \in E
        BY <1>1, <1>4, <2>1, ComingAre
    <2> HIDE DEF E
    <2>3. Coming(kind, x)' = Coming(kind, x) \cup E
        BY <2>2
    <2> QED
        BY <2>3 DEF E
<1> QED
    BY <1>1, <1>2, <1>5

LEMMA FireChanges ==
    ASSUME CInv, NEW t, NEW a, NEW r, Firing(t, a, r)
    PROVE  /\ Coming("state", a) = {} /\ Coming("state", a)' # {}
           /\ \A e \in Coming("state", a)' : e[3] = r.to
           /\ \A b : b # a => Coming("state", b)' = Coming("state", b)
           /\ \A v \in Elements(r.sets) : v.sink \in UserPorts =>
                /\ Coming("set", v.sink) = {} /\ Coming("set", v.sink)' # {}
                /\ \A e \in Coming("set", v.sink)' : e[3] = Peek(v.source)
           /\ \A p : (\A v \in Elements(r.sets) : v.sink # p) =>
                Coming("set", p)' = Coming("set", p)
           /\ \A v \in Elements(r.sets) : \A f \in Fifos : v.sink = InEnd(f) =>
                /\ Coming("push", f) = {} /\ Coming("push", f)' # {}
                /\ \A e \in Coming("push", f)' : e[3] = Peek(v.source)
           /\ \A f : (\A v \in Elements(r.sets) : v.sink # InEnd(f)) =>
                Coming("push", f)' = Coming("push", f)
           /\ \A f \in Fifos : OutEnd(f) \in Elements(r.ports) =>
                Coming("pop", f) = {} /\ Coming("pop", f)' # {}
           /\ \A f \in Fifos : OutEnd(f) \notin Elements(r.ports) =>
                Coming("pop", f)' = Coming("pop", f)
<1> DEFINE E == Elements(FireCalls(a, r))
<1>1. /\ a \in Automata /\ state[a] \in States /\ r \in Elements(Transitions[a][state[a]])
      /\ \A v \in Elements(r.sets) : Peek(v.source) \in Data
      /\ \A kind \in Foreseen : \A x :
            Coming(kind, x)' = Coming(kind, x) \cup {c \in E : c[1] = kind /\ c[2] = x}
    BY FireComes
<1>2. /\ \A x \in Elements(r.ports) : AutomatonOf(x) = a
      /\ \A v \in Elements(r.sets) : v.sink \in Elements(r.ports)
      /\ \A m, n \in DOMAIN r.sets : r.sets[m].sink = r.sets[n].sink => m = n
    BY <1>1, TransitionFacts
<1>3. \A v, w \in Elements(r.sets) : v.sink = w.sink => v = w
    BY <1>2 DEF Elements
<1>4. /\ Coming("state", a) = {}
      /\ \A p \in Elements(r.ports) : Coming("set", p) = {}
      /\ \A f : InEnd(f) \in Elements(r.ports) => Coming("push", f) = {}
      /\ \A f : OutEnd(f) \in Elements(r.ports) => Coming("pop", f) = {}
    BY <1>2, NothingComing DEF CInv, TypesOK, Firing
<1>5. /\ \A c \in E :
           /\ c[1] = "set" => \E v \in Elements(r.sets) : v.sink = c[2] /\ c[3] = Peek(v.source)
           /\ c[1] = "push" =>
                \E v \in Elements(r.sets) : v.sink = InEnd(c[2]) /\ c[3] = Peek(v.source)
           /\ c[1] = "state" => c = <<"state", a, r.to>>
      /\ \A v \in Elements(r.sets) :
           /\ v.sink \in UserPorts => <<"set", v.sink, Peek(v.source)>> \in E
           /\ \A f \in Fifos : v.sink = InEnd(f) => <<"push", f, Peek(v.source)>> \in E
      /\ <<"state", a, r.to>> \in E
    BY <1>1, FireBrings
<1>6. /\ \A c \in E : c[1] = "pop" => OutEnd(c[2]) \in Elements(r.ports)
      /\ \A f \in Fifos : OutEnd(f) \in Elements(r.ports) => <<"pop", f>> \in E
    BY <1>1, FireOps
<1> HIDE DEF E
<1>7. /\ Coming("state", a)' # {} /\ \A e \in Coming("state", a)' : e[3] = r.to
      /\ \A b : b # a => Coming("state", b)' = Coming("state", b)
    <2>1. \A b : Coming("state", b)' = Coming("state", b) \cup {c \in E : c[1] = "state" /\ c[2] = b}
        BY <1>1 DEF Foreseen
    <2>2. <<"state", a, r.to>> \in Coming("state", a)'
        BY <1>5, <2>1
    <2>3. \A e \in Coming("state", a)' : e[3] = r.to
        BY <1>4, <1>5, <2>1
    <2>4. ASSUME NEW b, b # a
          PROVE  Coming("state", b)' = Coming("state", b)
        <3>1. {c \in E : c[1] = "state" /\ c[2] = b} = {}
            BY <1>5, <2>4
        <3> QED
            BY <2>1, <3>1
    <2> QED
        BY <2>2, <2>3, <2>4
<1>8. ASSUME NEW v \in Elements(r.sets), v.sink \in UserPorts
      PROVE  /\ Coming("set", v.sink) = {} /\ Coming("set", v.sink)' # {}
             /\ \A e \in Coming("set", v.sink)' : e[3] = Peek(v.source)
    <2>1. Coming("set", v.sink)' = {c \in E : c[1] = "set" /\ c[2] = v.sink}
        BY <1>1, <1>2, <1>4 DEF Foreseen
    <2>2. <<"set", v.sink, Peek(v.source)>> \in Coming("set", v.sink)'
        BY <1>5, <1>8, <2>1
    <2>3. ASSUME NEW e \in Coming("set", v.sink)'
          PROVE  e[3] = Peek(v.source)
        <3>1. e \in E /\ e[1] = "set" /\ e[2] = v.sink
            BY <2>1, <2>3
        <3>2. PICK w \in Elements(r.sets) : w.sink = e[2] /\ e[3] = Peek(w.source)
            BY <1>5, <3>1
        <3> QED
            BY <1>3, <3>1, <3>2
    <2> QED
        BY <1>2, <1>4, <2>2, <2>3
<1>9. ASSUME NEW p, \A v \in Elements(r.sets) : v.sink # p
      PROVE  Coming("set", p)' = Coming("set", p)
    <2>1. {c \in E : c[1] = "set" /\ c[2] = p} = {}
        BY <1>5, <1>9
    <2>2. Coming("set", p)' = Coming("set", p) \cup {c \in E : c[1] = "set" /\ c[2] = p}
        BY <1>1 DEF Foreseen
    <2> QED
        BY <2>1, <2>2
<1>10. ASSUME NEW v \in Elements(r.sets), NEW f \in Fifos, v.sink = InEnd(f)
       PROVE  /\ Coming("push", f) = {} /\ Coming("push", f)' # {}
              /\ \A e \in Coming("push", f)' : e[3] = Peek(v.source)
    <2>1. Coming("push", f) = {}
        BY <1>2, <1>4, <1>10
    <2>2. Coming("push", f)' = {c \in E : c[1] = "push" /\ c[2] = f}
        BY <1>1, <2>1 DEF Foreseen
    <2>3. <<"push", f, Peek(v.source)>> \in Coming("push", f)'
        BY <1>5, <1>10, <2>2
    <2>4. ASSUME NEW e \in Coming("push", f)'
          PROVE  e[3] = Peek(v.source)
        <3>1. e \in E /\ e[1] = "push" /\ e[2] = f
            BY <2>2, <2>4
        <3>2. PICK w \in Elements(r.sets) : w.sink = InEnd(f) /\ e[3] = Peek(w.source)
            BY <1>5, <3>1
        <3> QED
            BY <1>3, <1>10, <3>2
    <2> QED
        BY <2>1, <2>3, <2>4
<1>11. ASSUME NEW f, \A v \in Elements(r.sets) : v.sink # InEnd(f)
       PROVE  Coming("push", f)' = Coming("push", f)
    <2>1. {c \in E : c[1] = "push" /\ c[2] = f} = {}
        BY <1>5, <1>11
    <2>2. Coming("push", f)' = Coming("push", f) \cup {c \in E : c[1] = "push" /\ c[2] = f}
        BY <1>1 DEF Foreseen
    <2> QED
        BY <2>1, <2>2
<1>12. ASSUME NEW f \in Fifos, OutEnd(f) \in Elements(r.ports)
       PROVE  Coming("pop", f) = {} /\ Coming("pop", f)' # {}
    <2>1. <<"pop", f>> \in {c \in E : c[1] = "pop" /\ c[2] = f}
        BY <1>6, <1>12
    <2> QED
        BY <1>1, <1>4, <1>12, <2>1 DEF Foreseen
<1>13. ASSUME NEW f \in Fifos, OutEnd(f) \notin Elements(r.ports)
       PROVE  Coming("pop", f)' = Coming("pop", f)
    <2>1. {c \in E : c[1] = "pop" /\ c[2] = f} = {}
        BY <1>6, <1>13
    <2>2. Coming("pop", f)' = Coming("pop", f) \cup {c \in E : c[1] = "pop" /\ c[2] = f}
        BY <1>1 DEF Foreseen
    <2> QED
        BY <2>1, <2>2
<1> QED
    BY <1>4, <1>7, <1>8, <1>9, <1>10, <1>11, <1>12, <1>13

LEMMA FireAgrees ==
    ASSUME SeenInv, NEW t, NEW a, NEW r, Firing(t, a, r)
    PROVE  OneValue'
<1> DEFINE E == Elements(FireCalls(a, r))
<1>1. CInv /\ OneValue
    BY DEF SeenInv
<1>2. /\ a \in Automata /\ state[a] \in States /\ r \in Elements(Transitions[a][state[a]])
      /\ \A v \in Elements(r.sets) : Peek(v.source) \in Data
      /\ \A kind \in Foreseen : \A x :
            Coming(kind, x)' = Coming(kind, x) \cup {c \in E : c[1] = kind /\ c[2] = x}
    BY <1>1, FireComes
<1>3. /\ \A v \in Elements(r.sets) : v.sink \in Elements(r.ports)
      /\ \A m, n \in DOMAIN r.sets : r.sets[m].sink = r.sets[n].sink => m = n
      /\ \A x \in Elements(r.ports) : AutomatonOf(x) = a
    BY <1>2, TransitionFacts
<1>4. \A v, w \in Elements(r.sets) : v.sink = w.sink => v = w
    BY <1>3 DEF Elements
<1>5. \A c \in E :
           /\ c[1] = "set" => \E v \in Elements(r.sets) : v.sink = c[2] /\ c[3] = Peek(v.source)
           /\ c[1] = "push" =>
                \E v \in Elements(r.sets) : v.sink = InEnd(c[2]) /\ c[3] = Peek(v.source)
           /\ c[1] = "state" => c = <<"state", a, r.to>>
    BY <1>2, FireBrings
<1>6. /\ Coming("state", a) = {}
      /\ \A p \in Elements(r.ports) : Coming("set", p) = {}
      /\ \A f : InEnd(f) \in Elements(r.ports) => Coming("push", f) = {}
    BY <1>1, <1>3, NothingComing DEF CInv, TypesOK, Firing
<1> HIDE DEF E
<1>7. ASSUME NEW g \in E, NEW h \in E, g[1] = h[1], g[2] = h[2], g[1] \in {"state", "set", "push"}
      PROVE  g[3] = h[3]
    BY <1>4, <1>5, <1>7
<1>8. ASSUME NEW g \in E, g[1] \in {"state", "set", "push"}
      PROVE  Coming(g[1], g[2]) = {}
    <2>1. CASE g[1] = "state"
        BY <1>5, <1>6, <2>1
    <2>2. CASE g[1] = "set"
        BY <1>3, <1>5, <1>6, <2>2
    <2>3. CASE g[1] = "push"
        BY <1>3, <1>5, <1>6, <2>3
    <2> QED
        BY <1>8, <2>1, <2>2, <2>3
<1>9. ASSUME NEW kind \in {"state", "set", "push"}, NEW x, NEW c \in Coming(kind, x)',
             NEW e \in Coming(kind, x)'
      PROVE  c[3] = e[3]
    <2>1. Coming(kind, x)' = Coming(kind, x) \cup {g \in E : g[1] = kind /\ g[2] = x}
        BY <1>2 DEF Foreseen
    <2>2. CASE {g \in E : g[1] = kind /\ g[2] = x} = {}
        BY <1>1, <2>1, <2>2 DEF OneValue
    <2>3. ASSUME NEW g \in E, g[1] = kind, g[2] = x
          PROVE  c[3] = e[3]
        <3>1. Coming(kind, x) = {}
            BY <1>8, <2>3
        <3> QED
            BY <1>7, <2>1, <3>1
    <2> QED
        BY <2>2, <2>3
<1> QED
    BY <1>9 DEF OneValue

\* What is still to be pushed into f, if anything.
Brought(f) == IF Coming("push", f) = {} THEN <<>> ELSE <<Due("push", f, Null)>>

LEMMA BroughtFacts ==
    ASSUME CInv, NEW f \in Fifos
    PROVE  /\ Queue(f) = Rest(f) \o Brought(f) /\ Brought(f) \in Seq(Data)
           /\ Brought(f) = <<>> \/ \E d \in Data : Brought(f) = <<d>>
<1>1. Queue(f) = Rest(f) \o Brought(f)
    BY ComesIs DEF Queue, Brought
<1>2. CASE Coming("push", f) = {}
    BY <1>1, <1>2 DEF Brought
<1>3. CASE Coming("push", f) # {}
    <2>1. PICK c \in Coming("push", f) : Due("push", f, Null) = c[3]
        BY <1>3, ComesIs DEF Due
    <2>2. c \in Calls /\ c[1] = "push"
        BY ComingAre, ComingOwned DEF CInv, TypesOK, Foreseen
    <2>3. Brought(f) = <<c[3]>> /\ c[3] \in Data
        BY <1>3, <2>1, <2>2, CallShape DEF Brought
    <2> QED
        BY <1>1, <2>3
<1> QED
    BY <1>2, <1>3

LEMMA TailOfConcat ==
    ASSUME NEW S, NEW s \in Seq(S), s # <<>>, NEW u, u = <<>> \/ \E d \in S : u = <<d>>
    PROVE  /\ s \o u # <<>> /\ Head(s \o u) = Head(s)
           /\ Tail(s \o u) = Tail(s) \o u /\ Tail(s) \in Seq(S)
<1>1. Tail(s) \in Seq(S) /\ Len(s) \in Nat \ {0}
    BY TailFacts, EmptySeq
<1>2. CASE u = <<>>
    <2>1. s \o u = s /\ Tail(s) \o u = Tail(s)
        BY <1>1, <1>2, ConcatEmptySeq
    <2> QED
        BY <1>1, <2>1
<1>3. ASSUME NEW d \in S, u = <<d>>
      PROVE  /\ s \o u # <<>> /\ Head(s \o u) = Head(s) /\ Tail(s \o u) = Tail(s) \o u
    <2>1. s \o u = Append(s, d) /\ Tail(s) \o u = Append(Tail(s), d)
        BY <1>1, <1>3, AppendIsConcat
    <2>2. Tail(Append(s, d)) = Append(Tail(s), d)
        BY AppendTail
    <2>3. /\ Append(s, d) \in Seq(S) /\ Append(s, d) # <<>> /\ Append(s, d)[1] = s[1]
        BY <1>1, AppendProperties
    <2>4. Head(Append(s, d)) = Append(s, d)[1] /\ Head(s) = s[1]
        BY <2>3, TailFacts
    <2> QED
        BY <2>1, <2>2, <2>3, <2>4
<1> QED
    BY <1>1, <1>2, <1>3

LEMMA RoomLeft ==
    ASSUME NEW n \in Nat \ {0}, NEW h \in 0 .. n - 1, NEW k \in 0 .. n - 1, (k + 1) % n # h
    PROVE  (k + n - h) % n \in Nat /\ (k + n - h) % n < n - 1
<1>1. (k + n - h) % n = IF k + n - h < n THEN k + n - h ELSE k + n - h - n
    <2> SUFFICES ASSUME NEW x, x = k + n - h
                 PROVE  x % n = IF x < n THEN x ELSE x - n
        OBVIOUS
    <2>1. x \in Nat /\ x < 2 * n
        OBVIOUS
    <2> QED
        BY ONLY n \in Nat \ {0}, <2>1, Wrap
<1>2. (k + 1) % n = IF k + 1 < n THEN k + 1 ELSE k + 1 - n
    <2> SUFFICES ASSUME NEW x, x = k + 1
                 PROVE  x % n = IF x < n THEN x ELSE x - n
        OBVIOUS
    <2>1. x \in Nat /\ x < 2 * n
        OBVIOUS
    <2> QED
        BY ONLY n \in Nat \ {0}, <2>1, Wrap
<1> DEFINE g == (k + n - h) % n
           e == (k + 1) % n
<1>3. g = (IF k + n - h < n THEN k + n - h ELSE k + n - h - n)
      /\ e = (IF k + 1 < n THEN k + 1 ELSE k + 1 - n) /\ e # h
    BY <1>1, <1>2
<1> HIDE DEF g, e
<1>4. g \in Nat /\ g < n - 1
    BY <1>3
<1> QED
    BY <1>4 DEF g

LEMMA RoomMeans ==
    ASSUME FifosOK, NEW f \in Fifos, ~IsFull(f)
    PROVE  Len(Contents(f)) < Capacity[f]
<1> DEFINE n == (tail[f] + Slots(f) - head[f]) % Slots(f)
<1>1. n \in Nat /\ n < Slots(f) - 1 /\ Slots(f) - 1 = Capacity[f]
    BY FifoFacts, RoomLeft DEF IsFull
<1>2. DOMAIN Contents(f) = 1 .. n
    BY DEF Contents
<1> HIDE DEF n
<1>3. Len(Contents(f)) = n
    BY <1>1, <1>2
<1> QED
    BY <1>1, <1>3

\* What a thread finds when its transition can fire is what the components see.
LEMMA FireReads ==
    ASSUME CInv, NEW t, NEW a, NEW r, Firing(t, a, r)
    PROVE  /\ \A p \in (UserPorts \ Cancelled) \cap Elements(r.ports) : Request(p) = "pending"
           /\ \A f \in Fifos :
                /\ InEnd(f) \in Elements(r.ports) => Len(Queue(f)) < Capacity[f]
                /\ OutEnd(f) \in Elements(r.ports) =>
                     /\ Contents(f) # <<>> /\ Rest(f) = Contents(f) /\ Queue(f) # <<>>
                     /\ Head(Queue(f)) = Peek(OutEnd(f))
                     /\ Tail(Queue(f)) = Tail(Contents(f)) \o Brought(f)
           /\ \A p \in UserPorts : \A v \in Elements(r.sets) : v.source = p => Datum(p) = Peek(p)
<1>1. /\ a \in Automata /\ state[a] \in States /\ r \in Elements(Transitions[a][state[a]])
      /\ Elements(r.ports) \subseteq ctx /\ t \in Main /\ Critical(t) /\ todo[t] = <<>> /\ a = Home(t)
    BY FireComes DEF Firing, Fire, Ready
<1>2. /\ \A x \in Elements(r.ports) : AutomatonOf(x) = a
      /\ \A v \in Elements(r.sets) : v.source \in Elements(r.ports)
    BY <1>1, TransitionFacts
<1>3. /\ \A p \in Elements(r.ports) : Coming("set", p) = {}
      /\ \A f : InEnd(f) \in Elements(r.ports) => Coming("push", f) = {}
      /\ \A f : OutEnd(f) \in Elements(r.ports) => Coming("pop", f) = {}
    BY <1>1, <1>2, NothingComing DEF CInv, TypesOK
<1>4. ASSUME NEW p \in (UserPorts \ Cancelled) \cap Elements(r.ports)
      PROVE  Request(p) = "pending"
    <2>1. PortOK(p) /\ p \in ctx /\ fired[p] \in Nat /\ status[p] \in {"pending", "success", "failed"}
        BY <1>1 DEF CInv, PortsOK, TypesOK, FieldsOK
    <2>2. ASSUME NEW u \in Main, NEW kind \in {"status", "remove"}, Has(u, kind, p)
          PROVE  FALSE
        <3>1. PICK c \in Ops(u) : c[1] = kind /\ c[2] = p
            BY <2>2 DEF Has
        <3>2. Home(u) = AutomatonOf(p)
            BY <3>1, ThreadNames DEF CInv, ControlOK, WorkOK, Owns
        <3> QED
            BY <1>1, <1>2, <2>2, <3>2, NobodyElse DEF CInv, TypesOK
    <2>3. ~Leaving(p)
        BY <2>2 DEF Leaving, Served
    <2>4. pc[p] # "idle" /\ status[p] = "pending" /\ fired[p] = 0
        BY <2>1, <2>3 DEF PortOK
    <2> QED
        BY <2>4 DEF Request
<1>5. RestOK
    BY RestFacts
<1>6. ASSUME NEW f \in Fifos, InEnd(f) \in Elements(r.ports)
      PROVE  Len(Queue(f)) < Capacity[f]
    <2>1. ~IsFull(f)
        BY <1>1, <1>2, <1>6, ReadyEnds
    <2>2. Len(Contents(f)) < Capacity[f]
        BY <2>1, RoomMeans DEF CInv, TypesOK
    <2>3. Queue(f) = Rest(f) \o <<>> /\ Rest(f) \in Seq(Data) /\ Contents(f) \in Seq(Data)
          /\ Len(Rest(f)) <= Len(Contents(f))
        BY <1>3, <1>5, <1>6, ComesIs DEF Queue, RestOK
    <2>4. Queue(f) = Rest(f)
        BY <2>3, ConcatEmptySeq
    <2>5. Len(Rest(f)) \in Nat /\ Len(Contents(f)) \in Nat /\ Capacity[f] \in Nat
        BY <2>3, LenProperties, AutomatonAssumption
    <2> QED
        BY <2>2, <2>3, <2>4, <2>5
<1>7. ASSUME NEW f \in Fifos, OutEnd(f) \in Elements(r.ports)
      PROVE  /\ Contents(f) # <<>> /\ Rest(f) = Contents(f) /\ Queue(f) # <<>>
             /\ Head(Queue(f)) = Peek(OutEnd(f))
             /\ Tail(Queue(f)) = Tail(Contents(f)) \o Brought(f)
    <2>1. Contents(f) # <<>> /\ Peek(OutEnd(f)) = Head(Contents(f))
        BY <1>1, <1>2, <1>7, ReadyEnds
    <2>2. Rest(f) = Contents(f) /\ Contents(f) \in Seq(Data)
        BY <1>3, <1>5, <1>7, ComesIs DEF Rest, RestOK
    <2>3. /\ Queue(f) = Contents(f) \o Brought(f)
          /\ Brought(f) = <<>> \/ \E d \in Data : Brought(f) = <<d>>
        BY <2>2, BroughtFacts
    <2> QED
        BY <2>1, <2>2, <2>3, TailOfConcat
<1>8. ASSUME NEW p \in UserPorts, NEW v \in Elements(r.sets), v.source = p
      PROVE  Datum(p) = Peek(p)
    BY <1>2, <1>3, <1>8, ComesIs DEF Datum, Due, Peek
<1> QED
    BY <1>4, <1>6, <1>7, <1>8

\* What the calls of the transition will do is seen as done at once.
Remains(f, r) == IF OutEnd(f) \in Elements(r.ports) THEN Tail(Queue(f)) ELSE Queue(f)

LEMMA FireWrites ==
    ASSUME SeenInv, CInv', NEW t, NEW a, NEW r, Firing(t, a, r),
           NEW l \in {"fired", "loop_fired"}, pc' = [pc EXCEPT ![t] = l],
           pc[t] \in {"try", "loop_try"}
    PROVE  /\ \A b \in Automata : Mode(b)' = IF b = a THEN r.to ELSE Mode(b)
           /\ \A p \in UserPorts : \A v \in Elements(r.sets) : v.sink = p => Datum(p)' = Peek(v.source)
           /\ \A p \in UserPorts \ Cancelled :
                Request(p)' = IF p \in Elements(r.ports) THEN "done" ELSE Request(p)
           /\ AnswerView' = AnswerView
           /\ \A f \in Fifos :
                /\ \A v \in Elements(r.sets) :
                     v.sink = InEnd(f) => Queue(f)' = Remains(f, r) \o <<Peek(v.source)>>
                /\ (\A v \in Elements(r.sets) : v.sink # InEnd(f)) =>
                     Queue(f)' = Remains(f, r) \o <<>>
<1>1. CInv /\ OneValue
    BY DEF SeenInv
<1>2. UNCHANGED <<state, data, status, ring, head, tail, result>>
    BY DEF Firing
<1>3. /\ a \in Automata /\ state[a] \in States /\ r \in Elements(Transitions[a][state[a]])
      /\ t \in Main /\ t \in Threads
      /\ fired' = [p \in UserPorts |-> IF p \in Elements(r.ports) THEN fired[p] + 1 ELSE fired[p]]
    BY <1>1, FireComes, ThreadNames DEF Firing, Fire
<1>4. \A b \in Automata : Mode(b)' = IF b = a THEN r.to ELSE Mode(b)
    <2>1. ASSUME NEW b \in Automata, b # a
          PROVE  Mode(b)' = Mode(b)
        <3>1. Coming("state", b)' = Coming("state", b)
            BY <1>1, <2>1, FireChanges
        <3> QED
            BY <1>1, <1>2, <3>1, ModeStays
    <2>2. Mode(a)' = r.to
        BY <1>1, FireChanges, ComesIs DEF Mode, Due
    <2> QED
        BY <2>1, <2>2
<1>5. ASSUME NEW p \in UserPorts, NEW v \in Elements(r.sets), v.sink = p
      PROVE  Datum(p)' = Peek(v.source)
    <2>1. /\ Coming("set", v.sink)' # {}
          /\ \A e \in Coming("set", v.sink)' : e[3] = Peek(v.source)
        BY <1>1, <1>5, FireChanges
    <2>2. Coming("set", p)' # {} /\ \A e \in Coming("set", p)' : e[3] = Peek(v.source)
        BY <1>5, <2>1
    <2> QED
        BY <2>2, ComesIs DEF Datum, Due
<1>7. ASSUME NEW p \in UserPorts \ Cancelled
      PROVE  Request(p)' = IF p \in Elements(r.ports) THEN "done" ELSE Request(p)
    <2>1. pc = [u \in Threads |-> pc[u]] /\ fired[p] \in Nat
        BY <1>1 DEF CInv, TypesOK, ThreadsOK, FieldsOK
    <2>2. (pc'[p] = "idle" <=> pc[p] = "idle") /\ status'[p] = status[p]
        <3>1. CASE p = t
            BY <1>3, <2>1, <3>1, <1>2
        <3>2. CASE p # t
            BY <1>2, <2>1, <3>2
        <3> QED
            BY <3>1, <3>2
    <2>3. CASE p \in Elements(r.ports)
        <3>1. Request(p) = "pending"
            BY <1>1, <2>3, FireReads
        <3>2. pc[p] # "idle" /\ status[p] # "failed" /\ fired[p] = 0
            BY <3>1 DEF Request
        <3>3. fired'[p] = 1
            BY <1>3, <2>3, <3>2
        <3> QED
            BY <2>2, <2>3, <3>2, <3>3 DEF Request
    <2>4. CASE p \notin Elements(r.ports)
        <3>1. fired'[p] = fired[p]
            BY <1>3, <2>4
        <3> QED
            BY <2>2, <2>4, <3>1 DEF Request
    <2> QED
        BY <2>3, <2>4
<1>8. AnswerView' = AnswerView
    BY <1>2 DEF AnswerView
<1>9. ASSUME NEW f \in Fifos, NEW kept, kept = Remains(f, r)
      PROVE  /\ \A v \in Elements(r.sets) :
                  v.sink = InEnd(f) => Queue(f)' = kept \o <<Peek(v.source)>>
             /\ (\A v \in Elements(r.sets) : v.sink # InEnd(f)) => Queue(f)' = kept \o <<>>
    <2>1. /\ Rest(f) \in Seq(Data) /\ Rest(f)' \in Seq(Data)
          /\ Queue(f) = Rest(f) \o Brought(f) /\ Brought(f) \in Seq(Data)
          /\ Queue(f)' = Rest(f)' \o Brought(f)'
        <3>1. RestOK /\ RestOK'
            BY <1>1, RestFacts, PTL
        <3> QED
            BY <1>1, <3>1, BroughtFacts, ComesIs DEF RestOK, Queue, Brought
    <2>2. Contents(f)' = Contents(f)
        BY <1>2 DEF Contents, Slots
    <2>3. kept = Rest(f)' \o Brought(f)
        <3>1. CASE OutEnd(f) \in Elements(r.ports)
            <4>1. Coming("pop", f)' # {}
                BY <1>1, <3>1, FireChanges
            <4>2. Rest(f)' = Tail(Contents(f))
                BY <2>2, <4>1, ComesIs DEF Rest
            <4>3. Tail(Queue(f)) = Tail(Contents(f)) \o Brought(f)
                BY <1>1, <3>1, FireReads
            <4> QED
                BY <1>9, <3>1, <4>2, <4>3 DEF Remains
        <3>2. CASE OutEnd(f) \notin Elements(r.ports)
            <4>1. Coming("pop", f)' = Coming("pop", f)
                BY <1>1, <3>2, FireChanges
            <4>2. Rest(f)' = Rest(f)
                BY <2>2, <4>1, ComesIs DEF Rest
            <4> QED
                BY <1>9, <2>1, <3>2, <4>2 DEF Remains
        <3> QED
            BY <3>1, <3>2
    <2>4. kept \in Seq(Data)
        BY <2>1, <2>3, ConcatProperties
    <2>5. kept \o <<>> = kept
        BY <2>4, ConcatEmptySeq
    <2>6. ASSUME NEW v \in Elements(r.sets), v.sink = InEnd(f)
          PROVE  Queue(f)' = kept \o <<Peek(v.source)>>
        <3>1. /\ Coming("push", f) = {} /\ Coming("push", f)' # {}
              /\ \A e \in Coming("push", f)' : e[3] = Peek(v.source)
            BY <1>1, <2>6, FireChanges
        <3>2. Brought(f) = <<>> /\ Brought(f)' = <<Peek(v.source)>>
            BY <3>1, ComesIs DEF Brought, Due
        <3>3. Rest(f)' \o <<>> = Rest(f)'
            BY <2>1, ConcatEmptySeq
        <3> QED
            BY <2>1, <2>3, <3>2, <3>3
    <2>7. ASSUME \A v \in Elements(r.sets) : v.sink # InEnd(f)
          PROVE  Queue(f)' = kept \o <<>>
        <3>1. Coming("push", f)' = Coming("push", f)
            BY <1>1, <2>7, FireChanges
        <3>2. Brought(f)' = Brought(f)
            <4>1. CASE Coming("push", f) = {}
                BY <3>1, <4>1 DEF Brought
            <4>2. ASSUME NEW e \in Coming("push", f)
                  PROVE  Brought(f)' = Brought(f)
                <5>1. \A g \in Coming("push", f) : g[3] = e[3]
                    BY <1>1, <4>2 DEF OneValue
                <5>2. Brought(f) = <<e[3]>>
                    BY <4>2, <5>1, ComesIs DEF Brought, Due
                <5>3. Brought(f)' = <<e[3]>>
                    BY <3>1, <4>2, <5>1, ComesIs DEF Brought, Due
                <5> QED
                    BY <5>2, <5>3
            <4> QED
                BY <4>1, <4>2
        <3> QED
            BY <2>1, <2>3, <2>5, <3>2
    <2> QED
        BY <2>6, <2>7
<1> QED
    BY <1>4, <1>5, <1>7, <1>8, <1>9

LEMMA FireSeen ==
    ASSUME SeenInv, CInv', NEW t, NEW a, NEW r, Firing(t, a, r),
           NEW l \in {"fired", "loop_fired"}, pc' = [pc EXCEPT ![t] = l],
           pc[t] \in {"try", "loop_try"}
    PROVE  Promised!Next /\ OneValue'
<1> DEFINE u == AsStep(r)
<1>1. CInv /\ OneValue
    BY DEF SeenInv
<1>2. /\ a \in Automata /\ state[a] \in States /\ r \in Elements(Transitions[a][state[a]])
      /\ \A v \in Elements(r.sets) : Peek(v.source) \in Data
    BY <1>1, FireComes
<1>3. /\ \A v \in Elements(r.sets) :
            /\ v.sink \in UserPorts \/ \E f \in Fifos : v.sink = InEnd(f)
            /\ v.source \in Elements(r.ports)
            /\ v.source \in UserPorts \/ \E f \in Fifos : v.source = OutEnd(f)
      /\ \A v, w \in Elements(r.sets) : v.sink = w.sink => v = w
    <2>1. \A m, n \in DOMAIN r.sets : r.sets[m].sink = r.sets[n].sink => m = n
        BY <1>2, TransitionFacts
    <2>2. \A v, w \in Elements(r.sets) : v.sink = w.sink => v = w
        BY <2>1 DEF Elements
    <2>3. \A v \in Elements(r.sets) :
            /\ v.sink \in UserPorts \ PutPorts \/ \E f \in Fifos : v.sink = InEnd(f)
            /\ v.source \in Elements(r.ports)
            /\ v.source \in PutPorts \/ \E f \in Fifos : v.source = OutEnd(f)
        BY <1>2, TransitionFacts
    <2> QED
        BY <2>2, <2>3, CPortAssumption
<1>4. u.to = r.to /\ u.ports = Elements(r.ports) /\ u.moves = Elements(r.sets)
    BY DEF AsStep
<1>5. u \in StepsView[a][ModeView[a]]
    <2>1. Mode(a) = state[a]
        BY <1>1, FireChanges, ComesIs DEF Mode, Due
    <2> QED
        BY <1>2, <2>1 DEF StepsView, ModeView
<1>6. /\ \A p \in (UserPorts \ Cancelled) \cap Elements(r.ports) : Request(p) = "pending"
      /\ \A f \in Fifos :
            /\ InEnd(f) \in Elements(r.ports) => Len(Queue(f)) < Capacity[f]
            /\ OutEnd(f) \in Elements(r.ports) =>
                 Queue(f) # <<>> /\ Head(Queue(f)) = Peek(OutEnd(f))
      /\ \A p \in UserPorts : \A v \in Elements(r.sets) : v.source = p => Datum(p) = Peek(p)
    BY <1>1, FireReads
<1> HIDE DEF u
<1>7. \A v \in Elements(r.sets) : Promised!ValueAt(v.source) = Peek(v.source)
    <2> TAKE v \in Elements(r.sets)
    <2>1. CASE v.source \in UserPorts
        BY <1>6, <2>1 DEF Promised!ValueAt
    <2>2. ASSUME NEW f \in Fifos, v.source = OutEnd(f)
          PROVE  Promised!ValueAt(v.source) = Peek(v.source)
        <3>1. v.source[1] = f /\ v.source \notin UserPorts
            BY <2>2, EndNames
        <3>2. Head(Queue(f)) = Peek(v.source)
            BY <1>3, <1>6, <2>2
        <3> QED
            BY <3>1, <3>2 DEF Promised!ValueAt
    <2> QED
        BY <1>3, <2>1, <2>2
<1>8. \A v \in Elements(r.sets) : Promised!Moved(u, v.sink) = Peek(v.source)
    <2> TAKE v \in Elements(r.sets)
    <2>1. (CHOOSE w \in u.moves : w.sink = v.sink) = v
        BY <1>3, <1>4
    <2> QED
        BY <1>7, <2>1 DEF Promised!Moved
<1>9. /\ \A x : x \in Promised!Sinks(u) <=> \E v \in Elements(r.sets) : v.sink = x
      /\ \A f : Promised!In(f) = InEnd(f) /\ Promised!Out(f) = OutEnd(f)
      /\ Promised!Kept = UserPorts \ Cancelled
    BY <1>4 DEF Promised!Sinks, Promised!In, Promised!Out, InEnd, OutEnd, Promised!Kept
<1>10. Promised!CanServe(u)
    BY <1>2, <1>4, <1>6, <1>7, <1>9 DEF Promised!CanServe
<1>11. /\ \A b \in Automata : Mode(b)' = IF b = a THEN r.to ELSE Mode(b)
       /\ \A p \in UserPorts : \A v \in Elements(r.sets) : v.sink = p => Datum(p)' = Peek(v.source)
       /\ \A p \in UserPorts : (\A v \in Elements(r.sets) : v.sink # p) => Datum(p)' = Datum(p)
       /\ \A p \in UserPorts \ Cancelled :
            Request(p)' = IF p \in Elements(r.ports) THEN "done" ELSE Request(p)
       /\ AnswerView' = AnswerView
    <2>1. ASSUME NEW p \in UserPorts, \A v \in Elements(r.sets) : v.sink # p
          PROVE  Datum(p)' = Datum(p)
        <3>1. Coming("set", p)' = Coming("set", p) /\ data'[p] = data[p]
            BY <1>1, <2>1, FireChanges DEF Firing
        <3> QED
            BY <1>1, <3>1, DatumStays
    <2> QED
        BY <2>1, FireWrites
<1>12. ModeView' = [ModeView EXCEPT ![a] = u.to]
    BY <1>2, <1>4, <1>11 DEF ModeView
<1>13. RequestView' = [p \in Promised!Kept |-> IF p \in u.ports THEN "done" ELSE RequestView[p]]
    BY <1>4, <1>9, <1>11 DEF RequestView
<1>14. DatumView' = [p \in UserPorts |-> IF p \in Promised!Sinks(u) THEN Promised!Moved(u, p)
                                         ELSE DatumView[p]]
    <2>1. ASSUME NEW p \in UserPorts
          PROVE  Datum(p)' = IF p \in Promised!Sinks(u) THEN Promised!Moved(u, p) ELSE DatumView[p]
        <3>1. CASE \E v \in Elements(r.sets) : v.sink = p
            BY <1>8, <1>9, <1>11, <3>1
        <3>2. CASE \A v \in Elements(r.sets) : v.sink # p
            BY <1>9, <1>11, <3>2 DEF DatumView
        <3> QED
            BY <3>1, <3>2
    <2> QED
        BY <2>1 DEF DatumView
<1>15. QueueView' = [f \in Fifos |->
                        (IF Promised!Out(f) \in u.ports THEN Tail(QueueView[f]) ELSE QueueView[f])
                        \o (IF Promised!In(f) \in Promised!Sinks(u)
                            THEN <<Promised!Moved(u, Promised!In(f))>> ELSE <<>>)]
    <2>1. ASSUME NEW f \in Fifos
          PROVE  Queue(f)' = (IF OutEnd(f) \in u.ports THEN Tail(Queue(f)) ELSE Queue(f))
                             \o (IF InEnd(f) \in Promised!Sinks(u)
                                 THEN <<Promised!Moved(u, InEnd(f))>> ELSE <<>>)
        <3> DEFINE kept == Remains(f, r)
        <3>1. /\ \A v \in Elements(r.sets) :
                    v.sink = InEnd(f) => Queue(f)' = kept \o <<Peek(v.source)>>
              /\ (\A v \in Elements(r.sets) : v.sink # InEnd(f)) => Queue(f)' = kept \o <<>>
            BY FireWrites
        <3>2. kept = IF OutEnd(f) \in u.ports THEN Tail(Queue(f)) ELSE Queue(f)
            BY <1>4 DEF Remains
        <3> HIDE DEF kept
        <3>3. CASE \E v \in Elements(r.sets) : v.sink = InEnd(f)
            <4>1. PICK v \in Elements(r.sets) : v.sink = InEnd(f)
                BY <3>3
            <4>2. Queue(f)' = kept \o <<Peek(v.source)>> /\ InEnd(f) \in Promised!Sinks(u)
                BY <1>9, <3>1, <4>1
            <4>3. Promised!Moved(u, InEnd(f)) = Peek(v.source)
                BY <1>8, <4>1
            <4> QED
                BY <3>2, <4>2, <4>3
        <3>4. CASE \A v \in Elements(r.sets) : v.sink # InEnd(f)
            <4>1. Queue(f)' = kept \o <<>> /\ InEnd(f) \notin Promised!Sinks(u)
                BY <1>9, <3>1, <3>4
            <4> QED
                BY <3>2, <4>1
        <3> QED
            BY <3>3, <3>4
    <2> QED
        BY <1>9, <2>1 DEF QueueView
<1>16. Promised!Serve(a, u)
    BY <1>10, <1>11, <1>12, <1>13, <1>14, <1>15
    DEF Promised!Serve, ModeView, RequestView, DatumView, QueueView, AnswerView
<1>17. Promised!Next
    BY <1>2, <1>5, <1>16 DEF Promised!Next, StepsView, ModeView
<1>18. OneValue'
    BY FireAgrees
<1> QED
    BY <1>17, <1>18

-----------------------------------------------------------------------------
(* The other steps                                                         *)

LEMMA ComingStays ==
    ASSUME ThreadsOK, todo' = todo \/ \E t \in Threads : \E x :
                todo[t] = <<>> /\ todo' = [todo EXCEPT ![t] = <<<<"signal", x>>>>]
    PROVE  \A kind \in Foreseen : \A x : Coming(kind, x)' = Coming(kind, x)
<1>1. todo = [u \in Threads |-> todo[u]]
    BY DEF ThreadsOK
<1>2. \A u \in Threads : \A c : c[1] # "signal" => (c \in Ops(u)' <=> c \in Ops(u))
    <2>1. CASE todo' = todo
        BY <2>1 DEF Ops
    <2>2. ASSUME NEW t \in Threads, NEW x, todo[t] = <<>>,
                 todo' = [todo EXCEPT ![t] = <<<<"signal", x>>>>], NEW u \in Threads,
                 NEW c, c[1] # "signal"
          PROVE  c \in Ops(u)' <=> c \in Ops(u)
        <3>1. CASE u = t
            <4>1. Ops(u) = {}
                BY <2>2, <3>1 DEF Ops, Elements
            <4>2. todo'[u] = <<<<"signal", x>>>>
                BY <1>1, <2>2, <3>1
            <4>3. \A e \in Ops(u)' : e[1] = "signal"
                BY <4>2 DEF Ops, Elements
            <4> QED
                BY <2>2, <4>1, <4>3
        <3>2. CASE u # t
            BY <1>1, <2>2, <3>2 DEF Ops
        <3> QED
            BY <3>1, <3>2
    <2> QED
        BY <2>1, <2>2
<1>3. ASSUME NEW kind \in Foreseen, NEW x
      PROVE  Coming(kind, x)' = Coming(kind, x)
    <2>1. \A c : c \in Coming(kind, x)' <=> /\ \E u \in Threads : c \in Ops(u)'
                                            /\ c[1] = kind /\ c[2] = x
        BY DEF Coming, Ops
    <2>2. \A c : c \in Coming(kind, x)' <=> c \in Coming(kind, x)
        BY <1>2, <2>1, ComingAre DEF Foreseen
    <2>3. Coming(kind, x)' \subseteq Coming(kind, x) /\ Coming(kind, x) \subseteq Coming(kind, x)'
        BY <2>2
    <2> QED
        BY <2>3
<1> QED
    BY <1>3

\* A thread that takes no call on, and makes none.
LEMMA QuietSeen ==
    ASSUME CInv, CInv', OneValue, UNCHANGED <<state, entered, left>>,
           \A kind \in Foreseen : \A x : Coming(kind, x)' = Coming(kind, x)
    PROVE  /\ ModeView' = ModeView /\ QueueView' = QueueView /\ OneValue'
           /\ data' = data => DatumView' = DatumView
<1>1. /\ \A x : Coming("state", x)' = Coming("state", x)
      /\ \A x : Coming("set", x)' = Coming("set", x)
      /\ \A x : Coming("push", x)' = Coming("push", x)
    BY DEF Foreseen
<1>2. ModeView' = ModeView
    <2>1. ASSUME NEW a \in Automata
          PROVE  Mode(a)' = Mode(a)
        BY <1>1, ModeStays
    <2> QED
        BY <2>1 DEF ModeView
<1>3. QueueView' = QueueView
    BY <1>1, QueueStays
<1>4. OneValue'
    BY <1>1 DEF OneValue
<1>5. ASSUME data' = data
      PROVE  DatumView' = DatumView
    <2>1. ASSUME NEW p \in UserPorts
          PROVE  Datum(p)' = Datum(p)
        BY <1>1, <1>5, DatumStays
    <2> QED
        BY <2>1 DEF DatumView
<1> QED
    BY <1>2, <1>3, <1>4, <1>5

LEMMA RequestsKept ==
    ASSUME \A p \in UserPorts \ Cancelled :
            (pc'[p] = "idle" <=> pc[p] = "idle") /\ status'[p] = status[p] /\ fired'[p] = fired[p]
    PROVE  RequestView' = RequestView
<1>1. \A p \in UserPorts \ Cancelled : Request(p)' = Request(p)
    BY DEF Request
<1> QED
    BY <1>1 DEF RequestView

\* A thread that goes on, and changes nothing that the components see.
LEMMA GoingOn ==
    ASSUME SeenInv, CInv', NEW t \in Threads, NEW l, pc' = [pc EXCEPT ![t] = l],
           t \in UserPorts => pc[t] # "idle" /\ l # "idle" /\ (l = "unregister" => t \in TimedPorts),
           UNCHANGED <<state, data, fired, entered, left, result>>,
           \A p \in UserPorts \ Cancelled : status'[p] = status[p],
           todo' = todo \/ \E x : todo[t] = <<>> /\ todo' = [todo EXCEPT ![t] = <<<<"signal", x>>>>]
    PROVE  UNCHANGED Promised!vars /\ SeenInv'
<1>1. CInv /\ OneValue /\ TimedOnly /\ ThreadsOK /\ pc = [u \in Threads |-> pc[u]]
    BY DEF SeenInv, CInv, TypesOK, ThreadsOK
<1>2. \A kind \in Foreseen : \A x : Coming(kind, x)' = Coming(kind, x)
    BY <1>1, ComingStays
<1>3. ModeView' = ModeView /\ QueueView' = QueueView /\ OneValue' /\ DatumView' = DatumView
    BY <1>1, <1>2, QuietSeen
<1>4. \A p \in UserPorts : IF p = t THEN pc'[p] = l ELSE pc'[p] = pc[p]
    BY <1>1, PortThread
<1>5. RequestView' = RequestView
    BY <1>4, RequestsKept
<1>6. TimedOnly'
    BY <1>1, <1>4 DEF TimedOnly
<1>7. AnswerView' = AnswerView
    BY DEF AnswerView
<1> QED
    BY <1>3, <1>5, <1>6, <1>7
    DEF SeenInv, Promised!vars, ModeView, QueueView, DatumView, RequestView, AnswerView

\* A component calls put or get.
LEMMA BeginSeen ==
    ASSUME SeenInv, CInv', NEW p \in UserPorts, Begin(p)
    PROVE  [Promised!Next]_(Promised!vars) /\ SeenInv'
<1>1. CInv /\ OneValue /\ TimedOnly /\ ThreadsOK /\ pc = [u \in Threads |-> pc[u]] /\ p \in Threads
    BY PortThread DEF SeenInv, CInv, TypesOK, ThreadsOK
<1>2. /\ pc[p] = "idle" /\ pc' = [pc EXCEPT ![p] = "register"]
      /\ status' = [status EXCEPT ![p] = "pending"] /\ fired' = [fired EXCEPT ![p] = 0]
      /\ UNCHANGED <<state, entered, left, result>> /\ todo' = todo
    BY DEF Begin, Goto, autVars
<1>3. PICK d \in IF p \in PutPorts THEN Data ELSE {Null} : data' = [data EXCEPT ![p] = d]
    BY CPortAssumption DEF Begin
<1>4. \A kind \in Foreseen : \A x : Coming(kind, x)' = Coming(kind, x)
    BY <1>1, <1>2, ComingStays
<1>5. ModeView' = ModeView /\ QueueView' = QueueView /\ OneValue' /\ AnswerView' = AnswerView
    BY <1>1, <1>2, <1>4, QuietSeen DEF AnswerView
<1>6. \A q \in UserPorts : /\ pc'[q] = IF q = p THEN "register" ELSE pc[q]
                           /\ status'[q] = IF q = p THEN "pending" ELSE status[q]
                           /\ fired'[q] = IF q = p THEN 0 ELSE fired[q]
                           /\ data'[q] = IF q = p THEN d ELSE data[q]
    BY <1>1, <1>2, <1>3, PortThread DEF CInv, TypesOK, FieldsOK
<1>7. SeenInv'
    BY <1>1, <1>5, <1>6 DEF SeenInv, TimedOnly
<1>8. ASSUME NEW q \in UserPorts \ {p}
      PROVE  Datum(q)' = Datum(q)
    <2>1. Coming("set", q)' = Coming("set", q)
        BY <1>4 DEF Foreseen
    <2> QED
        BY <1>1, <1>6, <2>1, DatumStays
<1>9. CASE Coming("set", p) = {}
    <2>1. Coming("set", p)' = {}
        BY <1>4, <1>9 DEF Foreseen
    <2>2. Datum(p)' = d
        BY <1>6, <2>1, ComesIs DEF Datum, Due
    <2>3. DatumView' = [DatumView EXCEPT ![p] = d]
        BY <1>8, <2>2 DEF DatumView
    <2>4. \A q \in UserPorts \ Cancelled :
            Request(q)' = IF q = p THEN "pending" ELSE Request(q)
        BY <1>6 DEF Request
    <2>5. p \in UserPorts \ Cancelled => Request(p) = "none"
        BY <1>2 DEF Request
    <2>6. RequestView' = [q \in UserPorts \ Cancelled |-> IF q = p THEN "pending" ELSE RequestView[q]]
        BY <2>4 DEF RequestView
    <2>7. Promised!Ask(p)
        BY <1>3, <1>5, <2>3, <2>5, <2>6
        DEF Promised!Ask, Promised!Kept, ModeView, QueueView, DatumView, RequestView, AnswerView
    <2> QED
        BY <1>7, <2>7 DEF Promised!Next
<1>10. CASE Coming("set", p) # {}
    <2>1. p \in Cancelled
        <3>1. Setting(p)
            <4>1. PICK c \in Coming("set", p) : TRUE
                BY <1>10
            <4>2. c[1] = "set" /\ c[2] = p /\ \E u \in Main : c \in Ops(u)
                BY <1>1, ComingAre, ComingOwned DEF CInv, Foreseen
            <4> QED
                BY <4>2 DEF Setting, Has
        <3> QED
            BY <1>1, <1>2, <3>1 DEF CInv, PortsOK, PortOK
    <2>2. Datum(p)' = Datum(p)
        <3>1. Coming("set", p)' = Coming("set", p)
            BY <1>4 DEF Foreseen
        <3>2. PICK c \in Coming("set", p) : TRUE
            BY <1>10
        <3>3. \A e \in Coming("set", p) : e[3] = c[3]
            BY <1>1, <3>2 DEF OneValue
        <3>4. Datum(p) = c[3] /\ Datum(p)' = c[3]
            BY <3>1, <3>2, <3>3, ComesIs DEF Datum, Due
        <3> QED
            BY <3>4
    <2>3. DatumView' = DatumView
        BY <1>8, <2>2 DEF DatumView
    <2>4. RequestView' = RequestView
        BY <1>6, <2>1, RequestsKept
    <2> QED
        BY <1>5, <1>7, <2>3, <2>4
        DEF Promised!vars, ModeView, QueueView, DatumView, RequestView, AnswerView
<1> QED
    BY <1>9, <1>10

\* It returns, and tells what has become of the request.
LEMMA ReturnSeen ==
    ASSUME SeenInv, CInv', NEW p \in UserPorts, Return(p),
           (Goto(p, "test", "idle") /\ status[p] # "pending") \/ Goto(p, "return", "idle"),
           UNCHANGED <<state, data, status, todo, fired, entered, left>>
    PROVE  [Promised!Next]_(Promised!vars) /\ SeenInv'
<1>1. CInv /\ OneValue /\ TimedOnly /\ ThreadsOK /\ pc = [u \in Threads |-> pc[u]] /\ p \in Threads
    BY PortThread DEF SeenInv, CInv, TypesOK, ThreadsOK
<1>2. pc[p] \in {"test", "return"} /\ pc' = [pc EXCEPT ![p] = "idle"]
      /\ (pc[p] = "test" => status[p] # "pending") /\ result' = [result EXCEPT ![p] = status[p]]
    BY DEF Goto, Return
<1>3. \A kind \in Foreseen : \A x : Coming(kind, x)' = Coming(kind, x)
    BY <1>1, ComingStays
<1>4. ModeView' = ModeView /\ QueueView' = QueueView /\ OneValue' /\ DatumView' = DatumView
    BY <1>1, <1>3, QuietSeen
<1>5. \A q \in UserPorts : /\ pc'[q] = IF q = p THEN "idle" ELSE pc[q]
                           /\ result'[q] = IF q = p THEN status[p] ELSE result[q]
    BY <1>1, <1>2, PortThread DEF CInv, TypesOK, FieldsOK
<1>6. SeenInv'
    BY <1>1, <1>4, <1>5 DEF SeenInv, TimedOnly
<1>7. CASE p \in Cancelled
    <2>1. RequestView' = RequestView
        BY <1>5, <1>7, RequestsKept
    <2>2. AnswerView' = AnswerView
        BY <1>5, <1>7 DEF AnswerView
    <2> QED
        BY <1>4, <1>6, <2>1, <2>2
        DEF Promised!vars, ModeView, QueueView, DatumView, RequestView, AnswerView
<1>8. CASE p \in UserPorts \ Cancelled
    <2>1. \A q \in UserPorts \ Cancelled : Request(q)' = IF q = p THEN "none" ELSE Request(q)
        BY <1>5 DEF Request
    <2>2. RequestView' = [RequestView EXCEPT ![p] = "none"]
        BY <1>8, <2>1 DEF RequestView
    <2>3. AnswerView' = [AnswerView EXCEPT ![p] = status[p]]
        BY <1>5, <1>8 DEF AnswerView
    <2>4. PortOK(p) /\ status[p] \in {"pending", "success", "failed"} /\ fired[p] \in Nat
        BY <1>1, <1>8 DEF CInv, PortsOK, TypesOK, FieldsOK
    <2>5. \/ status[p] = "failed" /\ Request(p) = "withdrawn"
          \/ status[p] = "success" /\ Request(p) = "done"
          \/ status[p] = "pending" /\ Request(p) = "pending"
        BY <1>2, <2>4 DEF PortOK, Request
    <2>6. RequestView[p] = Request(p)
        BY <1>8 DEF RequestView
    <2>7. Promised!Return(p)
        BY <1>4, <2>2, <2>3, <2>5, <2>6
        DEF Promised!Return, ModeView, QueueView, DatumView, RequestView, AnswerView
    <2> QED
        BY <1>6, <1>8, <2>7 DEF Promised!Next, Promised!Kept
<1> QED
    BY <1>7, <1>8

\* It times out: it has been served, or it is withdrawn.
LEMMA ExpireSeen ==
    ASSUME SeenInv, CInv', NEW p \in UserPorts, Expire(p)
    PROVE  [Promised!Next]_(Promised!vars) /\ SeenInv'
<1>1. CInv /\ OneValue /\ TimedOnly /\ ThreadsOK /\ pc = [u \in Threads |-> pc[u]] /\ p \in Threads
    BY PortThread DEF SeenInv, CInv, TypesOK, ThreadsOK
<1>2. /\ pc[p] = "unregister" /\ pc' = [pc EXCEPT ![p] = "return"] /\ todo[p] = <<>>
      /\ holder[AutomatonOf(p)] = Null /\ p \in TimedPorts
      /\ UNCHANGED <<state, data, fired, entered, left, result>> /\ todo' = todo
      /\ \/ status' = status
         \/ status[p] # "success" /\ status' = [status EXCEPT ![p] = "failed"]
    BY <1>1 DEF Expire, Unregister, Goto, TimedOnly, history, userVars
<1>3. CASE p \in Cancelled \/ status' = status
    <2>1. \A q \in UserPorts \ Cancelled : status'[q] = status[q]
        BY <1>1, <1>2, <1>3 DEF CInv, TypesOK, FieldsOK
    <2> QED
        BY <1>1, <1>2, <2>1, GoingOn
<1>4. CASE p \in UserPorts \ Cancelled /\ status[p] # "success"
           /\ status' = [status EXCEPT ![p] = "failed"]
    <2>1. \A kind \in Foreseen : \A x : Coming(kind, x)' = Coming(kind, x)
        BY <1>1, <1>2, ComingStays
    <2>2. /\ ModeView' = ModeView /\ QueueView' = QueueView /\ OneValue' /\ DatumView' = DatumView
          /\ AnswerView' = AnswerView
        BY <1>1, <1>2, <2>1, QuietSeen DEF AnswerView
    <2>3. \A q \in UserPorts : /\ pc'[q] = IF q = p THEN "return" ELSE pc[q]
                               /\ status'[q] = IF q = p THEN "failed" ELSE status[q]
        BY <1>1, <1>2, <1>4, PortThread DEF CInv, TypesOK, FieldsOK
    <2>4. SeenInv'
        BY <1>1, <2>2, <2>3 DEF SeenInv, TimedOnly
    <2>5. \A q \in UserPorts \ Cancelled : Request(q)' = IF q = p THEN "withdrawn" ELSE Request(q)
        BY <1>2, <2>3 DEF Request
    <2>6. RequestView' = [RequestView EXCEPT ![p] = "withdrawn"]
        BY <1>4, <2>5 DEF RequestView
    <2>7. Request(p) \in {"pending", "withdrawn"}
        <3>1. PortOK(p) /\ status[p] \in {"pending", "failed"} /\ fired[p] \in Nat
            BY <1>1, <1>4 DEF CInv, PortsOK, TypesOK, FieldsOK
        <3>2. ~Served(p)
            BY <1>1, <1>2, NotLeaving
        <3> QED
            BY <1>2, <3>1, <3>2 DEF PortOK, Request
    <2>8. RequestView[p] = Request(p) /\ RequestView = [q \in UserPorts \ Cancelled |-> RequestView[q]]
        BY <1>4 DEF RequestView
    <2>9. CASE Request(p) = "pending"
        <3>1. Promised!Withdraw(p)
            BY <2>2, <2>6, <2>8, <2>9
            DEF Promised!Withdraw, ModeView, QueueView, DatumView, RequestView, AnswerView
        <3> QED
            BY <1>2, <1>4, <2>4, <3>1 DEF Promised!Next, Promised!Kept
    <2>10. CASE Request(p) = "withdrawn"
        <3>1. RequestView' = RequestView
            BY <2>6, <2>8, <2>10
        <3> QED
            BY <2>2, <2>4, <3>1
            DEF Promised!vars, ModeView, QueueView, DatumView, RequestView, AnswerView
    <2> QED
        BY <2>7, <2>9, <2>10
<1> QED
    BY <1>2, <1>3, <1>4

\* A round of the loop over the transitions of a port or of an automaton.
LEMMA TrySeen ==
    ASSUME SeenInv, CInv', NEW t \in Main, Critical(t), todo[t] = <<>>, NEW a, a = Home(t),
           NEW r \in Elements(FromState(a)), Fire(t, a, r), pc[t] \in {"try", "loop_try"},
           NEW l \in {"fired", "loop_fired"}, pc' = [pc EXCEPT ![t] = l],
           UNCHANGED <<state, data, status, ring, head, tail, result>>
    PROVE  Promised!Next /\ SeenInv'
<1>1. Firing(t, a, r)
    BY DEF Firing
<1>2. Promised!Next /\ OneValue'
    BY <1>1, FireSeen
<1>3. pc = [u \in Threads |-> pc[u]] /\ t \in Threads /\ TimedOnly
    BY ThreadNames DEF SeenInv, CInv, TypesOK, ThreadsOK
<1>4. TimedOnly'
    BY <1>3, PortThread DEF TimedOnly
<1> QED
    BY <1>2, <1>4 DEF SeenInv

LEMMA CallTrySeen ==
    ASSUME SeenInv, CInv', NEW p \in UserPorts, CallTry(p)
    PROVE  [Promised!Next]_(Promised!vars) /\ SeenInv'
<1> DEFINE a == AutomatonOf(p)
           s == TransitionsFor(p)
           idx == RoundRobin(p)
<1>1. CInv /\ p \in Threads /\ p \in Main /\ Home(p) = a /\ pc[p] = "try" /\ todo[p] = <<>>
      /\ cur[p] \in Nat \ {0}
    BY PortThread DEF SeenInv, CInv, TypesOK, ThreadsOK, CallTry, Goto
<1>2. UNCHANGED <<state, data, status, ring, head, tail, result>>
    BY DEF CallTry, autVars, portFields, fifoVars
<1>3. CASE Goto(p, "try", "fired") /\ Fire(p, a, s[idx + 1])
    <2>1. /\ s \in Seq(Elements(FromState(a))) /\ cur[p] <= Len(s)
          /\ state[a] \in States /\ last[p][state[a]] \in Nat
        BY <1>1, TransitionsForFacts DEF CallTry, CInv, TypesOK, FieldsOK
    <2>2. idx + 1 \in 1 .. Len(s)
        <3>1. idx = (last[p][state[a]] + cur[p]) % Len(s)
            BY DEF RoundRobin
        <3>2. last[p][state[a]] + cur[p] \in Nat /\ Len(s) \in Nat \ {0}
            BY <1>1, <2>1, LenProperties
        <3> HIDE DEF s, idx, a
        <3> QED
            BY <3>1, <3>2
    <2>3. s[idx + 1] \in Elements(FromState(a))
        <3> HIDE DEF s, idx, a
        <3> QED
            BY <2>1, <2>2
    <2>4. pc' = [pc EXCEPT ![p] = "fired"] /\ Critical(p)
        BY <1>1, <1>3 DEF Goto, Critical
    <2>5. Promised!Next /\ SeenInv'
        <3> SUFFICES ASSUME NEW r \in Elements(FromState(a)), Fire(p, a, r)
                     PROVE  Promised!Next /\ SeenInv'
            BY <1>3, <2>3
        <3> HIDE DEF s, idx, a
        <3> QED
            BY <1>1, <1>2, <2>4, TrySeen
    <2> QED
        BY <2>5
<1>4. CASE Goto(p, "try", "try") /\ UNCHANGED <<todo, history, last>>
    <2>1. /\ pc' = [pc EXCEPT ![p] = "try"] /\ todo' = todo
          /\ UNCHANGED <<state, data, fired, entered, left, result>> /\ status' = status
        BY <1>2, <1>4 DEF Goto, history
    <2> QED
        BY <1>1, <2>1, GoingOn
<1> QED
    BY <1>3, <1>4 DEF CallTry

LEMMA PortSeen ==
    ASSUME SeenInv, CInv', NEW p \in UserPorts, ActionStep(p)
    PROVE  [Promised!Next]_(Promised!vars) /\ SeenInv'
<1> USE DEF userVars, autVars, portFields, fifoVars, history
<1>1. p \in Threads
    BY PortThread
<1>2. ASSUME NEW l, l \notin {"idle", "unregister"} \/ (l = "unregister" /\ p \in TimedPorts),
             pc[p] # "idle", pc' = [pc EXCEPT ![p] = l], todo' = todo,
             UNCHANGED <<state, data, status, fired, entered, left, result>>
      PROVE  UNCHANGED Promised!vars /\ SeenInv'
    BY <1>1, <1>2, GoingOn
<1>3. CASE Register(p) \/ CallLock(p) \/ CallContains(p) \/ CallUnlock(p) \/ Wait(p) \/ Timeout(p)
    BY <1>2, <1>3 DEF Register, CallLock, CallContains, CallUnlock, Wait, Timeout, Goto
<1>4. CASE Test(p)
    <2>1. CASE Goto(p, "test", "lock") /\ UNCHANGED result
        BY <1>2, <1>4, <2>1 DEF Test, Goto
    <2>2. CASE Goto(p, "test", "idle") /\ status[p] # "pending" /\ Return(p)
        BY <1>4, <2>2, ReturnSeen DEF Test
    <2> QED
        BY <1>4, <2>1, <2>2 DEF Test
<1>5. CASE CallReturn(p)
    BY <1>5, ReturnSeen DEF CallReturn
<1> QED
    BY <1>3, <1>4, <1>5, CallTrySeen, ExpireSeen DEF ActionStep

LEMMA LoopSeen ==
    ASSUME SeenInv, CInv', NEW a \in Active, RunLoop(a)
    PROVE  [Promised!Next]_(Promised!vars) /\ SeenInv'
<1> USE DEF userVars, autVars, portFields, fifoVars, history
<1>1. a \in Threads /\ a \notin UserPorts /\ a \in Main /\ Home(a) = a /\ a \in Automata
    BY ThreadNames, AutomatonAssumption DEF Threads, Main, Home
<1>2. ASSUME \E l : pc' = [pc EXCEPT ![a] = l],
             UNCHANGED <<state, data, status, fired, entered, left, result>>, todo' = todo
      PROVE  UNCHANGED Promised!vars /\ SeenInv'
    BY <1>1, <1>2, GoingOn
<1>3. CASE LoopTry(a)
    <2>1. /\ cur[a] <= Len(FromState(a)) /\ UNCHANGED <<state, data, status, ring, head, tail, result>>
          /\ pc[a] = "loop_try" /\ todo[a] = <<>>
        BY <1>3 DEF LoopTry, RunLoop, Goto
    <2>2. CASE Goto(a, "loop_try", "loop_fired") /\ Fire(a, a, FromState(a)[cur[a]])
        <3>1. FromState(a) \in Seq(Elements(FromState(a))) /\ cur[a] \in Nat \ {0}
            <4>1. state[a] \in States /\ cur[a] \in Nat \ {0}
                BY <1>1, <2>1 DEF SeenInv, CInv, TypesOK, FieldsOK, ThreadsOK
            <4> QED
                BY <1>1, <4>1, AutomatonAssumption DEF FromState
        <3>2. FromState(a)[cur[a]] \in Elements(FromState(a))
            BY <2>1, <3>1, LenProperties
        <3>3. pc' = [pc EXCEPT ![a] = "loop_fired"] /\ Critical(a)
            BY <2>1, <2>2 DEF Goto, Critical
        <3> SUFFICES ASSUME NEW r \in Elements(FromState(a)), Fire(a, a, r)
                     PROVE  Promised!Next /\ SeenInv'
            BY <2>2, <3>2
        <3> QED
            BY <1>1, <2>1, <3>3, TrySeen
    <2>3. CASE Goto(a, "loop_try", "loop_try") /\ UNCHANGED <<todo, history>>
        BY <1>2, <2>1, <2>3 DEF Goto
    <2> QED
        BY <1>3, <2>2, <2>3 DEF LoopTry
<1>4. CASE ~LoopTry(a)
    <2>1. /\ \E l : pc' = [pc EXCEPT ![a] = l]
          /\ UNCHANGED <<state, data, status, fired, entered, left, result>> /\ todo' = todo
        BY <1>4 DEF RunLoop, LoopStep, LoopStart, LoopLock, LoopSignalSelf, LoopUnlock, LoopCheck,
                    LoopWait, Goto
    <2> QED
        BY <1>2, <2>1
<1> QED
    BY <1>3, <1>4

LEMMA BystanderSeen ==
    ASSUME SeenInv, CInv', (\E p \in Cancelled : Cancel(p)) \/ \E a \in Stopped : StopAutomaton(a)
    PROVE  UNCHANGED Promised!vars /\ SeenInv'
<1> USE DEF userVars, autVars, portFields, fifoVars, history
<1>1. ASSUME NEW p \in Cancelled, Cancel(p)
      PROVE  UNCHANGED Promised!vars /\ SeenInv'
    <2>1. Canceller(p) \in Threads /\ Canceller(p) \notin UserPorts
        BY ThreadNames DEF Main
    <2>2. /\ pc' = [pc EXCEPT ![Canceller(p)] = "idle"] /\ todo[Canceller(p)] = <<>>
          /\ todo' = [todo EXCEPT ![Canceller(p)] = <<<<"signal", p>>>>]
          /\ UNCHANGED <<state, data, fired, entered, left, result>>
          /\ status' = status \/ status' = [status EXCEPT ![p] = "failed"]
        BY <1>1 DEF Cancel, Unregister, Goto
    <2>3. \A q \in UserPorts \ Cancelled : status'[q] = status[q]
        BY <2>2 DEF SeenInv, CInv, TypesOK, FieldsOK
    <2> QED
        BY <2>1, <2>2, <2>3, GoingOn
<1>2. ASSUME NEW a \in Stopped, StopAutomaton(a)
      PROVE  UNCHANGED Promised!vars /\ SeenInv'
    <2>1. Stopper(a) \in Threads /\ Stopper(a) \notin UserPorts
        BY ThreadNames DEF Main
    <2>2. /\ \E l : pc' = [pc EXCEPT ![Stopper(a)] = l]
          /\ todo' = todo \/ \E x : /\ todo[Stopper(a)] = <<>>
                                    /\ todo' = [todo EXCEPT ![Stopper(a)] = <<<<"signal", x>>>>]
          /\ UNCHANGED <<state, data, status, fired, entered, left, result>>
        BY <1>2 DEF StopAutomaton, Stop, Join, Goto
    <2> QED
        BY <2>1, <2>2, GoingOn
<1> QED
    BY <1>1, <1>2

-----------------------------------------------------------------------------
(* The circuit                                                             *)

LEMMA InitSeen == Init => Promised!Init /\ SeenInv
<1> SUFFICES ASSUME Init
             PROVE  Promised!Init /\ SeenInv
    OBVIOUS
<1>1. CInv
    BY InitiallyTrue
<1>2. \A t \in Threads : Ops(t) = {}
    BY DEF Init, Ops, Elements
<1>3. \A kind, x : Coming(kind, x) = {}
    BY <1>2, ComingAre
<1>4. OneValue
    BY <1>3 DEF OneValue
<1>5. \A p \in UserPorts : pc[p] = "idle" /\ Datum(p) = Null /\ Request(p) = "none"
    BY <1>3, ThreadNames, ComesIs DEF Init, Threads, Datum, Due, Request
<1>6. TimedOnly
    BY <1>5 DEF TimedOnly
<1>7. \A a \in Automata : Mode(a) = InitState[a]
    BY <1>3, ComesIs DEF Init, Mode, Due
<1>8. ASSUME NEW f \in Fifos
      PROVE  Queue(f) = <<>>
    <2>1. RestOK
        BY <1>1, RestFacts
    <2>2. entered[f] = <<>> /\ left[f] = <<>>
        BY DEF Init
    <2>3. Rest(f) = <<>> /\ Brought(f) = <<>>
        <3>1. <<>> = <<>> \o Rest(f) /\ Rest(f) \in Seq(Data)
            BY <2>1, <2>2 DEF RestOK
        <3> QED
            BY <1>3, <3>1, ConcatEmptySeq DEF Brought
    <2> QED
        BY <1>1, <2>3, BroughtFacts, ConcatEmptySeq
<1>9. InitState \in [Automata -> States]
    BY AutomatonAssumption
<1> QED
    BY <1>1, <1>4, <1>5, <1>6, <1>7, <1>8, <1>9
    DEF SeenInv, Promised!Init, Promised!Kept, Init

LEMMA StepSeen == SeenInv /\ [Next]_vars => [Promised!Next]_(Promised!vars) /\ SeenInv'
<1> SUFFICES ASSUME SeenInv, [Next]_vars
             PROVE  [Promised!Next]_(Promised!vars) /\ SeenInv'
    OBVIOUS
<1>1. CInv /\ OneValue /\ TimedOnly
    BY DEF SeenInv
<1>2. CInv'
    BY <1>1, StepPreserves
<1>3. ASSUME NEW t \in Threads, RunCalls(t)
      PROVE  UNCHANGED Promised!vars /\ SeenInv'
    <2>1. pc' = pc
        BY <1>3 DEF RunCalls, CallStep, Signal, SetData, ResolveStatus, RemoveFromContext, SetState,
                    Push, Pop, UpdateInput, UpdateOutput, UnlockFifo
    <2>2. UNCHANGED Promised!vars /\ OneValue'
        BY <1>2, <1>3, CallSeen
    <2> QED
        BY <1>1, <1>2, <2>1, <2>2 DEF SeenInv, TimedOnly
<1>4. CASE UNCHANGED vars
    <2>1. /\ UNCHANGED <<state, data, status, fired, entered, left, result, pc>> /\ todo' = todo
        BY <1>4 DEF vars
    <2>2. \A kind \in Foreseen : \A x : Coming(kind, x)' = Coming(kind, x)
        BY <1>1, <2>1, ComingStays DEF CInv, TypesOK
    <2>3. ModeView' = ModeView /\ QueueView' = QueueView /\ OneValue' /\ DatumView' = DatumView
        BY <1>1, <1>2, <2>1, <2>2, QuietSeen
    <2>4. RequestView' = RequestView /\ AnswerView' = AnswerView /\ TimedOnly'
        BY <1>1, <2>1, RequestsKept DEF AnswerView, TimedOnly
    <2> QED
        BY <1>2, <2>3, <2>4
        DEF SeenInv, Promised!vars, ModeView, QueueView, DatumView, RequestView, AnswerView
<1>5. CASE \E p \in UserPorts : Begin(p) \/ ActionStep(p)
    BY <1>2, <1>5, BeginSeen, PortSeen
<1>6. CASE \E a \in Active : RunLoop(a)
    BY <1>2, <1>6, LoopSeen
<1>7. CASE (\E p \in Cancelled : Cancel(p)) \/ \E a \in Stopped : StopAutomaton(a)
    BY <1>2, <1>7, BystanderSeen
<1> QED
    BY <1>3, <1>4, <1>5, <1>6, <1>7 DEF Next

\* The C runtime runs the circuit: whatever the threads of its ports and
\* automata do under their mutexes (REOPort_call, REOAutomaton_loop,
\* REOTransition_fire, REOFifo_update_contexts, REOPort_unregister), a component
\* sees transitions that are one step each, fifos that are bounded queues, and a
\* put or get that succeeds exactly if one transition has served it.
THEOREM CircuitRuns == Spec => RunsCircuit
<1> QED
    BY InitSeen, StepSeen, PTL DEF Spec, RunsCircuit, Promised!Spec
=============================================================================
