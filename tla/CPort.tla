-------------------------------- MODULE CPort --------------------------------
(***************************************************************************)
(* The user ports of the C runtime (port.c) and the whole program: each    *)
(* port is called by one thread, which tries to fire the transitions of    *)
(* its port itself and otherwise sleeps until it is kicked, until its      *)
(* action is resolved by another thread, or until its timeout expires.     *)
(***************************************************************************)
EXTENDS CAutomaton

CONSTANTS PutPorts,     \* the user ports with can_put, the others have can_get
          Puts,         \* the data each of them may put
          TimedPorts,   \* the user ports with a timeout
          MaxCalls      \* bound: actions per user port

ASSUME CPortAssumption ==
    /\ PutPorts \subseteq UserPorts /\ TimedPorts \subseteq UserPorts
    /\ \A p \in PutPorts : Puts[p] \subseteq Data
    /\ MaxCalls \in [UserPorts -> Nat]
    /\ \A a \in Automata : \A s \in States : \A r \in Elements(Transitions[a][s]) :
        /\ \A v \in Elements(r.sets) : v.sink \notin PutPorts /\ v.source \notin UserPorts \ PutPorts
        /\ \A p \in (Elements(r.ports) \cap UserPorts) \ PutPorts : \E v \in Elements(r.sets) : v.sink = p

VARIABLES last,     \* last_transition_of_port, per port and state
          calls,    \* the number of actions each port has begun
          result    \* what its last action returned

vars == <<holder, state, ctx, sem, active, data, status, ring, head, tail, fholder,
          pc, cur, todo, fired, entered, left, last, calls, result>>
userVars == <<last, calls, result>>

-----------------------------------------------------------------------------
\* The program runs once every fifo has been finished: REOFifo_finish has put
\* its input end, for it is empty, in the context, and kicked the automaton.
Init ==
    /\ holder = [a \in Automata |-> Null] /\ state = InitState
    /\ active = [a \in Automata |-> a \in Active]
    /\ ctx = {InEnd(f) : f \in Fifos}
    /\ sem = [x \in Automata \cup UserPorts |->
                IF \E f \in Fifos : <<"signal", x>> \in Elements(Kick(AutomatonOf(InEnd(f))))
                THEN 1 ELSE 0]
    /\ data = [p \in UserPorts |-> Null]
    /\ status = [p \in UserPorts |-> "success"]
    /\ ring = [f \in Fifos |-> [m \in 0 .. Capacity[f] |-> Null]]
    /\ head = [f \in Fifos |-> 0] /\ tail = [f \in Fifos |-> 0]
    /\ fholder = [f \in Fifos |-> Null]
    /\ pc = [t \in Threads |-> IF t \in Active THEN "loop_while" ELSE "idle"]
    /\ cur = [t \in Threads |-> 0] /\ todo = [t \in Threads |-> <<>>]
    /\ fired = [p \in UserPorts |-> 0]
    /\ entered = [f \in Fifos |-> <<>>] /\ left = [f \in Fifos |-> <<>>]
    /\ last = [p \in UserPorts |-> [s \in States |-> 0]]
    /\ calls = [p \in UserPorts |-> 0]
    /\ result = [p \in UserPorts |-> "success"]

Return(p) == result' = [result EXCEPT ![p] = status[p]]

\* REOPort_put after REOPort_set_data, or REOPort_get: status = RPS_Pending.
Begin(p) ==
    /\ Goto(p, "idle", "register") /\ calls[p] < MaxCalls[p]
    /\ IF p \in PutPorts THEN \E d \in Puts[p] : data' = [data EXCEPT ![p] = d]
                         ELSE data' = [data EXCEPT ![p] = Null]
    /\ status' = [status EXCEPT ![p] = "pending"]
    /\ calls' = [calls EXCEPT ![p] = @ + 1]
    /\ fired' = [fired EXCEPT ![p] = 0]
    /\ UNCHANGED <<autVars, ctx, sem, fifoVars, cur, todo, entered, left, last, result>>

Register(p) ==         \* REOPort_register
    /\ Goto(p, "register", "test")
    /\ ctx' = ctx \cup {p}
    /\ UNCHANGED <<autVars, sem, portFields, fifoVars, cur, todo, history, userVars>>

Test(p) ==             \* while (self->status == RPS_Pending && ..., without the mutex
    /\ \/ status[p] = "pending" /\ Goto(p, "test", "lock") /\ UNCHANGED result
       \/ status[p] # "pending" /\ Goto(p, "test", "idle") /\ Return(p)
    /\ UNCHANGED <<autVars, ctx, sem, portFields, fifoVars, cur, todo, history, last, calls>>

(* REOPort_call.                                                            *)

\* Mutant: does not wait for the mutex.
CallLock_NoWait(p) == LET a == AutomatonOf(p) IN
    /\ Goto(p, "lock", "contains")
    /\ holder' = [holder EXCEPT ![a] = p]
    /\ UNCHANGED <<state, active, ctx, sem, portFields, fifoVars, cur, todo, history, userVars>>

CallLock(p) == LET a == AutomatonOf(p) IN
    /\ Goto(p, "lock", "contains") /\ holder[a] = Null
    /\ holder' = [holder EXCEPT ![a] = p]
    /\ UNCHANGED <<state, active, ctx, sem, portFields, fifoVars, cur, todo, history, userVars>>

\* Mutant: tries the transitions although the port has left the context.
CallContains_AlwaysTry(p) ==
    /\ Goto(p, "contains", "try")
    /\ sem' = [sem EXCEPT ![p] = 0]
    /\ cur' = [cur EXCEPT ![p] = 1]
    /\ UNCHANGED <<holder, state, active, ctx, portFields, fifoVars, todo, history, userVars>>

CallContains(p) ==     \* not in the context any more: unlock, return true
    /\ IF p \in ctx
       THEN /\ Goto(p, "contains", "try")
            /\ sem' = [sem EXCEPT ![p] = 0]
            /\ cur' = [cur EXCEPT ![p] = 1]
            /\ UNCHANGED holder
       ELSE /\ Goto(p, "contains", "return")
            /\ holder' = [holder EXCEPT ![AutomatonOf(p)] = Null]
            /\ UNCHANGED <<sem, cur>>
    /\ UNCHANGED <<state, active, ctx, portFields, fifoVars, todo, history, userVars>>

\* transitions_for[index], as it is filled from the transitions of the state,
\* and the index of the cur-th one to be tried.
TransitionsFor(p) ==
    LET trans == FromState(AutomatonOf(p))
        filled[n \in 0 .. Len(trans)] ==
            IF n = 0 THEN <<>>
            ELSE IF p \in Elements(trans[n].ports) THEN Append(filled[n - 1], trans[n])
            ELSE filled[n - 1]
    IN  filled[Len(trans)]
RoundRobin(p) == (last[p][state[AutomatonOf(p)]] + cur[p]) % Len(TransitionsFor(p))

CallTry(p) == LET a == AutomatonOf(p)  n == Len(TransitionsFor(p)) IN
    /\ cur[p] <= n
    /\ LET idx == RoundRobin(p)  r == TransitionsFor(p)[idx + 1] IN
        \/ /\ Goto(p, "try", "fired") /\ Fire(p, a, r)
           /\ last' = [last EXCEPT ![p][state[a]] = idx]
           /\ UNCHANGED cur
        \/ /\ Goto(p, "try", "try") /\ ~Ready(r)
           /\ cur' = [cur EXCEPT ![p] = @ + 1]
           /\ UNCHANGED <<todo, history, last>>
    /\ UNCHANGED <<autVars, ctx, sem, portFields, fifoVars, calls, result>>

CallUnlock(p) ==
    /\ \/ Goto(p, "fired", "return")
       \/ Goto(p, "try", "wait") /\ cur[p] > Len(TransitionsFor(p))
    /\ holder' = [holder EXCEPT ![AutomatonOf(p)] = Null]
    /\ UNCHANGED <<state, active, ctx, sem, portFields, fifoVars, cur, todo, history, userVars>>

CallReturn(p) ==       \* return self->status
    /\ Goto(p, "return", "idle") /\ Return(p)
    /\ UNCHANGED <<autVars, ctx, sem, portFields, fifoVars, cur, todo, history, last, calls>>

Wait(p) ==             \* REOSemaphore_wait, or timedwait in time
    /\ Goto(p, "wait", "test") /\ sem[p] > 0
    /\ sem' = [sem EXCEPT ![p] = @ - 1]
    /\ UNCHANGED <<autVars, ctx, portFields, fifoVars, cur, todo, history, userVars>>

Timeout(p) ==          \* REOSemaphore_timedwait fails
    /\ p \in TimedPorts
    /\ Goto(p, "wait", "unregister") /\ sem[p] = 0
    /\ UNCHANGED <<autVars, ctx, sem, portFields, fifoVars, cur, todo, history, userVars>>

\* Mutant: the status is not looked at again under the mutex.
Unregister_NoTest(t, p) ==
    /\ holder[AutomatonOf(p)] = Null
    /\ ctx' = ctx \ {p} /\ status' = [status EXCEPT ![p] = "failed"] /\ UNCHANGED holder
    /\ UNCHANGED <<state, active, data>>

\* REOPort_unregister, executed by t under the mutex.  When the action has
\* been resolved in the meantime, it returns with the mutex held.
Unregister(t, p) ==
    /\ holder[AutomatonOf(p)] = Null
    /\ IF status[p] = "success"
       THEN holder' = [holder EXCEPT ![AutomatonOf(p)] = t] /\ UNCHANGED <<ctx, status>>
       ELSE ctx' = ctx \ {p} /\ status' = [status EXCEPT ![p] = "failed"] /\ UNCHANGED holder
    /\ UNCHANGED <<state, active, data>>

Expire(p) ==
    /\ Goto(p, "unregister", "return") /\ Unregister(p, p)
    /\ UNCHANGED <<sem, fifoVars, cur, todo, history, userVars>>

\* REOPort_cancel, called by another thread.
Cancel(p) == LET t == Canceller(p) IN
    /\ Goto(t, "idle", "idle") /\ Unregister(t, p)
    /\ todo' = [todo EXCEPT ![t] = <<<<"signal", p>>>>]
    /\ UNCHANGED <<sem, fifoVars, cur, history, userVars>>

-----------------------------------------------------------------------------
ActionStep(p) == \/ Register(p) \/ Test(p) \/ CallLock(p) \/ CallContains(p)
                 \/ CallTry(p) \/ CallUnlock(p) \/ CallReturn(p)
                 \/ Wait(p) \/ Timeout(p) \/ Expire(p)

RunCalls(t) == CallStep(t) /\ UNCHANGED userVars
RunLoop(a) == LoopStep(a) /\ UNCHANGED userVars
StopAutomaton(a) == (Stop(a) \/ Join(a)) /\ UNCHANGED userVars

Next == \/ \E t \in Threads : RunCalls(t)
        \/ \E p \in UserPorts : Begin(p) \/ ActionStep(p)
        \/ \E p \in Cancelled : Cancel(p)
        \/ \E a \in Active : RunLoop(a)
        \/ \E a \in Stopped : StopAutomaton(a)

Spec == Init /\ [][Next]_vars

\* Threads are scheduled, a thread that keeps contending for a mutex gets it,
\* and the clock reaches every deadline.  Nobody has to begin an action, to
\* cancel one or to stop an automaton.
FairSpec ==
    /\ Spec
    /\ \A p \in UserPorts : /\ WF_vars(RunCalls(p) \/ ActionStep(p))
                            /\ SF_vars(CallLock(p) \/ Expire(p))
    /\ \A a \in Active : /\ WF_vars(RunCalls(a) \/ RunLoop(a))
                         /\ SF_vars(LoopLock(a) /\ UNCHANGED userVars)
    /\ \A p \in Cancelled : WF_vars(RunCalls(Canceller(p)))
    /\ \A a \in Stopped : WF_vars(RunCalls(Stopper(a)) \/ (Join(a) /\ UNCHANGED userVars))

-----------------------------------------------------------------------------
(* Properties                                                               *)

\* Every variable has its type, and no action is served by two transitions.
\* (An action that is cancelled before it is registered leaves its port in the
\* context, for the next one to be served twice.)
CTypeOK ==
    /\ holder \in [Automata -> Threads \cup {Null}]
    /\ state \in [Automata -> States] /\ active \in [Automata -> BOOLEAN]
    /\ ctx \subseteq UserPorts \cup Ends
    /\ sem \in [Automata \cup UserPorts -> 0 .. SemMax]
    /\ data \in [UserPorts -> Data \cup {Null}]
    /\ status \in [UserPorts -> {"pending", "success", "failed"}]
    /\ \A f \in Fifos : /\ ring[f] \in [0 .. Capacity[f] -> Data \cup {Null}]
                        /\ head[f] \in 0 .. Capacity[f] /\ tail[f] \in 0 .. Capacity[f]
    /\ fholder \in [Fifos -> Threads \cup {Null}]
    /\ fired \in [UserPorts -> Nat] /\ \A p \in UserPorts \ Cancelled : fired[p] <= 1

\* A fifo drops nothing and never moves its head past its tail, although it
\* tells its two automata apart from their mutexes whether it has room and
\* data: when a transition pushes there is room, and when it pops a datum.
BuffersSafe == \A t \in Threads :
    /\ NextCall(t, "push") => ~IsFull(Arg(t, 2))
    /\ NextCall(t, "pop") => ~IsEmpty(Arg(t, 2))

\* The fifo delivers what it was given, in order: what its output automaton
\* has peeked when it fired is what the input automaton pushed.
Popping(f) == \E t \in Threads : \E m \in DOMAIN todo[t] : todo[t][m] = <<"pop", f>>
FifoOrder == \A f \in Fifos :
    entered[f] = left[f] \o (IF Popping(f) THEN Tail(Contents(f)) ELSE Contents(f))

\* Whenever no thread is in the middle of changing a fifo, the contexts of its
\* two automata agree with what it holds.
Changing(f) == \E t \in Threads : \E m \in DOMAIN todo[t] :
    todo[t][m][1] \in {"push", "pop", "update", "update_output"} /\ todo[t][m][2] = f
ContextTrue == \A f \in Fifos : ~Changing(f) =>
    /\ InEnd(f) \in ctx <=> ~IsFull(f)
    /\ OutEnd(f) \in ctx <=> ~IsEmpty(f)

\* What a put or get returns is what happened to it, also when its timeout
\* races with the transition that resolves it: it succeeds if and only if
\* one transition has fired with its port since it began, and a get that
\* succeeds has a datum.
OutcomeTrue == [][\A p \in UserPorts \ Cancelled :
    pc[p] # "idle" /\ pc'[p] = "idle" =>
        /\ result'[p] = "success" <=> fired[p] = 1
        /\ result'[p] = "success" => data[p] # Null]_vars

\* No wakeup is lost: while a transition can fire, a sleeper of its automaton
\* is or will be signalled, or another thread is about to try the transition.
Sleeping(t) == pc[t] \in {"wait", "loop_wait"} /\ sem[t] = 0
Signalled(t) == \E u \in Threads : <<"signal", t>> \in Elements(todo[u])
Trying(a, r) ==
    \/ \E p \in UserPorts \cap Elements(r.ports) :
        pc[p] \in {"test", "lock", "contains", "try", "fired"} \/ (pc[p] = "wait" /\ sem[p] > 0)
    \/ a \in Active /\ pc[a] # "ended" /\ (pc[a] = "loop_wait" => sem[a] > 0)

NoLostKick == \A a \in Automata : \A r \in Elements(FromState(a)) :
    Ready(r) => \A t \in (Elements(r.ports) \cap UserPorts) \cup ({a} \cap Active) :
        Sleeping(t) => Signalled(t) \/ Trying(a, r)

\* A transition whose ports are all ready fires, or stops being ready.
Fires == \A a \in Automata : \A s \in States : \A m \in DOMAIN Transitions[a][s] :
    LET r == Transitions[a][s][m]
    IN  (state[a] = s /\ Ready(r)) ~> ~(state[a] = s /\ Ready(r))

\* An action that a transition has resolved returns.
ResolvedReturns == \A p \in UserPorts :
    (pc[p] # "idle" /\ fired[p] = 1) ~> (pc[p] = "idle")

\* Stopping an automaton ends: neither the drain in the loop nor the signal it
\* sends itself can swallow the wakeup that stop sends.
StopReturns == \A a \in Stopped : (pc[Stopper(a)] = "join") ~> (pc[Stopper(a)] = "joined")

-----------------------------------------------------------------------------
(* The circuit that the components see.  A transition that has fired is seen *)
(* as done, although the calls that set its data, push, pop and change the   *)
(* state are still to come.                                                  *)

Comes(kind, x) == \E t \in Threads : \E m \in DOMAIN todo[t] :
    todo[t][m][1] = kind /\ todo[t][m][2] = x
Coming(kind, x) ==
    {c \in UNION {Elements(todo[t]) : t \in Threads} : c[1] = kind /\ c[2] = x}
Due(kind, x, now) ==
    IF Comes(kind, x) THEN (CHOOSE c \in Coming(kind, x) : TRUE)[3] ELSE now

Mode(a) == Due("state", a, state[a])
Datum(p) == Due("set", p, data[p])
Rest(f) == IF Comes("pop", f) THEN Tail(Contents(f)) ELSE Contents(f)
Queue(f) == Rest(f) \o (IF Comes("push", f) THEN <<Due("push", f, Null)>> ELSE <<>>)
Request(p) == IF pc[p] = "idle" THEN "none"
              ELSE IF status[p] = "failed" THEN "withdrawn"
              ELSE IF fired[p] = 0 THEN "pending" ELSE "done"

AsStep(r) == [to |-> r.to, ports |-> Elements(r.ports), moves |-> Elements(r.sets)]

Promised == INSTANCE Circuit WITH
    InitMode <- InitState,
    Steps <- [a \in Automata |-> [s \in States |-> {AsStep(r) : r \in Elements(Transitions[a][s])}]],
    Ports <- UserPorts, Timed <- TimedPorts, Astray <- Cancelled,
    Queues <- Fifos, Bound <- Capacity, None <- Null,
    mode <- [a \in Automata |-> Mode(a)],
    queue <- [f \in Fifos |-> Queue(f)],
    datum <- [p \in UserPorts |-> Datum(p)],
    request <- [p \in UserPorts \ Cancelled |-> Request(p)],
    answer <- [p \in UserPorts \ Cancelled |-> result[p]]

\* Threads that fire transitions under one mutex per automaton, that change
\* fifos and contexts under none, and that time out meanwhile, implement a
\* circuit whose transitions are atomic: a put or get succeeds exactly if one
\* transition has served it, in one step with all the others at its ports.
RunsCircuit == Promised!Spec

-----------------------------------------------------------------------------
\* A put or get blocks until it has a result: port.h, "This is a blocking
\* call", "return Result of the performed action".
NeverReturnsPending == \A p \in UserPorts : result[p] # "pending"

\* An action with a timeout returns: port.h, "Timeout for port actions in
\* milliseconds. 0 means indefinitely".
TimedActionReturns == \A p \in TimedPorts : (pc[p] # "idle") ~> (pc[p] = "idle")
=============================================================================
