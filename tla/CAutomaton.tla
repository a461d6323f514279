----------------------------- MODULE CAutomaton -----------------------------
(***************************************************************************)
(* Automata and fifos of the C runtime (reo-runtime-c-lykos: automaton.c,  *)
(* transition.c, state.c, context.c, fifo.c).                              *)
(*                                                                         *)
(* Automata have ports; a port is a user port or one end of a fifo, which  *)
(* joins two automata.  An automaton's mutex serialises its transitions,   *)
(* its context is the set of its ports that are ready, and its ports and   *)
(* its own thread, if started, sleep on semaphores until they are kicked.  *)
(* The context is an atomic bit vector: a fifo changes the contexts of     *)
(* both its automata without taking their mutexes.                         *)
(*                                                                         *)
(* A thread that fires a transition executes a sequence of calls, todo[t]: *)
(* each element is one access to shared state and one step of the thread.  *)
(* Only what no other thread can come between is a single step: a section  *)
(* under a mutex that touches nothing but what the mutex protects.         *)
(***************************************************************************)
EXTENDS Naturals, Sequences

CONSTANTS Automata,     \* the automata
          Active,       \* those that run a thread of their own
          UserPorts,    \* the ports components call put and get on
          Fifos, Capacity,
          PortList,     \* the array "ports" of each automaton
          States, InitState,
          Transitions,  \* the array "transitions" of each state, per automaton
          Data, Null,
          Cancelled,    \* the user ports another thread may cancel
          Stopped,      \* the active automata another thread stops
          SemMax        \* bound: sem_post() fails on a semaphore of this value

InEnd(f) == <<f, "in">>
OutEnd(f) == <<f, "out">>
Ends == {InEnd(f) : f \in Fifos} \cup {OutEnd(f) : f \in Fifos}

\* Threads: one per user port, one per active automaton, and those that
\* cancel a port or stop an automaton.
Canceller(p) == <<"cancel", p>>
Stopper(a) == <<"stop", a>>
Threads == UserPorts \cup Active
           \cup {Canceller(p) : p \in Cancelled} \cup {Stopper(a) : a \in Stopped}

Elements(s) == {s[m] : m \in DOMAIN s}
AutomatonOf(x) == CHOOSE a \in Automata : x \in Elements(PortList[a])

\* A transition is a record: it leads to state r.to, needs all r.ports ready,
\* and its constraint problem equates each r.sets[m].sink with the datum peeked
\* at r.sets[m].source, which always has a solution.
IsTransition(a, r) ==
    /\ r.to \in States
    /\ r.ports \in Seq(Elements(PortList[a]))
    /\ \A m, n \in DOMAIN r.ports : r.ports[m] = r.ports[n] => m = n
    /\ r.sets \in Seq([sink : Elements(r.ports), source : Elements(r.ports)])
    /\ \A m, n \in DOMAIN r.sets : r.sets[m].sink = r.sets[n].sink => m = n
    /\ \A v \in Elements(r.sets) : \A f \in Fifos : v.sink # OutEnd(f) /\ v.source # InEnd(f)

ASSUME AutomatonAssumption ==
    /\ Active \subseteq Automata /\ Stopped \subseteq Active /\ Cancelled \subseteq UserPorts
    /\ Capacity \in [Fifos -> Nat \ {0}]
    /\ PortList \in [Automata -> Seq(UserPorts \cup Ends)]
    /\ \A x \in UserPorts \cup Ends : \E a \in Automata :
        x \in Elements(PortList[a]) /\ \A b \in Automata \ {a} : x \notin Elements(PortList[b])
    /\ \A a \in Automata : \A s \in States :
        /\ Transitions[a][s] \in Seq(Elements(Transitions[a][s]))
        /\ \A r \in Elements(Transitions[a][s]) : IsTransition(a, r)
    /\ InitState \in [Automata -> States]
    /\ Null \notin Data /\ SemMax \in Nat \ {0}

\* Names of different things are different.
ASSUME NamesAssumption ==
    /\ UserPorts \cap Automata = {} /\ (UserPorts \cup Automata) \cap Ends = {}
    /\ \A p \in Cancelled : Canceller(p) \notin UserPorts \cup Active
    /\ \A a \in Stopped : Stopper(a) \notin UserPorts \cup Active
    /\ Null \notin Threads

VARIABLES holder,         \* the thread that holds the mutex of an automaton, or Null
          state,          \* its current state
          ctx,            \* the ports that are in the context of their automaton
          sem,            \* the semaphores of the automata and of the user ports
          active,         \* the flag "active" of the automata
          data, status,   \* the fields of a user port
          ring, head, tail, fholder,   \* a fifo: its ring buffer, and its mutex
          pc, cur, todo,  \* the threads
          fired,          \* history: transitions fired per action of a user port
          entered, left   \* history: the data put into and taken from each fifo

fifoVars == <<ring, head, tail, fholder>>
portFields == <<data, status>>
autVars == <<holder, state, active>>
history == <<fired, entered, left>>

-----------------------------------------------------------------------------
(* The ring buffer: one slot more than the capacity, to tell full from empty. *)

Slots(f) == Capacity[f] + 1

\* Mutant: the index does not wrap around.
IsFull_NoWrap(f) == tail[f] + 1 = head[f]

IsEmpty(f) == tail[f] = head[f]
IsFull(f) == (tail[f] + 1) % Slots(f) = head[f]

\* What the fifo holds, oldest first.
Contents(f) == [m \in 1 .. (tail[f] + Slots(f) - head[f]) % Slots(f) |->
                    ring[f][(head[f] + m - 1) % Slots(f)]]

-----------------------------------------------------------------------------
(* Sequences of calls.                                                      *)

\* Mutant: the ports of the automaton are not woken.
Kick_AutomatonOnly(a) == <<<<"signal", a>>>>

\* REOAutomaton_kick: signal the automaton and wake its ports.
Kick(a) == <<<<"signal", a>>>> \o [m \in DOMAIN PortList[a] |-> <<"signal", PortList[a][m]>>]

\* Mutant: the handler of a fifo peeks the datum that came last.
Peek_Newest(x) == IF x \in UserPorts THEN data[x]
                  ELSE ring[x[1]][(tail[x[1]] + Capacity[x[1]]) % Slots(x[1])]

\* The value of a port as its handler peeks it.
Peek(x) == IF x \in UserPorts THEN data[x] ELSE ring[x[1]][head[x[1]]]

\* The first call of the handlers "set" and "resolve" of a port.
SetCall(v) == IF v.sink \in UserPorts THEN <<"set", v.sink, Peek(v.source)>>
                                      ELSE <<"push", v.sink[1], Peek(v.source)>>
ResolveCall(x) == IF x \in UserPorts THEN <<"status", x>>
                  ELSE IF x = OutEnd(x[1]) THEN <<"pop", x[1]>> ELSE <<"update", x[1]>>

\* REOTransition_fire, once its ports are ready and its problem is solved.
FireCalls(a, r) == [m \in DOMAIN r.sets |-> SetCall(r.sets[m])]
                   \o [m \in DOMAIN r.ports |-> ResolveCall(r.ports[m])]
                   \o <<<<"state", a, r.to>>>> \o Kick(a)

\* REOTransition_check_ports.  The bits of these ports are cleared by nobody
\* but the holder of the mutex, so that reading them one by one is one step.
Ready(r) == Elements(r.ports) \subseteq ctx

FromState(a) == Transitions[a][state[a]]

\* The thread t fires r: what r needs is read here, what it changes is to do.
Fire(t, a, r) ==
    /\ Ready(r)
    /\ todo' = [todo EXCEPT ![t] = FireCalls(a, r)]
    /\ fired' = [p \in UserPorts |->
                    IF p \in Elements(r.ports) THEN fired[p] + 1 ELSE fired[p]]
    /\ left' = [f \in Fifos |->
                    IF OutEnd(f) \in Elements(r.ports)
                    THEN Append(left[f], Peek(OutEnd(f))) ELSE left[f]]
    /\ UNCHANGED entered

-----------------------------------------------------------------------------
(* The calls.                                                               *)

\* The next call of t is one of the given kind; rest is what t does after it.
NextCall(t, kind) == todo[t] # <<>> /\ Head(todo[t])[1] = kind
Then(t, calls) == todo' = [todo EXCEPT ![t] = calls \o Tail(@)]
Arg(t, m) == Head(todo[t])[m]

Post(x) == sem' = [sem EXCEPT ![x] = IF @ < SemMax THEN @ + 1 ELSE @]

\* To wake the end of a fifo is a no-op.
Signal(t) == LET x == Arg(t, 2) IN
    /\ NextCall(t, "signal") /\ Then(t, <<>>)
    /\ IF x \in Ends THEN UNCHANGED sem ELSE Post(x)
    /\ UNCHANGED <<autVars, ctx, portFields, fifoVars, pc, cur, history>>

SetData(t) ==          \* REOPort_set_data
    /\ NextCall(t, "set")
    /\ data' = [data EXCEPT ![Arg(t, 2)] = Arg(t, 3)]
    /\ Then(t, <<>>)
    /\ UNCHANGED <<autVars, ctx, sem, status, fifoVars, pc, cur, history>>

\* Mutant: a resolved port stays in the context.
ResolveStatus_KeepContext(t) == LET p == Arg(t, 2) IN
    /\ NextCall(t, "status")
    /\ status' = [status EXCEPT ![p] = "success"]
    /\ Then(t, <<<<"signal", p>>>>)
    /\ UNCHANGED <<autVars, ctx, sem, data, fifoVars, pc, cur, history>>

\* REOPort_handler_resolve: status = RPS_Success, and two calls to come.
ResolveStatus(t) == LET p == Arg(t, 2) IN
    /\ NextCall(t, "status")
    /\ status' = [status EXCEPT ![p] = "success"]
    /\ Then(t, <<<<"remove", p>>, <<"signal", p>>>>)
    /\ UNCHANGED <<autVars, ctx, sem, data, fifoVars, pc, cur, history>>

RemoveFromContext(t) ==
    /\ NextCall(t, "remove")
    /\ ctx' = ctx \ {Arg(t, 2)}
    /\ Then(t, <<>>)
    /\ UNCHANGED <<autVars, sem, portFields, fifoVars, pc, cur, history>>

SetState(t) ==
    /\ NextCall(t, "state")
    /\ state' = [state EXCEPT ![Arg(t, 2)] = Arg(t, 3)]
    /\ Then(t, <<>>)
    /\ UNCHANGED <<holder, active, ctx, sem, portFields, fifoVars, pc, cur, history>>

\* REOFifo_push: a value for which there is no room is dropped.
Push(t) == LET f == Arg(t, 2) IN
    /\ NextCall(t, "push") /\ fholder[f] = Null
    /\ IF IsFull(f) THEN Then(t, <<>>) /\ UNCHANGED <<ring, tail>>
       ELSE /\ ring' = [ring EXCEPT ![f][tail[f]] = Arg(t, 3)]
            /\ tail' = [tail EXCEPT ![f] = (@ + 1) % Slots(f)]
            /\ Then(t, <<<<"update", f>>>>)
    /\ entered' = [entered EXCEPT ![f] = Append(@, Arg(t, 3))]
    /\ UNCHANGED <<autVars, ctx, sem, portFields, head, fholder, pc, cur, fired, left>>

\* Mutant: the contexts are not updated after a pop.
Pop_NoUpdate(t) == LET f == Arg(t, 2) IN
    /\ NextCall(t, "pop") /\ fholder[f] = Null
    /\ head' = [head EXCEPT ![f] = (@ + 1) % Slots(f)]
    /\ Then(t, <<>>)
    /\ UNCHANGED <<autVars, ctx, sem, portFields, ring, tail, fholder, pc, cur, history>>

\* REOFifo_pop: head moves on, whether or not the fifo is empty.
Pop(t) == LET f == Arg(t, 2) IN
    /\ NextCall(t, "pop") /\ fholder[f] = Null
    /\ head' = [head EXCEPT ![f] = (@ + 1) % Slots(f)]
    /\ Then(t, <<<<"update", f>>>>)
    /\ UNCHANGED <<autVars, ctx, sem, portFields, ring, tail, fholder, pc, cur, history>>

\* REOFifo_update_contexts, under the mutex of the fifo.  First the input end.
UpdateInput(t) == LET f == Arg(t, 2) IN
    /\ NextCall(t, "update") /\ fholder[f] = Null
    /\ fholder' = [fholder EXCEPT ![f] = t]
    /\ IF IsFull(f) THEN /\ ctx' = ctx \ {InEnd(f)}
                         /\ Then(t, <<<<"update_output", f>>>>)
       ELSE /\ ctx' = ctx \cup {InEnd(f)}
            /\ Then(t, Kick(AutomatonOf(InEnd(f))) \o <<<<"update_output", f>>>>)
    /\ UNCHANGED <<autVars, sem, portFields, ring, head, tail, pc, cur, history>>

\* Mutant: the output automaton is not kicked.
UpdateOutput_NoKick(t) == LET f == Arg(t, 2) IN
    /\ NextCall(t, "update_output")
    /\ ctx' = IF IsEmpty(f) THEN ctx \ {OutEnd(f)} ELSE ctx \cup {OutEnd(f)}
    /\ Then(t, <<<<"unlock", f>>>>)
    /\ UNCHANGED <<autVars, sem, portFields, fifoVars, pc, cur, history>>

\* Then the output end, and the mutex is released.
UpdateOutput(t) == LET f == Arg(t, 2) IN
    /\ NextCall(t, "update_output")
    /\ IF IsEmpty(f) THEN /\ ctx' = ctx \ {OutEnd(f)}
                          /\ Then(t, <<<<"unlock", f>>>>)
       ELSE /\ ctx' = ctx \cup {OutEnd(f)}
            /\ Then(t, Kick(AutomatonOf(OutEnd(f))) \o <<<<"unlock", f>>>>)
    /\ UNCHANGED <<autVars, sem, portFields, fifoVars, pc, cur, history>>

UnlockFifo(t) ==
    /\ NextCall(t, "unlock")
    /\ fholder' = [fholder EXCEPT ![Arg(t, 2)] = Null]
    /\ Then(t, <<>>)
    /\ UNCHANGED <<autVars, ctx, sem, portFields, ring, head, tail, pc, cur, history>>

CallStep(t) == \/ Signal(t) \/ SetData(t) \/ ResolveStatus(t) \/ RemoveFromContext(t)
               \/ SetState(t) \/ Push(t) \/ Pop(t)
               \/ UpdateInput(t) \/ UpdateOutput(t) \/ UnlockFifo(t)

-----------------------------------------------------------------------------
(* REOAutomaton_loop, the thread of an active automaton.                    *)

Goto(t, from, to) == pc[t] = from /\ todo[t] = <<>> /\ pc' = [pc EXCEPT ![t] = to]

LoopStart(a) ==        \* while (self->active == true)
    /\ Goto(a, "loop_while", IF active[a] THEN "loop_lock" ELSE "ended")
    /\ UNCHANGED <<autVars, ctx, sem, portFields, fifoVars, cur, todo, history>>

LoopLock(a) ==         \* REOMutex_lock; REOSemaphore_drain
    /\ Goto(a, "loop_lock", "loop_try") /\ holder[a] = Null
    /\ holder' = [holder EXCEPT ![a] = a]
    /\ sem' = [sem EXCEPT ![a] = 0]
    /\ cur' = [cur EXCEPT ![a] = 1]
    /\ UNCHANGED <<state, active, ctx, portFields, fifoVars, todo, history>>

LoopTry(a) ==          \* one round of the for loop
    /\ cur[a] <= Len(FromState(a))
    /\ LET r == FromState(a)[cur[a]] IN
        \/ Goto(a, "loop_try", "loop_fired") /\ Fire(a, a, r) /\ UNCHANGED cur
        \/ /\ Goto(a, "loop_try", "loop_try") /\ ~Ready(r)
           /\ cur' = [cur EXCEPT ![a] = @ + 1]
           /\ UNCHANGED <<todo, history>>
    /\ UNCHANGED <<autVars, ctx, sem, portFields, fifoVars>>

LoopSignalSelf(a) ==   \* such that the next wait will succeed
    /\ Goto(a, "loop_fired", "loop_unlock")
    /\ Post(a)
    /\ UNCHANGED <<autVars, ctx, portFields, fifoVars, cur, todo, history>>

\* Mutant: the semaphore is drained after the transitions have been tried.
LoopUnlock_DrainsLate(a) ==
    /\ \/ Goto(a, "loop_unlock", "loop_check")
       \/ Goto(a, "loop_try", "loop_check") /\ cur[a] > Len(FromState(a))
    /\ holder' = [holder EXCEPT ![a] = Null]
    /\ sem' = [sem EXCEPT ![a] = 0]
    /\ UNCHANGED <<state, active, ctx, portFields, fifoVars, cur, todo, history>>

LoopUnlock(a) ==       \* REOMutex_unlock
    /\ \/ Goto(a, "loop_unlock", "loop_check")
       \/ Goto(a, "loop_try", "loop_check") /\ cur[a] > Len(FromState(a))
    /\ holder' = [holder EXCEPT ![a] = Null]
    /\ UNCHANGED <<state, active, ctx, sem, portFields, fifoVars, cur, todo, history>>

\* Mutant: the flag is not looked at between the drain and the wait.
LoopCheck_None(a) ==
    /\ Goto(a, "loop_check", "loop_wait")
    /\ UNCHANGED <<autVars, ctx, sem, portFields, fifoVars, cur, todo, history>>

LoopCheck(a) ==        \* if (self->active == false) break
    /\ Goto(a, "loop_check", IF active[a] THEN "loop_wait" ELSE "ended")
    /\ UNCHANGED <<autVars, ctx, sem, portFields, fifoVars, cur, todo, history>>

LoopWait(a) ==         \* REOSemaphore_wait
    /\ Goto(a, "loop_wait", "loop_while") /\ sem[a] > 0
    /\ sem' = [sem EXCEPT ![a] = @ - 1]
    /\ UNCHANGED <<autVars, ctx, portFields, fifoVars, cur, todo, history>>

LoopStep(a) == \/ LoopStart(a) \/ LoopLock(a) \/ LoopTry(a) \/ LoopSignalSelf(a)
               \/ LoopUnlock(a) \/ LoopCheck(a) \/ LoopWait(a)

\* REOAutomaton_stop, called by another thread: clear the flag, signal, join.
Stop(a) ==
    /\ Goto(Stopper(a), "idle", "join")
    /\ active' = [active EXCEPT ![a] = FALSE]
    /\ todo' = [todo EXCEPT ![Stopper(a)] = <<<<"signal", a>>>>]
    /\ UNCHANGED <<holder, state, ctx, sem, portFields, fifoVars, cur, history>>

Join(a) ==
    /\ Goto(Stopper(a), "join", "joined") /\ pc[a] = "ended"
    /\ UNCHANGED <<autVars, ctx, sem, portFields, fifoVars, cur, todo, history>>
=============================================================================
