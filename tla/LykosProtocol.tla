-------------------------- MODULE LykosProtocol --------------------------
(***************************************************************************)
(* A protocol generated by the Lykos back end (java-protocol.stg, options  *)
(* PARTITION and inferred queues) on the Lykos runtime: components put and *)
(* get at public ports, with time-outs, interrupts and resume; "master"    *)
(* automata of one transition fire it under their semaphore, on the        *)
(* thread of a component or on their own; "slave" automata, the fifos      *)
(* between the masters, have two states and are moved by the masters       *)
(* without any lock.  A private port is <<"in", s>> or <<"out", s>>: the   *)
(* side of fifo s that is used while s is empty or full.                   *)
(***************************************************************************)
EXTENDS Naturals, Sequences, FiniteSets, Functions

CONSTANTS
    OutPorts, InPorts,  \* public ports: components put at OutPorts, get at InPorts
    Masters, Slaves,
    Circuits,           \* records of what the compiler may have generated:
                        \*   public, private: the ports of each master that
                        \*     have masks of their own, sequences
                        \*   queued: its public ports that are behind its queue
                        \*   source: where the datum of its transition comes from
    Timed,              \* the ports at which components use time-outs
    Data,               \* the data put at each port
    None,
    MaxPermits,         \* bound: permits of a semaphore that are counted
    MaxInterrupts       \* bound: interrupts of one operation at each port

VARIABLES
    circuit,    \* the circuit, fixed by the compiler
    op,         \* the operation of the thread that uses a public port:
                \*   [at, timed, interrupts it may still meet]
    status, buffer, permits,    \* PublicPort: status, buffer, semaphore
    bits,       \* Context: the flagged ports
    items,      \* SingleReaderQueue of each master: ports written and not polled
    published,  \* SingleReaderQueue: how many of them head counts
    full,       \* the slaves in their full state
    cell,       \* the memory cell of each slave
    lock,       \* the semaphore of each master: its holder
    todo,       \* what the transition being fired still has to do
    work,       \* QueueableHandlersQueue: the private ports kicked
    thread      \* where the thread of each master is

portVars == <<status, buffer, permits>>
queueVars == <<items, published>>
slaveVars == <<full, cell>>
runVars == <<work, thread>>
vars == <<circuit, op, portVars, bits, queueVars, slaveVars, lock, todo, runVars>>

Ports == OutPorts \cup InPorts
PrivatePorts == {"in", "out"} \X Slaves

Opposite(x) == <<IF x[1] = "in" THEN "out" ELSE "in", x[2]>>

\* What the compiler generates: a port belongs to one master, ports behind a
\* queue have the same direction (inferQueues), the datum comes from a port at
\* which a component puts or from a fifo that is emptied, and each fifo has a
\* master at both sides.
IsCircuit(c) ==
    LET public(m) == Range(c.public[m]) \cup c.queued[m]
        masters == DOMAIN c.public
    IN  /\ masters \subseteq Masters
        /\ DOMAIN c.private = masters /\ DOMAIN c.queued = masters /\ DOMAIN c.source = masters
        /\ \A m \in masters :
              /\ c.public[m] \in Seq(Ports) /\ IsInjective(c.public[m])
              /\ c.private[m] \in Seq(PrivatePorts) /\ IsInjective(c.private[m])
              /\ c.queued[m] \subseteq OutPorts \/ c.queued[m] \subseteq InPorts
              /\ c.queued[m] \cap Range(c.public[m]) = {}
              /\ \/ c.source[m] \in public(m) \cap OutPorts
                 \/ c.source[m] \in Slaves /\ <<"out", c.source[m]>> \in Range(c.private[m])
              /\ \A x \in Range(c.private[m]) :
                    \E n \in masters : Opposite(x) \in Range(c.private[n])
        /\ \A m, n \in masters : m # n =>
              /\ public(m) \cap public(n) = {}
              /\ Range(c.private[m]) \cap Range(c.private[n]) = {}

ASSUME LykosAssumption ==
    /\ OutPorts \cap InPorts = {} /\ IsFiniteSet(Ports)
    /\ Ports \cap Masters = {} /\ Ports \cap Slaves = {} /\ Ports \cap PrivatePorts = {}
    /\ None \notin Ports \cup Masters \cup UNION Range(Data)
    /\ None \notin {"pending", "completed"}
    /\ DOMAIN Data = OutPorts
    /\ MaxPermits \in Nat \ {0} /\ MaxInterrupts \in [Ports -> Nat]
    /\ \A c \in Circuits : IsCircuit(c)

Automata == DOMAIN circuit.public
Alone(m) == circuit.public[m]
Grouped(m) == circuit.queued[m]
Public(m) == Range(Alone(m)) \cup Grouped(m)
Private(m) == circuit.private[m]
Source(m) == circuit.source[m]
group == UNION {Grouped(m) : m \in Automata}
Master(p) == CHOOSE m \in Automata : p \in Public(m) \cup Range(Private(m))

\* The operations ops on each element of xs in turn.
Each(ops, xs) ==
    [k \in 1 .. Len(ops) * Len(xs) |->
        <<ops[((k - 1) % Len(ops)) + 1], xs[((k - 1) \div Len(ops)) + 1]>>]

\* The fifo is in the state in which this side of it can be used.
Usable(x) == (x[1] = "out") <=> (x[2] \in full)

-----------------------------------------------------------------------------
(* Firing a transition                                                     *)

\* Mutant: the state of the slaves is not tested.
CanFire_NoState(m) ==
    /\ Range(Alone(m)) \cup Range(Private(m)) \subseteq bits
    /\ Grouped(m) # {} => published[m] > 0

CanFire(m) ==
    /\ Range(Alone(m)) \cup Range(Private(m)) \subseteq bits
    /\ Grouped(m) # {} => published[m] > 0
    /\ \A x \in Range(Private(m)) : Usable(x)

\* The ports served by the transition: the ungrouped ones and the dequeued one.
Served(m) == Alone(m) \o (IF Grouped(m) = {} THEN <<>> ELSE <<Head(items[m])>>)

Datum(m) ==
    CASE Source(m) \in Slaves -> cell[Source(m)]
      [] Source(m) \in group -> buffer[Head(items[m])]
      [] OTHER -> buffer[Source(m)]

\* fire: the statements after the test, in the order of the template.
Statements(m) ==
    <<<<"take", m>>>>
    \o Each(<<"complete", "release">>, Served(m))
    \o Each(<<"release">>, Alone(m))
    \o Each(<<"kick">>, Private(m))
    \o Each(<<"reach", "kick">>,
            [k \in DOMAIN Private(m) |-> Opposite(Private(m)[k])])

\* The data constraint is solved, which writes buffers and cells.
Solve(m) ==
    /\ buffer' = [p \in Ports |-> IF p \in InPorts \cap Range(Served(m))
                                  THEN Datum(m) ELSE buffer[p]]
    /\ cell' = [s \in Slaves |-> IF <<"in", s>> \in Range(Private(m))
                                 THEN Datum(m) ELSE cell[s]]

\* A thread that holds, or now takes, the semaphore of m starts to fire.
Fire(m, holder) ==
    /\ CanFire(m)
    /\ Solve(m)
    /\ todo' = [todo EXCEPT ![m] = Statements(m)]
    /\ lock' = [lock EXCEPT ![m] = holder]

Take(m) ==
    /\ bits' = bits \ (Range(Alone(m)) \cup Range(Private(m)))
    /\ IF Grouped(m) = {} THEN UNCHANGED queueVars
       ELSE /\ items' = [items EXCEPT ![m] = Tail(@)]
            /\ published' = [published EXCEPT ![m] = @ - 1]
    /\ UNCHANGED <<status, permits, full, work>>

Complete(p) ==
    /\ status' = [status EXCEPT ![p] = "completed"]
    /\ UNCHANGED <<bits, queueVars, permits, full, work>>

Release(p) ==
    /\ permits' = [permits EXCEPT ![p] = IF @ < MaxPermits THEN @ + 1 ELSE @]
    /\ UNCHANGED <<status, bits, queueVars, full, work>>

Reach(x) ==
    /\ full' = IF x[1] = "out" THEN full \cup {x[2]} ELSE full \ {x[2]}
    /\ UNCHANGED <<status, bits, queueVars, permits, work>>

\* Mutant: a handler is queued again while it is queued.
Kick_Twice(x) ==
    /\ bits' = bits \cup {x}
    /\ work' = [work EXCEPT ![Master(x)] = Append(@, x)]
    /\ UNCHANGED <<status, queueVars, permits, full>>

\* kickMaster: flag and enqueue; a handler that is queued already is not queued
\* twice.
Kick(x) ==
    /\ bits' = bits \cup {x}
    /\ work' = [work EXCEPT ![Master(x)] =
                   IF x \in Range(@) THEN @ ELSE Append(@, x)]
    /\ UNCHANGED <<status, queueVars, permits, full>>

\* The next statement of the transition that m fires.
Statement(m) ==
    /\ todo[m] # <<>>
    /\ todo' = [todo EXCEPT ![m] = Tail(@)]
    /\ LET do == Head(todo[m])[1]
           x == Head(todo[m])[2]
       IN  \/ do = "take" /\ Take(x)
           \/ do = "complete" /\ Complete(x)
           \/ do = "release" /\ Release(x)
           \/ do = "reach" /\ Reach(x)
           \/ do = "kick" /\ Kick(x)
    /\ UNCHANGED <<circuit, op, buffer, cell, lock, thread>>

-----------------------------------------------------------------------------
(* The thread that uses a public port                                      *)

Labels == {"idle", "flag", "publish", "call", "firing", "check",
           "wait", "interrupted", "cancel", "throw"}
Idle == [at |-> "idle", timed |-> FALSE, interrupts |-> 0]
At(p, l) == op[p].at = l
Goto(p, l) == op' = [op EXCEPT ![p] = IF l = "idle" THEN Idle ELSE [@ EXCEPT !.at = l]]

\* put and get, with a time-out or without.
Start(p) ==
    /\ At(p, "idle") /\ \E m \in Automata : p \in Public(m)
    /\ \E d \in IF p \in OutPorts THEN Data[p] ELSE {None} :
          buffer' = [buffer EXCEPT ![p] = d]
    /\ status' = [status EXCEPT ![p] = "pending"]
    /\ \E t \in BOOLEAN :
          /\ t => p \in Timed \ group
          /\ op' = [op EXCEPT ![p] = [at |-> "flag", timed |-> t,
                                      interrupts |-> MaxInterrupts[p]]]
    /\ UNCHANGED <<circuit, permits, bits, queueVars, slaveVars, lock, todo, runVars>>

\* Handler.flag of a port with a mask.
Flag(p) ==
    /\ At(p, "flag") /\ p \notin group
    /\ bits' = bits \cup {p}
    /\ Goto(p, IF op[p].timed THEN "check" ELSE "call")
    /\ UNCHANGED <<circuit, portVars, queueVars, slaveVars, lock, todo, runVars>>

\* Handler.flag of a port in the queue: offer writes the item ...
Offer(p) ==
    /\ At(p, "flag") /\ p \in group
    /\ items' = [items EXCEPT ![Master(p)] = Append(@, p)]
    /\ Goto(p, "publish")
    /\ UNCHANGED <<circuit, portVars, bits, published, slaveVars, lock, todo, runVars>>

\* ... and counts it, after it has released the queue's semaphore.
Publish(p) ==
    /\ At(p, "publish")
    /\ published' = [published EXCEPT ![Master(p)] = @ + 1]
    /\ Goto(p, "call")
    /\ UNCHANGED <<circuit, portVars, bits, items, slaveVars, lock, todo, runVars>>

\* What the caller of callSync does with its result.
AfterCall(p, result) == IF ~op[p].timed THEN "check" ELSE IF result THEN "idle" ELSE "wait"

\* Mutant: the handler does not look first whether its port is completed.
CallSync_NoTest(p) ==
    LET m == Master(p)
    IN  /\ At(p, "call") /\ lock[m] = None
        /\ \/ /\ Fire(m, p)
              /\ Goto(p, "firing")
              /\ UNCHANGED permits
           \/ /\ ~CanFire(m)
              /\ permits' = [permits EXCEPT ![p] = 0]
              /\ Goto(p, AfterCall(p, FALSE))
              /\ UNCHANGED <<buffer, cell, lock, todo>>
        /\ UNCHANGED <<circuit, status, bits, queueVars, full, runVars>>

\* callSync: take the automaton's semaphore and call the handler.
CallSync(p) ==
    LET m == Master(p)
    IN  /\ At(p, "call") /\ lock[m] = None
        /\ \/ /\ status[p] = "completed"
              /\ Goto(p, AfterCall(p, TRUE))
              /\ UNCHANGED <<permits, buffer, cell, lock, todo>>
           \/ /\ status[p] # "completed" /\ Fire(m, p)
              /\ Goto(p, "firing")
              /\ UNCHANGED permits
           \/ /\ status[p] # "completed" /\ ~CanFire(m)
              /\ permits' = [permits EXCEPT ![p] = 0]
              /\ Goto(p, AfterCall(p, FALSE))
              /\ UNCHANGED <<buffer, cell, lock, todo>>
        /\ UNCHANGED <<circuit, status, bits, queueVars, full, runVars>>

Fired(p) ==
    /\ At(p, "firing") /\ todo[Master(p)] = <<>>
    /\ lock' = [lock EXCEPT ![Master(p)] = None]
    /\ Goto(p, AfterCall(p, TRUE))
    /\ UNCHANGED <<circuit, portVars, bits, queueVars, slaveVars, todo, runVars>>

\* The test of status: after callSync without a time-out, before it with one.
Check(p) ==
    /\ At(p, "check")
    /\ Goto(p, IF status[p] = "completed" THEN "idle" ELSE IF op[p].timed THEN "call" ELSE "wait")
    /\ UNCHANGED <<circuit, portVars, bits, queueVars, slaveVars, lock, todo, runVars>>

Retry(p) == IF op[p].timed THEN "check" ELSE "call"

Wake(p) ==
    /\ At(p, "wait") /\ permits[p] > 0
    /\ permits' = [permits EXCEPT ![p] = @ - 1]
    /\ Goto(p, Retry(p))
    /\ UNCHANGED <<circuit, status, buffer, bits, queueVars, slaveVars, lock, todo, runVars>>

\* Mutant: an interrupted put is given up.
Interrupt_GiveUp(p) ==
    /\ op[p].at \in {"call", "wait"} /\ op[p].interrupts > 0
    /\ Goto(p, IF op[p].timed THEN "check" ELSE "idle")
    /\ UNCHANGED <<circuit, portVars, bits, queueVars, slaveVars, lock, todo, runVars>>

\* An interrupt ends a call without time-out, which stays pending ...
Interrupt(p) ==
    /\ op[p].at \in {"call", "wait"} /\ op[p].interrupts > 0
    /\ op' = [op EXCEPT ![p].at = IF op[p].timed THEN "check" ELSE "interrupted",
                        ![p].interrupts = @ - 1]
    /\ UNCHANGED <<circuit, portVars, bits, queueVars, slaveVars, lock, todo, runVars>>

\* ... until its component resumes it.
Resume(p) ==
    /\ At(p, "interrupted")
    /\ Goto(p, "call")
    /\ UNCHANGED <<circuit, portVars, bits, queueVars, slaveVars, lock, todo, runVars>>

Expire(p) ==
    /\ At(p, "wait") /\ op[p].timed /\ permits[p] = 0
    /\ Goto(p, "cancel")
    /\ UNCHANGED <<circuit, portVars, bits, queueVars, slaveVars, lock, todo, runVars>>

\* Mutant: the status is looked at after it has been cleared.
CancelSync_ReadLate(p) ==
    /\ At(p, "cancel") /\ lock[Master(p)] = None
    /\ bits' = bits \ {p}
    /\ status' = [status EXCEPT ![p] = None]
    /\ Goto(p, IF status'[p] = "completed" THEN "idle" ELSE "throw")
    /\ UNCHANGED <<circuit, buffer, permits, queueVars, slaveVars, lock, todo, runVars>>

\* cancelSync, under the automaton's semaphore: true if the operation has been
\* completed, and then it returns although it has timed out.
CancelSync(p) ==
    /\ At(p, "cancel") /\ lock[Master(p)] = None
    /\ bits' = bits \ {p}
    /\ status' = [status EXCEPT ![p] = None]
    /\ Goto(p, IF status[p] = "completed" THEN "idle" ELSE "throw")
    /\ UNCHANGED <<circuit, buffer, permits, queueVars, slaveVars, lock, todo, runVars>>

\* The TimeoutException leaves the operation.
Throw(p) ==
    /\ At(p, "throw")
    /\ Goto(p, "idle")
    /\ UNCHANGED <<circuit, portVars, bits, queueVars, slaveVars, lock, todo, runVars>>

-----------------------------------------------------------------------------
(* The thread of a master (AutomatonWithQhq)                               *)

Dequeue(m) ==
    /\ thread[m] = "idle" /\ work[m] # <<>>
    /\ work' = [work EXCEPT ![m] = Tail(@)]
    /\ thread' = [thread EXCEPT ![m] = "call"]
    /\ UNCHANGED <<circuit, op, portVars, bits, queueVars, slaveVars, lock, todo>>

\* Under the semaphore, which the thread has or takes now.
Call(m) ==
    /\ thread[m] = "call" /\ lock[m] \in {None, m}
    /\ thread' = [thread EXCEPT ![m] = "next"]
    /\ \/ Fire(m, m)
       \/ /\ ~CanFire(m)
          /\ lock' = [lock EXCEPT ![m] = m]
          /\ UNCHANGED <<buffer, cell, todo>>
    /\ UNCHANGED <<circuit, op, status, permits, bits, queueVars, full, work>>

\* Mutant: the semaphore is kept while there is no work.
NextHandler_Keep(m) ==
    /\ thread[m] = "next" /\ todo[m] = <<>>
    /\ IF work[m] # <<>>
       THEN /\ work' = [work EXCEPT ![m] = Tail(@)]
            /\ thread' = [thread EXCEPT ![m] = "call"]
       ELSE UNCHANGED <<work, thread>>
    /\ UNCHANGED <<circuit, op, portVars, bits, queueVars, slaveVars, lock, todo>>

\* More work: stay in the critical section; none: leave it.
NextHandler(m) ==
    /\ thread[m] = "next" /\ todo[m] = <<>>
    /\ IF work[m] # <<>>
       THEN /\ work' = [work EXCEPT ![m] = Tail(@)]
            /\ thread' = [thread EXCEPT ![m] = "call"]
            /\ UNCHANGED lock
       ELSE /\ lock' = [lock EXCEPT ![m] = None]
            /\ thread' = [thread EXCEPT ![m] = "idle"]
            /\ UNCHANGED work
    /\ UNCHANGED <<circuit, op, portVars, bits, queueVars, slaveVars, todo>>

-----------------------------------------------------------------------------

\* initialize reaches every initial state, which flags and kicks private ports.
Init ==
    /\ circuit \in Circuits
    /\ op = [p \in Ports |-> Idle]
    /\ status = [p \in Ports |-> None]
    /\ buffer = [p \in Ports |-> None]
    /\ permits = [p \in Ports |-> IF p \in group THEN 0 ELSE 1]
    /\ bits = UNION {Range(Private(m)) : m \in Automata}
    /\ items = [m \in Masters |-> <<>>] /\ published = [m \in Masters |-> 0]
    /\ full = {} /\ cell = [s \in Slaves |-> None]
    /\ lock = [m \in Masters |-> None]
    /\ todo = [m \in Masters |-> <<>>]
    /\ work = [m \in Masters |-> IF m \in Automata THEN Private(m) ELSE <<>>]
    /\ thread = [m \in Masters |-> "idle"]

\* What the thread of a port does by itself once an operation is under way.
Progress(p) ==
    \/ Flag(p) \/ Offer(p) \/ Publish(p) \/ CallSync(p) \/ Fired(p)
    \/ Check(p) \/ Wake(p) \/ Resume(p) \/ CancelSync(p) \/ Throw(p)

Run(m) == Dequeue(m) \/ Call(m) \/ NextHandler(m)

Next ==
    \/ \E p \in Ports : Start(p) \/ Progress(p) \/ Interrupt(p) \/ Expire(p)
    \/ \E m \in Automata : Statement(m) \/ Run(m)

Spec == Init /\ [][Next]_vars

\* Threads that can run do run; nobody has to start, interrupt or time out.
FairSpec ==
    /\ Spec
    /\ \A p \in Ports : WF_vars(Progress(p))
    /\ \A m \in Masters : WF_vars(Statement(m)) /\ WF_vars(Run(m))
-----------------------------------------------------------------------------
(* Properties                                                              *)

Steps == ({"take"} \X Masters) \cup ({"complete", "release"} \X Ports)
             \cup ({"reach", "kick"} \X PrivatePorts)

\* What the transition of m has still to do, and what any has.
Does(m, do, x) == \E k \in DOMAIN todo[m] : todo[m][k] = <<do, x>>
Pending(do, x) == \E m \in Masters : Does(m, do, x)

\* Every variable keeps its type; a handler is queued at most once, so that
\* the array of QueueableHandlersQueue, one slot per private port, is enough.
LykosTypeOK ==
    /\ op \in [Ports -> [at : Labels, timed : BOOLEAN, interrupts : Nat]]
    /\ status \in [Ports -> {None, "pending", "completed"}]
    /\ buffer \in [Ports -> (UNION Range(Data)) \cup {None}]
    /\ permits \in [Ports -> 0 .. MaxPermits]
    /\ bits \subseteq Ports \cup PrivatePorts
    /\ published \in [Masters -> Nat] /\ DOMAIN items = Masters /\ DOMAIN work = Masters
    /\ \A m \in Automata : items[m] \in Seq(Grouped(m)) /\ published[m] <= Len(items[m])
    /\ todo \in [Masters -> Seq(Steps)]
    /\ full \subseteq Slaves /\ cell \in [Slaves -> (UNION Range(Data)) \cup {None}]
    /\ lock \in [Masters -> Ports \cup Masters \cup {None}]
    /\ thread \in [Masters -> {"idle", "call", "next"}]
    /\ \A m \in Automata : IsInjective(work[m]) /\ Len(work[m]) <= Len(Private(m))

\* The array of SingleReaderQueue has one slot per port of the group, and offer
\* does not look whether its slot is free: a port whose put was interrupted and
\* resumed, or served on another thread while it was still being offered, is
\* never in the queue twice, and never after its put has returned.
SlotsSuffice == \A m \in Automata :
    /\ IsInjective(items[m]) /\ Len(items[m]) <= Cardinality(Grouped(m))
    /\ \A k \in DOMAIN items[m] : ~At(items[m][k], "idle")

\* A master tests the state of a slave and moves the slave later, after it has
\* woken components, with the semaphores that would protect it commented out:
\* the state it leaves is still the one it has tested, and the other master of
\* the slave is not between its own test and its own move.
SlaveStable ==
    \A m \in Masters : \A k \in DOMAIN todo[m] :
        LET x == todo[m][k][2]
        IN  todo[m][k][1] = "reach" =>
                /\ ~Usable(x)
                /\ \A n \in Masters \ {m} : \A l \in DOMAIN todo[n] :
                      todo[n][l] # <<"reach", Opposite(x)>>

\* Once a transition can fire it is fired, or a time-out takes part of it away:
\* no kick and no call is lost between the threads of the components and of the
\* masters, although a failed call drains the semaphore its thread sleeps on.
Ready(m) == m \in Automata /\ Grouped(m) = {} /\ CanFire(m)
ReadyFires == \A m \in Masters : Ready(m) ~> ~Ready(m)

\* A thread whose operation has been completed is woken: the call that drains
\* its permits before it sleeps, while transitions are fired on other threads,
\* never drains the one that stands for the completion.
ServedWakes == \A p \in Ports :
    At(p, "wait") /\ status[p] = "completed" => permits[p] > 0 \/ Pending("release", p)

\* When every thread sleeps no transition could fire (introduction.rst: "As
\* soon as" all requests have been issued the protocol accepts them).
NoLostRequest ==
    /\ \A p \in Ports : At(p, "idle") \/ (At(p, "wait") /\ permits[p] = 0)
    /\ \A m \in Masters : thread[m] = "idle" /\ work[m] = <<>>
    => \A m \in Automata : ~CanFire(m)

\* The requests as the components see them: what a transition being fired has
\* still to do is as good as done.
Request(p) ==
    CASE At(p, "idle") -> "none"
      [] At(p, "throw") -> "withdrawn"
      [] ~At(p, "idle") /\ (status[p] = "completed" \/ Pending("complete", p)) -> "done"
      [] OTHER -> "pending"
Holds(s) ==
    \/ Pending("reach", <<"out", s>>)
    \/ s \in full /\ ~Pending("reach", <<"in", s>>)

\* One rule per transition, or per port in the queue of the transition.
RulesOf(m) ==
    LET rule(ps, from) == [ports |-> ps, from |-> from,
            fills |-> {s \in Slaves : <<"in", s>> \in Range(Private(m))},
            empties |-> {s \in Slaves : <<"out", s>> \in Range(Private(m))}]
    IN  IF Grouped(m) = {} THEN {rule(Public(m), Source(m))}
        ELSE {rule(Range(Alone(m)) \cup {q}, IF Source(m) \in group THEN q ELSE Source(m)) :
                 q \in Grouped(m)}

Promise == INSTANCE Exchange WITH
    Data <- UNION Range(Data),
    Stores <- Slaves,
    rules <- UNION {RulesOf(m) : m \in Automata},
    request <- [p \in Ports |-> Request(p)],
    datum <- buffer,
    store <- [s \in Slaves |-> IF Holds(s) THEN cell[s] ELSE None]

\* The threads, semaphores and queues implement the atomic exchanges that the
\* components are promised: every put that returns normally has been taken once,
\* in one step with the gets and puts of its rule; one that throws a
\* TimeoutException never has been, and never will be.
Exchanges == Promise!Spec

-----------------------------------------------------------------------------
(* The inductive invariant                                                 *)

Once(s, e) == \A k, l \in DOMAIN s : s[k] = e /\ s[l] = e => k = l

\* A transition is fired under the semaphore of its master, takes its ports
\* first, completes each port once, and moves each slave once, from the state
\* that was tested.
TodoOK == \A m \in Masters :
    /\ todo[m] # <<>> => m \in Automata /\ lock[m] # None
    /\ \A k \in DOMAIN todo[m] : todo[m][k][1] = "take" => k = 1 /\ todo[m][k][2] = m
    /\ \A p \in Ports : Does(m, "complete", p) =>
          p \in Public(m) /\ Once(todo[m], <<"complete", p>>)
    /\ \A x \in PrivatePorts : Does(m, "kick", x) => \E n \in Automata : x \in Range(Private(n))
    /\ \A x \in PrivatePorts : Does(m, "reach", x) =>
          /\ Opposite(x) \in Range(Private(m)) /\ ~Usable(x)
          /\ Once(todo[m], <<"reach", x>>)

\* The semaphore is held by the thread that fires, and by the one of the master
\* while it has work.
LockOK ==
    /\ \A m \in Masters :
          /\ lock[m] \in Masters => lock[m] = m /\ thread[m] # "idle"
          /\ lock[m] \in Ports => At(lock[m], "firing") /\ m = Master(lock[m])
          /\ thread[m] = "next" => lock[m] = m
          /\ thread[m] = "call" /\ lock[m] = m => todo[m] = <<>>
    /\ \A p \in Ports : At(p, "firing") => lock[Master(p)] = p

\* What a thread can be at, and what it knows there.
OpsOK == \A p \in Ports :
    /\ At(p, "idle") \/ \E m \in Automata : p \in Public(m)
    /\ op[p].timed => p \notin group
    /\ At(p, "cancel") => op[p].timed
    /\ At(p, "publish") => p \in group
    /\ At(p, "flag") => status[p] = "pending"
    /\ At(p, "throw") => status[p] = None
    /\ At(p, "firing") /\ op[p].timed => status[p] = "completed" \/ Pending("complete", p)

\* A port that can be taken, or has been and is not yet completed, belongs to an
\* operation that is pending and has been flagged; it is not taken again.
Flagged(p) == p \in bits \/ \E m \in Automata : p \in Range(items[m])
Open(p) == status[p] = "pending" /\ op[p].at \notin {"idle", "flag"}
RequestsOK ==
    /\ \A p \in Ports : Flagged(p) \/ Pending("complete", p) => Open(p)
    /\ bits \cap group = {}
    /\ \A m \in Automata : \A p \in Ports : Does(m, "complete", p) =>
          IF Does(m, "take", m) THEN p \in group => p = Head(items[m]) ELSE ~Flagged(p)

\* The queue: no port twice, and all items counted but those being offered.
ItemsOK == \A m \in Automata :
    /\ IsInjective(items[m])
    /\ Len(items[m]) = published[m] + Cardinality({p \in Grouped(m) : At(p, "publish")})
    /\ Does(m, "take", m) /\ Grouped(m) # {} => published[m] > 0

WorkOK == \A m \in Automata : work[m] \in Seq(Range(Private(m))) /\ IsInjective(work[m])

\* There is a datum wherever a transition takes one.
DataOK ==
    /\ \A p \in OutPorts : ~At(p, "idle") => buffer[p] # None
    /\ \A s \in Slaves : Holds(s) => cell[s] # None

\* Who is completed is released next.
FollowedBy(s, e, f) == \A k \in DOMAIN s : s[k] = e => k + 1 \in DOMAIN s /\ s[k + 1] = f
Followed == \A m \in Masters : \A p \in Ports :
    FollowedBy(todo[m], <<"complete", p>>, <<"release", p>>)
WakesInv == Followed /\ ServedWakes

LykosInv == /\ circuit \in Circuits /\ LykosTypeOK /\ TodoOK /\ LockOK /\ OpsOK
            /\ RequestsOK /\ ItemsOK /\ WorkOK /\ DataOK
=============================================================================
