# Reo in TLA+

Reo is a coordination language: a *connector* says how data flows between the
ports of otherwise independent components, and the compilers in this repository
turn connectors into programs whose protocol component enforces that flow.  What
is hard in it is not the language but what the generated programs do at run
time: every component is a thread, ports are shared fields, and "synchronously"
in a connector has to be brought about by a sequence of reads, writes, locks
and wakeups.  This project models those runtimes, checks them on small
programs, and proves the Java ports, the generated Java protocol, the C and the
Lykos runtime and the composition of rules correct for all programs.

## 1. The system

| Component | State | Operations | Talks to |
|---|---|---|---|
| Java ports, `reo-runtime-java` (`PortWaitNotify`) | volatile fields `put`, `get` | `put`, `get`, `hasGet`, `peek` | wakes producer and consumer with `activate()` (`synchronized (this) { notify(); }`) |
| Generated Java protocol, `reo-compiler/.../Java.stg` | counters `i`, `j`, memory cells, its monitor | `run`, `fire(i)`: guard, then puts, assignments, gets | its ports; suspended in `wait()` while no guard holds |
| Other Java ports (`PortBusyWait`, `PortRingBuffer`, `PortFIFO1`, `SchedulablePort`) | the slot, or a ring with `head` and `tail` | the same interface, and `put`/`get` with a timeout | the same |
| C runtime, `reo-runtime-c-lykos` (`automaton.c`, `transition.c`, `state.c`, `context.c`, `fifo.c`) | per automaton a mutex, a semaphore, the atomic context, the current state; per fifo a ring and a mutex | `fire`, `kick`, `start`, `stop`, the loop; `push`, `pop`, `update_contexts` | fifos change the contexts of two automata and kick them |
| C ports (`port.c`) | status, data, semaphore, timeout | `put`, `get`, `cancel`, `set_timeout` | fires the transitions of its automaton in the caller's thread |
| C data constraints (`problem.c`, `container.c`) | variables of a problem, reference counts | `solve`, `set_from_variables` | ports and fifos, through `peek` and `set` |
| Lykos Java runtime (`reo-runtime-java-lykos`) and its template (`java-protocol.stg`) | port status and buffer, semaphores, context, current state, queues of handlers | `put`, `get`, timed and interrupted; handler `call`, `cancel`; `Transition.fire`, `State.reach`; master and slave automata | the same division as the C runtime |
| Semantics (`reo-semantics`) | formulas, rules, hyperedges, transition systems | compose, distribute, hide, rename, project | the interpreter and the compilers |
| Commandification (`reo-compiler/.../commands`) | - | turns a rule into a guard and an update | `Java.stg` |
| Compiler drivers, interpreter of Treo, Lykos compiler | syntax trees | parse, evaluate, render | files |
| Scheduler synthesis (`reo-scheduler`) | a game graph | `minimalCredit`, `synthesize` | work automata |
| Editor, installer, GUI workers, examples, documentation, the vendored FreeRTOS tree | - | - | - |

**What makes the components correct**

* *Ports*: every offered datum is handed over once and in order; nobody sleeps
  on a condition that has become false; an offer that is asked for is delivered.
* *Protocol*: a rule fires only when its ports are ready and then never blocks
  half-way on something else; its many steps look like one; a rule that stays
  enabled fires; memory updates are simultaneous.
* *C automata and fifos*: the context of an automaton agrees with its fifos, so
  that a push finds room and a pop finds a datum; data stays in order; whatever
  enables a transition reaches a thread that tries it; `stop` ends.
* *C ports*: the result of an action says what happened to it, also when a
  timeout or a cancellation races with a transition; an action with a timeout
  returns.
* *Lykos Java runtime*: the same, with interrupts, resumption, slaves that are
  moved without a lock, and handlers and items queued at most once.
* *Semantics*: composing and distributing rules gives the synchronous product;
  solvers find a solution exactly when there is one.

**What is hard to test** is listed in `PROJECT.json` under `hazards`: unlocked
fields read one after the other, test-then-wait, guards that are tested long
before their action is executed, three-step resolution of a port observed
half-way, timeouts racing with transitions, context bits updated after the fifo
they describe, drained semaphores.

## 2. The plan

1. `PortWaitNotify`, with the abstract port `Handoff`; type correctness, data
   and wakeup safety proved, and the refinement. *Done.*
2. `JavaProtocol`, with the abstract connector `Connector`. *Done, proved.*
3. `CAutomaton` and `CPort`, with the abstract program `Circuit`. *Done, proved.*
4. `LykosProtocol`, with the abstract protocol `Exchange`. *Done, proved.*  Left:
   masters with several states, time-outs at ports behind a queue, queues of
   private ports, the counters of `SingleReaderQueue` with bounded width.
5. `ConstraintHypergraph` against the synchronous product. *Done, proved.*
   Left: the problem solver of `problem.c` and `Csp.java`; `Commands` against
   the meaning of the rule.
6. The other Java ports: `PortBusyWait` with timeouts, `PortRingBuffer`,
   `PortFIFO1`; then `GameGraph.minimalCredit`.
7. Proofs: the ports implement `Handoff`, `FiresReady` and `NoSleepingRule` for
   any Java connector, `FiresAtomically`, `Synchronous`, `Complete` and `Exact` for
   any connector, `SlaveStable`, `SlotsSuffice`, `ServedWakes` and `Exchanges` for any
   Lykos circuit, `ContextTrue`, `BuffersSafe`, `FifoOrder` and `OutcomeTrue` for any
   C program, `NoLostKick` for any C program in which an action that may be
   cancelled needs no other thread, and that any C program implements
   `Circuit`. *Done.*

Modules that are proved about use no RECURSIVE operator; folds come from the
community modules.

## 3. The modules

### Java ports: `PortWaitNotify`

One variable per field (`put`, `get`), per thread a label (`pc`), the port it
called (`at`) and the local variable `datum` (`reg`), per component its monitor
(`locked`, `waiting`).  Every read and every write of a volatile field is a
step: `if (!get && put != null)` is the two steps of `PutTest`.  Volatile fields
are sequentially consistent in Java, so interleaving is the whole memory model.

| Action | Code |
|---|---|
| `CallPut`, `PutSpin`, `PutWrite`, `PutActivate` | `put`: the call, `while (put != null) {}`, `put = datum`, `cons.activate()` |
| `PutTest`, `PutSync`, `PutLoop`, `PutSuspend`, `PutWake` | the test, `synchronized (prod)`, the loop around `prod.wait()`, and its return |
| `CallGet`, `GetSet`, `GetActivate`, `GetTest` ... `GetWake` | `get`: `get = true`, `prod.activate()`, the same pattern on `cons` |
| `GetRead`, `GetClear`, `GetReset`, `GetNotify` | `datum = put; put = null; get = false; prod.activate()` |
| `WaitReturns` | a spurious wakeup, or an interrupt, which the loops swallow |

`sent` and `received` are history variables.  Assumed: a component is one
thread, a port has one producer and one consumer, and they differ, which is
how generated programs are built.  A null datum is refused before anything is
read.  `setPut`, `setGet` and `take` are never called and not modelled.

`Handoff` is the port its users think of: a slot, an offer and a request, each
with one step to place, take and return.  `HandoffSafe` and `HandoffLive` say
that `PortWaitNotify` implements it, through the mapping `PutOf`/`GetOf`.

### The generated protocol: `JavaProtocol`

Extends `PortWaitNotify` with the thread of one generated component.  Its rules
are data (`Rules`): the ports it puts to and where their data come from, the
ports it gets from, the cells that must be full or empty, the cells it stores
to or clears.  `FireTest` evaluates a guard read by read (`hasGet()` of an
output is two reads, `peek()` of an input one); `FirePut`, `FireMemory`,
`FireGet`, `FireDone` are the parts of an action; the puts and gets are the
port operations of `PortWaitNotify`, executed by the protocol's thread;
`RunSync`, `RunCheck`, `RunSuspend`, `RunWake` are the synchronized block that
looks for an enabled rule and waits.  The order in which the cells of a rule
are assigned is the iteration order of a `HashMap`, hence any order.

`Connector` is what the connector promises: each rule fires in one step.
`FiresAtomically` maps the protocol in the middle of an action to the state in
which the action is complete.

### The C runtime: `CAutomaton`, `CPort`

`CAutomaton` has the automata, their mutexes (`holder`), contexts (`ctx`, one
set of ready ports), semaphores and states, the fifos with their rings, and
the thread of a started automaton.  A thread that fires a transition has a
sequence of calls to make (`todo`): set the sinks (`SetCall`: the data of a port,
or a push), resolve each port (`ResolveCall`: status, context and signal of a
user port, a pop, or the update of the contexts of a fifo), change state, and
kick the automaton and all its ports.  Updating the contexts of a fifo is again
several steps: input end, kick, output end, kick.  Each call is a step of its
own, so every other thread can come in between; a section under a mutex that
touches only what the mutex protects is one step.  Checking the ports of a
transition is one step, because the bits it reads are cleared by nobody but the
mutex holder.  `CPort` adds the user ports: `Begin` (status, data), `Register`,
`Test` (the unlocked read of the status), `CallLock` ... `CallUnlock`
(`REOPort_call`), `Wait`, `Timeout`, `Expire`, `Cancel`.  A port is used by one
thread at a time.  Constraint problems are equalities of sinks with a source,
which always have a solution; semaphores saturate at `SemMax`, as `sem_post` does
at its maximum.

A program is data: `Transitions` gives the transitions of each state of each
automaton, and `IsTransition` says what the constructors and the compiler make of
them: the ports of a transition are different ports of its automaton, what it
equates are its ports, no sink is set twice, data is never set at the output end
of a fifo nor peeked at its input end.  `CPortAssumption` adds the direction of
the user ports: data is set at ports with `can_get` only and peeked at ports with
`can_put` only, and a transition that fires with a getting port sets its data.
`NamesAssumption` says that different things have different names.

`Circuit` is what the components of such a program are promised: automata
joined by bounded queues, in which a transition is one step.  It serves the
requests at all its ports together, takes from queues that have a datum, adds to
queues that have room, moves the data and changes the state of its automaton.
`RunsCircuit` maps `CPort` to it.  A transition is seen at the moment a thread
that holds the mutex finds its ports ready; of the calls still to be made, those
that change what components can see (set, push, pop, state) count as made
(`Coming`, `Due`).  Resolving a port, which takes three calls, and the signals
show nothing.  `Circuit` promises nothing about the requests of ports that may be
cancelled (`Astray`), but does about their data and about every other port; and
a request may come back unserved, as it does in the run `c_pending`, though never
be served and reported otherwise, or served twice.

### The Lykos runtime: `LykosProtocol`

The compiler partitions a connector into *masters*, which have ports of
components, and *slaves*, the fifos between them.  A component's thread, or the
master's own, fires a transition under the semaphore of the master and moves
the slaves with it; the semaphores of the slaves are commented out in the
template.  A circuit is data (`Circuits`): per master its `public` ports that have
masks of their own and its `private` ones, both in the order of the generated
statements, the public ports `queued` behind its queue because they exclude each
other, and the `source` of the datum.  `IsCircuit` is what the compiler makes: a
port is in one part of the partition only (`AutomatonFactory`), ports behind a
queue have one direction (`inferQueues`), the datum comes from a port at which a
component puts or from a fifo that is emptied, and each fifo has a master at
both sides.

State: per port the operation of its thread (`op`: where it is, whether it has
a time-out, how often it may be interrupted), `status`, `buffer` and semaphore;
the context (`bits`); the items of `SingleReaderQueue` and how many of them are
counted; the state and cell of the slaves; per master its semaphore (`lock`),
the queue of its handlers (`work`) and the place of its thread (`thread`).  A
transition being fired is a sequence of statements (`todo`), one step each, in
the order of the template: dequeue, complete and wake, reach, kick.  The test of
the constraint and the copying of data are one step: what they read is changed
by nobody else while the master's semaphore is held, which is what
`SlaveStable` and `Exchanges` rest on.

| Action | Code |
|---|---|
| `Start`, `Flag`, `Offer`, `Publish` | `put`/`get` up to `handler.flag()`; `offer` writes an item and counts it later |
| `CallSync`, `Fired` | `Handler.callSync` and `call()` of the template: completed, fired, or permits drained |
| `Check`, `Wake` | the loops of `resume()` and of the timed operations |
| `Interrupt`, `Resume` | an `InterruptedException`, and the resumption of `putUninterruptibly` |
| `Expire`, `CancelSync`, `Throw` | the deadline, `cancelSync()`, the `TimeoutException` unless its result was that the operation is completed |
| `Dequeue`, `Call`, `NextHandler` | `AutomatonWithQhq.run` |
| `Statement` | the next statement of `Transition.fire`: `Take`, `Complete`, `Release`, `Reach`, `Kick` |

`Exchange` is what the components are promised: a request is pending until one
atomic exchange serves it together with all other requests of a rule, or until
it is withdrawn; the first returns normally, the second fails.  An operation
that is about to throw is seen as withdrawn, whatever its status was, so that
one that throws although it was served is no behaviour of `Exchange`.  The
mapping counts a statement that is still to be done as
done (`Pending`).

### Composition: `ConstraintHypergraph`

The compiler composes a connector by making each rule a node in the hyperedges
of the ports it makes active, and composing hyperedges of equal ports one after
the other.  Ports, hyperedges and leaves come out of hash sets, so `Visit`
takes any port, any of its hyperedges as the base, and `ComposeSingle`,
`ComposeSeveral` and `Poll` take the others, and their leaves, in any order.
The two branches of `HyperEdge.compose` differ in what they erase, and both are
there as written.  A rule is its active (`on`) and silent (`off`) ports; its
formula never decides what is composed.  The reference is `Product`, the
synchronous product by its definition: one rule per component that takes part,
agreeing on all ports, and connected.  `IsConnector` is what the compiler hands
over: no rule makes a port active and silent, a port joins two components (nodes
are inserted where more channel ends coincide), and rules of two components
differ.  That last condition is one of the code: the branch for several leaves
erases a leaf that meets an equal rule, and takes an equal rule of another
component for the same leaf.  Rules of different components have formulas over
different ports and cells, so they are equal only if they say nothing.

`MCPortWaitNotify`, `MCJavaProtocol`, `MCCRuntime`, `MCLykos` and
`MCConstraintHypergraph` hold the instances.

## 4. The runs

| Run | Instance | Shows |
|---|---|---|
| `port` | two components, two ports in opposite directions, fair threads | `NothingLost` and `NoLostWakeup`; the ports implement `Handoff` (`HandoffSafe`), and what is offered and asked for is delivered (`HandoffLive`) |
| `fifo` | a compiled fifo1, consumers that keep asking | the protocol never sleeps through an enabled rule (`NoSleepingRule`); counters stay in range (`RunTypeOK`); a rule that stays able to fire fires (`FiresEventually`) |
| `alternator` | the alternator of the documentation: two inputs, one output, a cell | what a guard has read still holds when its action uses it (`FiresReady`); an action is atomic across three components (`FiresAtomically`) |
| `c_safe` | two producers that take turns and put three data, a fifo with room for two, a running automaton behind it and a consumer; a put may be cancelled, the get may time out | no overflow, underflow or reordering (`BuffersSafe`, `FifoOrder`); contexts agree with the fifo (`ContextTrue`); no lost kick (`NoLostKick`); a result is `success` exactly if one transition fired (`OutcomeTrue`); the threads implement `Circuit` (`RunsCircuit`): what a transition does at its ports, fifos and automaton is one step to all components |
| `c_live` | a fifo, and the automaton behind it stopped at any moment, fair threads | a ready transition fires (`Fires`); a resolved action returns (`ResolvedReturns`); `REOAutomaton_stop` returns (`StopReturns`); with an automaton that stops, too, no kick is lost (`NoLostKick`) |
| `lykos` | a fifo between two masters, a barrier of three ports, a merger with a queue; time-outs, an interrupt, both master threads | the threads implement `Exchange` (`Exchanges`): a put that returns was taken once, one that throws a `TimeoutException` never, and one that was completed in time does not throw; no slave moves from a state other than the one tested (`SlaveStable`); an item is in the queue at most once and not after its put has returned (`SlotsSuffice`); handlers fit their array (`LykosTypeOK`); a completed operation is not left asleep by a call that drains its permits (`ServedWakes`); a transition that can fire does (`ReadyFires`); no deadlock |
| `hypergraph` | seven connectors, all orders of ports, hyperedges and leaves | every node stays a rule that can fire as one (`Synchronous`); no rule of the product is lost on the way (`Derivable`) or in the end (`Complete`); none is added when each rule has a part in the product (`Exact`) |

Five runs show that the code does something other than its documentation says:

| Run | What happens |
|---|---|
| `sync_request` | between `put = null` and `get = false` a request is seen that has been answered; the protocol fires on it and accepts a second datum for a consumer that asked once |
| `shift_update` | a rule that assigns one cell from another reads a cell that has been overwritten, in one order of the `HashMap` |
| `c_pending` | status, context bit and wakeup of a resolved port change one after the other; the port's thread sees the status, begins its next action, and has its new registration erased: `put` returns `RPS_Pending` |
| `c_timeout` | a timeout that finds its action resolved returns with the mutex locked; no later action on that automaton returns, timeout or not |
| `lykos_lost` | `offer` of a first put has written its item and not counted it; a second put counts its own, and the transition fires the first item; a second get sleeps, the first put counts, finds itself served and returns: the second put and get wait for ever |

`Exact` needs its hypothesis: without it the connectors `SyncAndLossy` and
`Ring` of `MCConstraintHypergraph` are counterexamples.  In `Ring`, a fifo that
feeds itself through a sync channel, the port visited first erases the sync
channel together with one rule of the fifo; at the other port there is then
nothing left to compose with, and the second rule of the fifo stays, although
nothing in that connector can ever fire.

A cancelled put is in `c_safe`, but `OutcomeTrue` says nothing of the ports that
may be cancelled: a cancel between `status = RPS_Pending` and the registration
leaves the port in the context, and a transition later takes the datum of an
action that has failed.

**Bounds.** `MaxPuts` and `MaxCalls` bound how many data are offered at a port
and how many actions a port begins: two or three where the ports are the
subject or a fifo is to fill, so that one call can overlap the next one at the
same port, which is where the races are; one where several components or a fifo supply the overlap.
`c_live` moves a single datum: every wakeup on its way from one automaton to the
other is needed once, and the stop may come before, between or after them.
`DataOf` and `Puts` say which data are put at a port: where order or origin
matters, producers put different ones; the code never looks at data otherwise.
In `c_safe` the fifo has two places and gets three data: two of different
producers are in it together, so that their order can be told apart, and the
writing end of its ring of three slots wraps.  Elsewhere fifos have one place.
The theorem `FifosInOrder` is for any capacity.  `SemMax` is 1: a semaphore
is drained before every attempt, so only zero or not zero matters.  The
automata, components and rules of a run are the least that have the interaction
in its name.

In `lykos` operations are not bounded: threads put and get for ever.
`MaxPermits` is 1 (the run also passes with 2): a permit wakes a sleeper, whose
next failed call drains whatever else there is.  `MaxInterrupts` lets one
operation at a time be interrupted once.  The circuits are chosen so that each
mechanism occurs: private ports, slaves and kicks in the fifo, several masks in
the barrier, the queue in the merger; time-outs are at two of the three ports.
In `hypergraph` the connectors bound everything: they are finite and their
composition ends.  `Router` is the one in which leaves belong to both
hyperedges of a port, so that both branches keep what they must.

**Deadlock** is checked in `lykos`: the threads never all wait for each other,
because one of them can fire, ask again or time out.  (`ReadyFires` leaves out
the transitions behind a queue, for which `lykos_lost` refutes it.)
Elsewhere it is not checked: components may stop calling at any time, the
bounds end every run, and a put nobody asks for blocks forever, as it should.
That nobody waits who could go on is what `NoLostWakeup`, `NoSleepingRule`,
`NoLostKick` and the liveness properties say.

**Fairness.** A thread that can run is scheduled (weak fairness of its steps).
Entering a monitor or mutex for which others contend needs strong fairness:
without it a producer that is woken spuriously again and again keeps the
monitor from the consumer that wants to notify it.  The JVM and POSIX do not
promise this in writing, but their monitors and mutexes do not starve a
waiting thread.  In `lykos` weak fairness of each thread is enough: nobody has
to start an operation, interrupt one or let it time out.  A deadline passes (`Timeout` is a step of a fair thread).  No
call is assumed to be made, except in `fifo`, where consumers keep asking
(`EagerSpec`): a rule fires only if its outputs are asked for.

## 5. What is proved

Every theorem holds for all values of the constants that its module's
assumptions allow: any number of ports, components, rules, masters, fifos.

| Module | Theorem | States |
|---|---|---|
| `PortWaitNotifyProof` | `TypeCorrect`, `DataSafe`, `WakeupSafe` | `PortSpec => []TypeOK`, `[]NothingLost`, `[]NoLostWakeup` |
| | `Implements` | `PortSpec => HandoffSafe`: every step of the ports is a step of `Handoff` or invisible |
| `JavaProtocolProof` | `ProtocolInvariance` | `Spec => []ProtocolInv` |
| | `RunTypeCorrect`, `ReadySafe`, `SleepSafe`, `ProtocolDataSafe` | `Spec => []RunTypeOK`, `[]FiresReady`, `[]NoSleepingRule`, `[]NothingLost` |
| `JavaRefinementProof` | `AtomicFiring` | `Sequential => (Spec => FiresAtomically)`: the protocol implements `Connector` |
| | `OrderFree` | `Sequential => (Spec => SequentialUpdate)` |
| `ConstraintHypergraphProof` | `HypergraphInvariance` | `Spec => []HypergraphInv` |
| | `HypergraphTyped`, `NodesFire`, `NothingIsLost`, `ProductComposed` | `Spec => []HypergraphTypeOK`, `[]Synchronous`, `[]Derivable`, `[]Complete` |
| | `NothingIsAdded` | `Exclusive => (Spec => []Exact)` |
| `LykosProof` | `LykosInvariance` | `Spec => []LykosInv` |
| | `LykosTyped`, `SlavesSafe`, `QueueSafe` | `Spec => []LykosTypeOK`, `[]SlaveStable`, `[]SlotsSuffice` |
| | `ServedAwake` | `Spec => []ServedWakes` |
| `LykosRefinementProof` | `ProtocolExchanges` | `Spec => Exchanges`: the threads implement `Exchange` |
| `CPortProof` | `CInvariance` | `Spec => []CInv` |
| | `CTyped`, `FifosSafe`, `FifosInOrder`, `ContextsTrue` | `Spec => []CTypeOK`, `[]BuffersSafe`, `[]FifoOrder`, `[]ContextTrue` |
| | `OutcomesTrue` | `Spec => OutcomeTrue` |
| | `WakeupsKept` | `LoneCancels => (Spec => []NoLostKick)` |
| `CRefinementProof` | `CircuitRuns` | `Spec => RunsCircuit`: the threads implement `Circuit` |

Each proof has the same shape: an inductive invariant stated with the model it
is about, one lemma per action (or per kind of step) that preserves it, one
lemma for what it implies, and PTL for the temporal step.

**Java ports.**  Neither property is inductive.  `NothingLost` needs to know that
a thread at `put = datum` still finds the slot empty although it tested it
without a lock.  That holds because only the producer fills the slot and only
the consumer empties it: `CallsOK` (a thread inside `put` is the producer of its
port, inside `get` the consumer, and `get[p]` is true exactly between the two
assignments) and `SlotsOK` (what a thread knows of the slot at each label).
`NoLostWakeup` moreover needs `MonitorsOK`: a monitor is held exactly in the
synchronized blocks, and a thread that has tested its condition inside the
block, or sleeps, still finds it true or the other side is held up at
`activate()`, which the monitor makes wait.  The refinement uses the invariant
to show that the only visible steps are the write of a datum, its read and its
removal, and that a phase of a call shows nothing to anyone but its own thread.

**Java protocol.**  `ProtocolInv` carries the port invariants over, for the calls
of the protocol are steps of a thread like any other, and adds what the
protocol knows.  `SlotsKnown`: what the guard has read of a slot stays true
until the action uses it, since nobody else fills its outputs or empties its
inputs, and each put and get of the action leaves the ones to come alone; this
is why a put inside `fire` finds an empty slot and why `FiresReady` holds.
`SearchOK`: no rule that `run` has already passed over in its synchronized block
becomes enabled unless a thread is on its way to `activate()` of the protocol's
monitor.  `RunCallsOK` and `RunLockOK` say in which call and in which monitor
the thread is.

The memory update is a recursive function of the order in which the `HashMap`
yields its entries; what it computes is proved by least counterexample over its
positions (`LeastElement`, from the library's `WFMin`), as induction with an
operator parameter is not available.  `Sequential`, the premise of the
refinement, says that no rule moves data between cells that it stores to;
without it the theorem is false, as the run `shift_update` shows; the connectors of
the runs `fifo` and `alternator` satisfy it.

`ProtocolAssumption` says that the ports and cells of a rule occur once in it
(they are keys of maps), that it puts at ports the protocol produces for and
gets at ports it consumes from, that its data come from cells or from ports it
gets from (`IsRule`), and that there is a rule.

**Composition.**  `HypergraphInv` has to say in the middle of `compose`, for any
order of the hash sets, why a rule of the product is not lost.  `LeavesOK` and
`HangsOK`: a node hangs from exactly the hyperedges in which it is active, as
long as these have not been composed; so the partner a node needs is found.
`PollOK` and `PolledOK`: while leaves are polled, a leaf of the base that will
be removed is still to be composed with, or a larger part of the same product
rule already exists.  `MergedOK`: hyperedges of a port that have been composed
share their nodes as far as the product needs them, so that at the end a node
with a maximal part of a product rule has the whole of it (here connectedness
of the rule is used).  `ConnectorAssumption` (`IsConnector`) is the hypothesis.

That nothing is added (`NothingIsAdded`) needs an invariant of its own,
`PairedOK`: where every rule takes part in the product, no hyperedge is empty
when its port is visited, and so every node that is active at a port after that
is active there in both components.  A node of the result then agrees with all
components.  The hypothesis `Exclusive` says that of two rules of a component one
silences a port that the other makes active, as in every channel of the runs; it
rules out that a node has two rules of one component.  The code needs it:
`RuleNode.canSync` compares ports only, so that two rules that differ in their
formulas, not in their ports, can synchronise with each other.  With a component
of two such rules at ports `a` and `b`, and a sync channel at the same ports,
distributing `a` makes two nodes, and distributing `b` composes these with one
another: `distribute` ends with a third rule, that does what both rules do, and
`Exact` fails.

**Lykos.**  `LykosInv` relates the semaphore, the statements still to be done and
the operations.  `TodoOK` and `LockOK`: statements are done under the semaphore
of their master, a port is completed and a slave moved at most once, and a slave
that is to be moved is still in the state from which it was tested.  `OpsOK` and
`RequestsOK`: a flagged or dequeued port belongs to an operation that is pending
and past its `flag()`, and once its transition has taken it nothing else can
take it, although its component may already be interrupted, asleep or resumed.
`ItemsOK`: a queue holds no port twice, and all items but those being offered
are counted.  `WorkOK`: a handler is queued at most once.  `DataOK`: there is a
datum wherever one is taken.  `LykosAssumption` asks for `IsCircuit`, for
distinct names, and that `None` is no datum.

The refinement maps a whole firing to one exchange, at the moment the thread
that holds the semaphore finds that its transition can fire; the statements
that are still to do count as done.  Two things make this sound: no other
master has the ports of this one or is moving its slaves (`NobodyElse`), so
nobody sees the difference; and the invariant says that exactly the statements
the mapping counts on are still to come (`FireHolds`, `FireServes`).  Every
statement that follows then changes nothing that the components see.  An
operation that returns has been served (`OperationReturns`); one that is
cancelled without being completed has no completion still to come, because the
semaphore of its master is free (`CancelSeen`), and so is withdrawn.

`ServedAwake` strengthens `ServedWakes` by `Followed`: among the statements still
to do, every completion of a port is followed at once by the release of its
semaphore.  A sleeper that has been completed then either has a permit or the
release to come, and a call that drains permits does so after it has found its
port not completed, under the semaphore under which it would be completed.

**C runtime.**  The difficulty is that a fifo is shared by two automata whose
threads hold different mutexes, and that a transition looks at the contexts,
never at the fifo.  `CInv` relates the calls still to be made (`todo`) to the
mutexes, the fifos and the actions.  `LockOK` and `WorkOK`: the calls of a
transition are made under the mutex of its automaton, by one thread, and concern
ports of that automaton only.  `OrderOK`: a port is set before it is resolved and
resolved once, a fifo is pushed and popped at most once, and everybody of the
automaton is signalled in the end.  `RoomOK` and `StockOK`, per fifo: a pending
push finds room and a pending pop a datum; the bit of an end may be set wrongly
only while a thread of *the automaton that owns that end* still has the update of
the contexts to do, that is, while it holds the mutex that anybody who would rely
on the bit needs (`ReadyEnds`); the other automaton can only make room at the
input end or add data at the output end, so its half-done updates are never
dangerous.  `ContentsOK`: what was pushed is what was popped followed by what the
ring holds; that a ring with wrapping indices is a queue is proved separately
(`HeldPush`, `HeldPop`), for any capacity.  `PortOK` follows an action from its
beginning to its return: who still has to resolve it (`Served`), to take it out
of the context (`Leaving`) or to give it its data (`Setting`), and which results
are possible at which label.  It holds for ports that nobody cancels: the window
between status and registration (section 4) breaks it for the others, and they
are excluded from `OutcomeTrue` as they are in the run; all other theorems but
`WakeupsKept` hold with any cancellation, time-outs and stopped automata.
`TransitionsFor` is a recursive function; that it yields exactly the transitions of the port, so that
the round robin index finds one of them, is proved by least counterexample
(`FilledFacts`).  The hypotheses are `AutomatonAssumption`, `NamesAssumption` and
`CPortAssumption` (section 3).

`NoLostKick` speaks of threads that sleep; what is inductive (`AllAwake`) speaks of
threads that will sleep unless something happens.  A thread is *settled* with a
transition if its semaphore is zero and it sleeps, is on its way to sleep, or has
already passed the transition in the search it began when it drained the
semaphore (`Settled`).  While a transition can fire, every settled thread that may
fire it is signalled, now or by a call still to be made, or one of the ports of the
transition is about to try it (`WillTry`).  Three things keep this true.  The
search starts at a different place each time and wraps around, and it still
passes every transition before the thread sleeps (`RoundCovers`, `AllPassed`).
A transition that was tried in vain could not fire, so passing it is no loss
(`TryInVain`).  And each call that can make a transition ready (a fifo end set by
another automaton, a new state) is followed by the kick that signals everybody of
that automaton, while a port that becomes ready is the one that will try
(`FireWakes`, `CallStepWakes`).

The hypothesis `LoneCancels` says that an action that may be cancelled shares no
transition with another port nor with a running automaton.  Without it the
theorem is false: a put that is cancelled before it is registered leaves its port
ready in the context and tries nothing, and in a program with a transition of
two user ports the other port then sleeps although the transition can fire.  The
program of the run `c_safe` cancels a put and satisfies it; so does every
program that cancels nothing.

That the program implements `Circuit` (`CircuitRuns`) needs no premise beyond the
assumptions.  A whole firing is mapped to one transition, and four facts make
this sound.  While a thread holds the mutex and has no calls to make, nothing is
foreseen of its automaton (`NothingComing`): what it reads of ports, states and
queues is what the components see (`FireReads`).  What a queue holds is told by
what has entered and left it (`RestFacts`), not by the ring, so that the other
automaton's half of a transfer never shows; a fifo whose input bit is set has room, also when
another thread is about to pop (`RoomMeans`, `RoomLeft`).  The calls a firing
puts in `todo` bring what the transition moves, and no two of them anything
different (`FireBrings`, `FireComes`, `OneValue`): that is `FireWrites`.  And each
call, when it is made, changes the state by as much as it was counted for, so it
is a stutter (`CallSeen`).  A port times out only while no transition has served it (`TimedOnly`, and `PortOK` of `CInv`).

**Only model-checked.**

* All liveness (`HandoffLive`, `FiresEventually`, `Fires`, `ResolvedReturns`,
  `StopReturns`, `ReadyFires`), which is out of the prover's reach.
* That the functions on finite data compute what they should for particular
  rules and circuits (the instances of the runs), as nothing inductive over data
  can be proved.

## 6. What is not modelled

* Data constraints in guards, predicates and functions on data; a rule's guard
  is its ports and its memory cells.
* Weak memory: C fields without atomics (`status`, `current_state`, `active`)
  are read and written in some interleaving; compilers may do worse.
* Construction and clean-up of the C objects: the models start when all fifos
  are finished and end before anything is freed.
* Components that use a port from several threads.
* Of the Lykos back end: masters with several states or transitions, silent
  transitions, queues of private ports, and constraints other than copies.
  Time-outs are used only at ports that have a mask: at a port behind a queue
  `cancel()` throws while the semaphore is held (`Handler.cancelSync` has no
  `finally`), and a timed operation returns when another port of the queue was
  served.  `COUNT_PORTS` is never set by the compiler's driver.
* Of the composition: formulas, renaming of memory, hiding and restriction, and
  `RuleBasedAutomaton.distribute`, which no compiler calls.
* `PortBusyWait`, `PortRingBuffer`, `PortFIFO1` and `SchedulablePort`, which no
  compiler puts into generated code.
* The vendored FreeRTOS tree, most of the lines of the repository: a
  third-party operating system that nothing here calls.
* Everything marked `not_modelled` in `PROJECT.json`, for the reasons given there.
