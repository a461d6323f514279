---------------------------- MODULE JavaProtocol ----------------------------
(***************************************************************************)
(* The protocol component the compiler generates from a connector          *)
(* (reo-compiler, Java.stg), running on PortWaitNotify ports between the   *)
(* other components of the program.  Its thread tries its rules round      *)
(* robin, and suspends on its own monitor while no guard holds.  A guard   *)
(* reads the fields of the ports one by one while their other ends move.   *)
(*                                                                         *)
(* Rules are records as in Connector, with the data part of a guard left   *)
(* out: r.outs, r.ins, r.full, r.empty, r.store, r.clear.                  *)
(***************************************************************************)
EXTENDS PortWaitNotify, FiniteSets

CONSTANTS Protocol,   \* the generated component
          Rules,      \* its transitions, in the order of the arrays
          Cells, InitMem

S == INSTANCE SequencesExt

Inputs == {p \in Ports : Cons[p] = Protocol}
Outputs == {p \in Ports : Prod[p] = Protocol}
NRules == Len(Rules)

\* Where the data of rule r may come from: the memory, and the ports it gets.
Sources(r) == Cells \cup {r.ins[m] : m \in DOMAIN r.ins}

\* The ports and the cells of a rule are the keys of maps: each occurs once.
IsRule(r) ==
    /\ r.outs \in Seq([port : Outputs, from : Sources(r)])
    /\ r.ins \in Seq(Inputs)
    /\ \A m1, m2 \in DOMAIN r.outs : r.outs[m1].port = r.outs[m2].port => m1 = m2
    /\ \A m1, m2 \in DOMAIN r.ins : r.ins[m1] = r.ins[m2] => m1 = m2
    /\ r.full \cup r.empty \cup r.clear \cup DOMAIN r.store \subseteq Cells
    /\ \A x \in DOMAIN r.store : r.store[x] \in Sources(r)

ASSUME ProtocolAssumption ==
    /\ Protocol \in Components
    /\ NRules \in Nat \ {0} /\ DOMAIN Rules = 1 .. NRules
    /\ \A m \in DOMAIN Rules : IsRule(Rules[m])
    /\ IsFiniteSet(Cells) /\ Cells \cap Ports = {}
    /\ InitMem \in [Cells -> Data \cup {Null}]

VARIABLES run,    \* where the thread is in run(), when not in a put or a get
          i, j,   \* the loop counters of run()
          k,      \* the rule whose guard or action is being executed
          n,      \* how far: the next read of its guard, put or get to do
          mem     \* the memory cells of the protocol

runVars == <<run, i, j, k, n>>
vars == <<portVars, runVars, mem>>

\* p.peek() of a port, or the value of a memory cell.
Term(x) == IF x \in Cells THEN mem[x] ELSE put[x]

-----------------------------------------------------------------------------
\* Mutant: hasGet() forgets "put == null".
GuardReads_GetOnly(r) ==
    [m \in DOMAIN r.outs |-> [field |-> "get", port |-> r.outs[m].port]]
    \o [m \in DOMAIN r.ins |-> [field |-> "offer", port |-> r.ins[m]]]

\* The reads of a guard, in order: hasGet() of each output port is the two
\* reads of "get && put == null", then each input port is peeked at.
GuardReads(r) == [m \in 1 .. 2 * Len(r.outs) + Len(r.ins) |->
    IF m > 2 * Len(r.outs) THEN [field |-> "offer", port |-> r.ins[m - 2 * Len(r.outs)]]
    ELSE [field |-> IF m % 2 = 1 THEN "get" ELSE "free", port |-> r.outs[(m + 1) \div 2].port]]

ReadHolds(x) == \/ x.field = "get" /\ get[x.port]
                \/ x.field = "free" /\ put[x.port] = Null
                \/ x.field = "offer" /\ put[x.port] # Null

\* The tests on the protocol's own memory, which no other thread sees.
MemoryTest(r) == /\ \A x \in r.full : mem[x] # Null
                 /\ \A x \in r.empty : mem[x] = Null

\* One step in the evaluation of the guard of rule k: a read that holds leads
\* to the next one; after the last one the guard is true.
GuardStep == LET reads == GuardReads(Rules[k]) IN
    /\ MemoryTest(Rules[k]) /\ n <= Len(reads) /\ ReadHolds(reads[n])
    /\ n' = n + 1
    /\ UNCHANGED <<run, i, j, k>>

GuardTrue == MemoryTest(Rules[k]) /\ n > Len(GuardReads(Rules[k]))

GuardFalse == LET reads == GuardReads(Rules[k]) IN
    ~MemoryTest(Rules[k]) \/ (n <= Len(reads) /\ ~ReadHolds(reads[n]))

\* A memory update is the assignments of the non-null cells, in the order of a
\* HashMap's keys, and then of the null ones.
Assigned(r, order) ==
    LET after[q \in 0 .. Len(order)] ==
            IF q = 0 THEN mem
            ELSE [after[q - 1] EXCEPT ![order[q]] =
                    LET from == r.store[order[q]]
                    IN  IF from \in Cells THEN after[q - 1][from] ELSE put[from]]
    IN  [x \in Cells |-> IF x \in r.clear THEN Null ELSE after[Len(order)][x]]

-----------------------------------------------------------------------------
Init ==
    /\ PortInit
    /\ run = "fire" /\ i = 0 /\ j = 0 /\ k = 1 /\ n = 1
    /\ mem = InitMem

At(label) == run = label /\ pc[Protocol] = "idle"

\* Mutants: no wrap around; no advance at all.
Advance_NoWrap == /\ i' = i + 1 /\ run' = "sync" /\ UNCHANGED <<j, k, n>>
Advance_Never == run' = "sync" /\ UNCHANGED <<i, j, k, n>>

\* i = (i+1) % s; if (i == 0) j = (j+1) % s
Advance ==
    /\ i' = (i + 1) % NRules
    /\ j' = IF i' = 0 THEN (j + 1) % NRules ELSE j
    /\ run' = "sync"
    /\ UNCHANGED <<k, n>>

\* fire(i): if the guard holds, update().
FireTest ==
    /\ At("fire")
    /\ \/ GuardStep
       \/ GuardTrue /\ run' = "puts" /\ n' = 1 /\ UNCHANGED <<i, j, k>>
       \/ GuardFalse /\ Advance
    /\ UNCHANGED <<portVars, mem>>

\* update(), first part: p.put(term) for every output port of the rule.
FirePut == LET r == Rules[k] IN
    /\ At("puts") /\ n <= Len(r.outs)
    /\ CallPut(Protocol, r.outs[n].port, Term(r.outs[n].from))
    /\ n' = n + 1
    /\ UNCHANGED <<run, i, j, k, mem>>

\* update(), second part: the memory cells.
FireMemory == LET r == Rules[k] IN
    /\ At("puts") /\ n > Len(r.outs)
    /\ \E order \in S!SetToSeqs(DOMAIN r.store) : mem' = Assigned(r, order)
    /\ run' = "gets" /\ n' = 1
    /\ UNCHANGED <<i, j, k, portVars>>

\* update(), last part: p.get() for every input port of the rule.
FireGet == LET r == Rules[k] IN
    /\ At("gets") /\ n <= Len(r.ins)
    /\ CallGet(Protocol, r.ins[n])
    /\ n' = n + 1
    /\ UNCHANGED <<run, i, j, k, mem>>

\* Mutant: the last get is left out.
FireDone_OneShort ==
    /\ At("gets") /\ n >= Len(Rules[k].ins)
    /\ Advance
    /\ UNCHANGED <<portVars, mem>>

FireDone ==
    /\ At("gets") /\ n > Len(Rules[k].ins)
    /\ Advance
    /\ UNCHANGED <<portVars, mem>>

\* Mutant: the guards are checked outside the monitor.
RunSync_NoLock ==
    /\ At("sync")
    /\ run' = "check" /\ k' = 1 /\ n' = 1
    /\ UNCHANGED <<portVars, i, j, mem>>

\* synchronized (this) { while (true) { if (guard) break; ... wait(); } }
RunSync ==
    /\ At("sync") /\ Lock(Protocol)
    /\ run' = "check" /\ k' = 1 /\ n' = 1
    /\ UNCHANGED <<port, thread, waiting, history, i, j, mem>>

RunCheck ==
    /\ At("check")
    /\ \/ GuardStep /\ UNCHANGED locked
       \/ /\ GuardTrue /\ Unlock(Protocol)
          /\ run' = "fire" /\ k' = ((i + j) % NRules) + 1 /\ n' = 1
          /\ UNCHANGED <<i, j>>
       \/ /\ GuardFalse
          /\ IF k < NRules THEN run' = run /\ k' = k + 1 ELSE run' = "suspend" /\ k' = 1
          /\ n' = 1
          /\ UNCHANGED <<locked, i, j>>
    /\ UNCHANGED <<port, thread, waiting, history, mem>>

RunSuspend ==
    /\ At("suspend") /\ Unlock(Protocol)
    /\ waiting' = waiting \cup {Protocol}
    /\ run' = "wait"
    /\ UNCHANGED <<port, thread, history, i, j, k, n, mem>>

RunWake ==
    /\ At("wait") /\ Protocol \notin waiting
    /\ Lock(Protocol)
    /\ run' = "check" /\ k' = 1 /\ n' = 1
    /\ UNCHANGED <<port, thread, waiting, history, i, j, mem>>

-----------------------------------------------------------------------------
RunStep == \/ FireTest \/ FirePut \/ FireMemory \/ FireGet \/ FireDone
           \/ RunSync \/ RunCheck \/ RunSuspend \/ RunWake

PortStep(c) == (PutStep(c) \/ GetStep(c)) /\ UNCHANGED <<runVars, mem>>
ActivateStep(c) == (PutActivate(c) \/ GetActivate(c) \/ GetNotify(c)) /\ UNCHANGED <<runVars, mem>>

\* The calls of the other components, at any time.
Call(c) == c # Protocol /\ (Offer(c) \/ Request(c)) /\ UNCHANGED <<runVars, mem>>

Interrupted(c) == WaitReturns(c) /\ UNCHANGED <<runVars, mem>>

Next == RunStep \/ \E c \in Components : PortStep(c) \/ Call(c) \/ Interrupted(c)

Spec == Init /\ [][Next]_vars

\* Threads are scheduled; nothing is assumed of the calls.
FairSpec == /\ Spec /\ WF_vars(RunStep)
            /\ \A c \in Components : WF_vars(PortStep(c)) /\ SF_vars(ActivateStep(c))

\* Moreover the components ask again and again at the protocol's outputs.
Consumer(c) == c # Protocol /\ Request(c) /\ UNCHANGED <<runVars, mem>>
EagerSpec == FairSpec /\ \A c \in Components : WF_vars(Consumer(c))

-----------------------------------------------------------------------------
(* Properties                                                               *)

RunTypeOK ==
    /\ run \in {"fire", "puts", "gets", "sync", "check", "suspend", "wait"}
    /\ i \in 0 .. NRules - 1 /\ j \in 0 .. NRules - 1 /\ k \in 1 .. NRules
    /\ n \in Nat \ {0}
    /\ mem \in [Cells -> Data \cup {Null}]

\* A rule that fires never waits for room and never for a datum: the guard it
\* has tested still holds, although both sides of its ports have moved on.
FiresReady ==
    /\ pc[Protocol] \in {"put_spin", "put_write"} => put[at[Protocol]] = Null
    /\ pc[Protocol] \in GetLabels \ {"get_reset", "get_notify"} => put[at[Protocol]] # Null

\* The protocol never sleeps through an enabled rule: when it is suspended in
\* run(), either no guard holds or a thread is on its way to activate() it.
WillActivate(c) ==
    \/ pc[c] = "put_activate" /\ Cons[at[c]] = Protocol
    \/ pc[c] \in {"get_activate", "get_reset", "get_notify"} /\ Prod[at[c]] = Protocol

RuleEnabled(r) == /\ MemoryTest(r)
                  /\ \A m \in DOMAIN GuardReads(r) : ReadHolds(GuardReads(r)[m])

NoSleepingRule ==
    run = "wait" /\ Protocol \in waiting =>
        \/ \A m \in DOMAIN Rules : ~RuleEnabled(Rules[m])
        \/ \E c \in Components : WillActivate(c)

\* The action in progress, seen as done at once: its puts and memory updates
\* still to come are made, its inputs still to be taken are gone.
Firing == run \in {"puts", "gets"}
DoneInputs == {p \in Inputs : \E m \in DOMAIN Rules[k].ins :
    /\ Rules[k].ins[m] = p
    /\ \/ run = "puts" \/ m >= n
       \/ m = n - 1 /\ pc[Protocol] \in GetLabels \ {"get_reset", "get_notify"}}
DueOutputs == {p \in Outputs : run = "puts" /\ \E m \in DOMAIN Rules[k].outs :
    /\ Rules[k].outs[m].port = p
    /\ \/ m >= n
       \/ m = n - 1 /\ pc[Protocol] \in {"put_spin", "put_write"}}

SlotView == [p \in Inputs \cup Outputs |->
    IF Firing /\ p \in DoneInputs THEN Null
    ELSE IF Firing /\ p \in DueOutputs THEN
        Term((CHOOSE o \in {Rules[k].outs[m] : m \in DOMAIN Rules[k].outs} : o.port = p).from)
    ELSE put[p]]

\* The cells a rule stores to, all assigned from the old values.
MemView == IF run # "puts" THEN mem ELSE
    [x \in Cells |-> IF x \in Rules[k].clear THEN Null
                     ELSE IF x \in DOMAIN Rules[k].store THEN Term(Rules[k].store[x])
                     ELSE mem[x]]

C == INSTANCE Connector WITH
        slot <- SlotView, ask <- [p \in Outputs |-> GetOf(p)], mem <- MemView,
        given <- [p \in Inputs |-> sent[p]], got <- [p \in Outputs |-> received[p]]

\* Step by step, and with every interleaving of the components, the protocol
\* and its ports implement the rules, each fired in one atomic step.
FiresAtomically == C!ConnSpec

\* And a rule that stays able to fire does fire: no wakeup is lost, and round
\* robin reaches every rule.
FiresEventually == C!ConnFairSpec

\* A rule takes its inputs only when its outputs are asked for by a get that
\* has not been answered: introduction.rst, "As soon as Green has also issued
\* a put request, and Blue has issued a get request, the protocol
\* synchronously (i.e., atomically) accepts the data".
FiresOnRequest == [][FireTest /\ run' = "puts" =>
    \A m \in DOMAIN Rules[k].outs : GetOf(Rules[k].outs[m].port) = "asking"]_vars

\* The memory updates of a rule can be evaluated one after the other:
\* Commands.java, "the entries of the update map are ordered such that
\* sequential evaluation is possible".
SequentialUpdate == [][FireMemory => mem' = MemView]_vars

-----------------------------------------------------------------------------
(* The inductive invariant behind FiresReady, NoSleepingRule and             *)
(* FiresAtomically.                                                          *)

\* The monitor of the protocol is its lock in run() too, where it runs with no
\* call in progress; the other threads hold theirs as on any port.
RunLockOK == locked[Protocol] <=> pc[Protocol] \in LockLabels \/ run \in {"check", "suspend"}

ProtocolMonitorsOK == RunLockOK /\ \A q \in Components :
    (q # Protocol => LockOK(q)) /\ ProducerOK(q) /\ ConsumerOK(q)

\* The thread is in a call only in update(), in the one the counter n is at.
InPut(r) == pc[Protocol] \in PutLabels /\ n - 1 \in DOMAIN r.outs /\ at[Protocol] = r.outs[n - 1].port
InGet(r) == pc[Protocol] \in GetLabels /\ n - 1 \in DOMAIN r.ins /\ at[Protocol] = r.ins[n - 1]
RunCallsOK == LET r == Rules[k] IN
    pc[Protocol] = "idle" \/ (run = "puts" /\ InPut(r)) \/ (run = "gets" /\ InGet(r))

\* What a guard has read stays true, but for the request at an output, which
\* may be answered.
StillHolds(x) == x.field # "get" => ReadHolds(x)

\* What the thread knows of the slots: the reads of its guard so far while it
\* evaluates it, and in update() the slots that it has yet to fill or empty.
\* The datum it puts is that of the rule, although other slots move.
Taking == pc[Protocol] \in GetLabels \ {"get_reset", "get_notify"}
Giving == pc[Protocol] \in {"put_spin", "put_write"}
SlotsKnown == LET r == Rules[k] IN
    /\ run \in {"fire", "check"} =>
        \A m \in DOMAIN GuardReads(r) : m < n => StillHolds(GuardReads(r)[m])
    /\ run = "puts" => /\ \A m \in DOMAIN r.ins : put[r.ins[m]] # Null
                       /\ \A m \in DOMAIN r.outs : m >= n => put[r.outs[m].port] = Null
    /\ run = "gets" => \A m \in DOMAIN r.ins : m >= n => put[r.ins[m]] # Null
    /\ Giving => put[at[Protocol]] = Null /\ reg[Protocol] = Term(r.outs[n - 1].from)
    /\ Taking => put[at[Protocol]] # Null

\* No rule up to the l-th is enabled that no thread is about to report.
NoneMissed(l) == \/ \A m \in DOMAIN Rules : m <= l => ~RuleEnabled(Rules[m])
                 \/ \E q \in Components : WillActivate(q)
SearchOK ==
    /\ run = "check" => NoneMissed(k - 1)
    /\ run = "suspend" \/ (run = "wait" /\ Protocol \in waiting) => NoneMissed(NRules)

ProtocolInv ==
    /\ TypeOK /\ CallsOK /\ SlotsOK /\ NothingLost /\ ProtocolMonitorsOK
    /\ RunTypeOK /\ RunCallsOK /\ SlotsKnown /\ SearchOK
=============================================================================
