--------------------------- MODULE PortWaitNotify ---------------------------
(***************************************************************************)
(* The ports of a generated Java program (reo-runtime-java, class          *)
(* PortWaitNotify) and the threads that call them.                         *)
(*                                                                         *)
(* A port connects one producing component to one consuming component.     *)
(* Its two fields, put and get, are volatile: every read and every write   *)
(* of one of them is a step of its own, and steps of different threads     *)
(* interleave (sequential consistency).  A component is one thread and one *)
(* monitor: activate() is "synchronized (this) { notify(); }", and only    *)
(* the component's own thread ever waits on its monitor.                   *)
(*                                                                         *)
(* pc[c] is where the thread of c is inside put() or get(), at[c] the port *)
(* it called, reg[c] the local variable "datum" of that call.              *)
(***************************************************************************)
EXTENDS Naturals, Sequences

CONSTANTS Ports,        \* the ports of the program
          Components,   \* the components, each with its thread and monitor
          Prod, Cons,   \* the producer and the consumer of each port
          Data, Null,   \* the data, and Java's null
          DataOf,       \* the data a component other than the protocol offers at a port
          MaxPuts       \* bound: how many data a component offers at a port

ASSUME PortAssumption ==
    /\ Ports # {}
    /\ Prod \in [Ports -> Components]
    /\ Cons \in [Ports -> Components]
    /\ \A p \in Ports : Prod[p] # Cons[p]
    /\ Null \notin Data
    /\ DataOf \in [Ports -> SUBSET Data]
    /\ MaxPuts \in Nat

VARIABLES put,      \* the field put of each port: the offered datum, or Null
          get,      \* the field get of each port: a get() is in progress
          pc, at, reg,
          locked,   \* the thread of c is in a synchronized (c) block
          waiting,  \* the components whose thread is suspended in c.wait()
          sent,     \* history: the data written to put, per port
          received  \* history: the data removed from put, per port

port == <<put, get>>
thread == <<pc, at, reg>>
monitor == <<locked, waiting>>
history == <<sent, received>>
portVars == <<put, get, pc, at, reg, locked, waiting, sent, received>>

PutLabels == {"put_spin", "put_write", "put_activate", "put_test_get",
              "put_test_put", "put_sync", "put_loop_get", "put_loop_put",
              "put_suspend", "put_wait"}
GetLabels == {"get_set", "get_activate", "get_test", "get_sync", "get_loop",
              "get_suspend", "get_wait", "get_read", "get_clear", "get_reset",
              "get_notify"}
\* Labels after get = true and before get = false, and in synchronized blocks.
AskLabels == {"get_activate", "get_test", "get_sync", "get_loop", "get_suspend",
              "get_wait", "get_read", "get_clear", "get_reset"}
LockLabels == {"put_loop_get", "put_loop_put", "put_suspend", "get_loop", "get_suspend"}
Labels == {"idle"} \cup PutLabels \cup GetLabels

\* The thread of c moves from one label to another.
Goto(c, from, to) == pc[c] = from /\ pc' = [pc EXCEPT ![c] = to]

\* A conditional jump: on cond to the first label, else to the second.
Branch(c, from, cond, yes, no) == Goto(c, from, IF cond THEN yes ELSE no)

\* activate(): enter the monitor of c, wake its thread, leave.
Activate(c) == ~locked[c] /\ waiting' = waiting \ {c}

Lock(c) == ~locked[c] /\ locked' = [locked EXCEPT ![c] = TRUE]
Unlock(c) == locked' = [locked EXCEPT ![c] = FALSE]

-----------------------------------------------------------------------------
PortInit ==
    /\ put = [p \in Ports |-> Null]
    /\ get = [p \in Ports |-> FALSE]
    /\ pc = [c \in Components |-> "idle"]
    /\ at = [c \in Components |-> CHOOSE p \in Ports : TRUE]
    /\ reg = [c \in Components |-> Null]
    /\ locked = [c \in Components |-> FALSE]
    /\ waiting = {}
    /\ sent = [p \in Ports |-> <<>>]
    /\ received = [p \in Ports |-> <<>>]

-----------------------------------------------------------------------------
(* put(datum), called by the producer of p.  A null datum is refused with   *)
(* an exception before anything is read: it is no call at all.              *)

CallPut(c, p, d) ==
    /\ c = Prod[p] /\ d # Null
    /\ Goto(c, "idle", "put_spin")
    /\ at' = [at EXCEPT ![c] = p]
    /\ reg' = [reg EXCEPT ![c] = d]
    /\ UNCHANGED <<port, monitor, history>>

\* Mutant: the datum is written over the one still offered.
PutSpin_NoWait(c) ==
    /\ Goto(c, "put_spin", "put_write")
    /\ UNCHANGED <<at, reg, port, monitor, history>>

PutSpin(c) ==          \* while (put != null) {}
    /\ put[at[c]] = Null
    /\ Goto(c, "put_spin", "put_write")
    /\ UNCHANGED <<at, reg, port, monitor, history>>

PutWrite(c) ==         \* put = datum
    /\ Goto(c, "put_write", "put_activate")
    /\ put' = [put EXCEPT ![at[c]] = reg[c]]
    /\ sent' = [sent EXCEPT ![at[c]] = Append(@, reg[c])]
    /\ UNCHANGED <<get, at, reg, monitor, received>>

\* Mutant: the consumer is not activated.
PutActivate_None(c) ==
    /\ Goto(c, "put_activate", "put_test_get")
    /\ UNCHANGED <<at, reg, port, monitor, history>>

PutActivate(c) ==      \* cons.activate()
    /\ Goto(c, "put_activate", "put_test_get")
    /\ Activate(Cons[at[c]])
    /\ UNCHANGED <<at, reg, port, locked, history>>

\* Mutant: put returns without waiting for anybody.
PutTest_NoWait(c) ==
    /\ Goto(c, "put_test_get", "idle")
    /\ UNCHANGED <<at, reg, port, monitor, history>>

PutTest(c) ==          \* if (!get && put != null): two reads
    /\ \/ Branch(c, "put_test_get", get[at[c]], "idle", "put_test_put")
       \/ Branch(c, "put_test_put", put[at[c]] = Null, "idle", "put_sync")
    /\ UNCHANGED <<at, reg, port, monitor, history>>

PutSync(c) ==          \* synchronized (prod) {
    /\ Goto(c, "put_sync", "put_loop_get")
    /\ Lock(c)
    /\ UNCHANGED <<at, reg, port, waiting, history>>

PutLoop(c) ==          \* while (!get && put != null), still in the monitor
    /\ \/ Branch(c, "put_loop_get", get[at[c]], "idle", "put_loop_put")
       \/ Branch(c, "put_loop_put", put[at[c]] = Null, "idle", "put_suspend")
    /\ IF pc'[c] = "idle" THEN Unlock(c) ELSE UNCHANGED locked
    /\ UNCHANGED <<at, reg, port, waiting, history>>

PutSuspend(c) ==       \* prod.wait()
    /\ Goto(c, "put_suspend", "put_wait")
    /\ Unlock(c)
    /\ waiting' = waiting \cup {c}
    /\ UNCHANGED <<at, reg, port, history>>

PutWake(c) ==          \* wait() returns in the monitor, back to the loop
    /\ c \notin waiting
    /\ Goto(c, "put_wait", "put_loop_get")
    /\ Lock(c)
    /\ UNCHANGED <<at, reg, port, waiting, history>>

-----------------------------------------------------------------------------
(* get(), called by the consumer of p.                                      *)

CallGet(c, p) ==
    /\ c = Cons[p]
    /\ Goto(c, "idle", "get_set")
    /\ at' = [at EXCEPT ![c] = p]
    /\ UNCHANGED <<reg, port, monitor, history>>

GetSet(c) ==           \* get = true
    /\ Goto(c, "get_set", "get_activate")
    /\ get' = [get EXCEPT ![at[c]] = TRUE]
    /\ UNCHANGED <<put, at, reg, monitor, history>>

\* Mutant: the producer is not activated when get is set.
GetActivate_None(c) ==
    /\ Goto(c, "get_activate", "get_test")
    /\ UNCHANGED <<at, reg, port, monitor, history>>

GetActivate(c) ==      \* prod.activate()
    /\ Goto(c, "get_activate", "get_test")
    /\ Activate(Prod[at[c]])
    /\ UNCHANGED <<at, reg, port, locked, history>>

GetTest(c) ==          \* if (put == null)
    /\ Branch(c, "get_test", put[at[c]] = Null, "get_sync", "get_read")
    /\ UNCHANGED <<at, reg, port, monitor, history>>

GetSync(c) ==          \* synchronized (cons) {
    /\ Goto(c, "get_sync", "get_loop")
    /\ Lock(c)
    /\ UNCHANGED <<at, reg, port, waiting, history>>

GetLoop(c) ==          \* while (put == null), still in the monitor
    /\ Branch(c, "get_loop", put[at[c]] = Null, "get_suspend", "get_read")
    /\ IF pc'[c] = "get_read" THEN Unlock(c) ELSE UNCHANGED locked
    /\ UNCHANGED <<at, reg, port, waiting, history>>

GetSuspend(c) ==       \* cons.wait()
    /\ Goto(c, "get_suspend", "get_wait")
    /\ Unlock(c)
    /\ waiting' = waiting \cup {c}
    /\ UNCHANGED <<at, reg, port, history>>

\* Mutant: "if (put == null) wait()" instead of the loop.
GetWake_NoLoop(c) ==
    /\ c \notin waiting
    /\ Goto(c, "get_wait", "get_read")
    /\ UNCHANGED <<at, reg, port, monitor, history>>

GetWake(c) ==
    /\ c \notin waiting
    /\ Goto(c, "get_wait", "get_loop")
    /\ Lock(c)
    /\ UNCHANGED <<at, reg, port, waiting, history>>

GetRead(c) ==          \* T datum = put
    /\ Goto(c, "get_read", "get_clear")
    /\ reg' = [reg EXCEPT ![c] = put[at[c]]]
    /\ UNCHANGED <<at, port, monitor, history>>

GetClear(c) ==         \* put = null
    /\ Goto(c, "get_clear", "get_reset")
    /\ put' = [put EXCEPT ![at[c]] = Null]
    /\ received' = [received EXCEPT ![at[c]] = Append(@, reg[c])]
    /\ UNCHANGED <<get, at, reg, monitor, sent>>

GetReset(c) ==         \* get = false
    /\ Goto(c, "get_reset", "get_notify")
    /\ get' = [get EXCEPT ![at[c]] = FALSE]
    /\ UNCHANGED <<put, at, reg, monitor, history>>

GetNotify(c) ==        \* prod.activate(); return datum
    /\ Goto(c, "get_notify", "idle")
    /\ Activate(Prod[at[c]])
    /\ UNCHANGED <<at, reg, port, locked, history>>

-----------------------------------------------------------------------------
\* wait() may return without a notify: a spurious wakeup, or an interrupt
\* whose exception both loops swallow.
WaitReturns(c) ==
    /\ c \in waiting
    /\ waiting' = waiting \ {c}
    /\ UNCHANGED <<port, thread, locked, history>>

\* A component offers a datum at one of its output ports.
Offer(c) ==
    \E p \in Ports : \E d \in DataOf[p] : Len(sent[p]) < MaxPuts /\ CallPut(c, p, d)

\* A component asks for a datum at one of its input ports.
Request(c) == \E p \in Ports : CallGet(c, p)

PutStep(c) == \/ PutSpin(c) \/ PutWrite(c) \/ PutActivate(c) \/ PutTest(c)
              \/ PutSync(c) \/ PutLoop(c) \/ PutSuspend(c) \/ PutWake(c)

GetStep(c) == \/ GetSet(c) \/ GetActivate(c) \/ GetTest(c) \/ GetSync(c)
              \/ GetLoop(c) \/ GetSuspend(c) \/ GetWake(c) \/ GetRead(c)
              \/ GetClear(c) \/ GetReset(c) \/ GetNotify(c)

ThreadStep(c) == Offer(c) \/ Request(c) \/ PutStep(c) \/ GetStep(c) \/ WaitReturns(c)

PortNext == \E c \in Components : ThreadStep(c)

PortSpec == PortInit /\ [][PortNext]_portVars

\* The JVM schedules every thread that can run, and lets a thread that keeps
\* contending for a monitor enter it.  A component need not make a call.
PortFairSpec == PortSpec /\ \A c \in Components :
    /\ WF_portVars(PutStep(c)) /\ WF_portVars(GetStep(c))
    /\ SF_portVars(PutActivate(c)) /\ SF_portVars(GetActivate(c))
    /\ SF_portVars(GetNotify(c))

-----------------------------------------------------------------------------
(* Properties                                                               *)

\* Every variable has its type.
TypeOK ==
    /\ put \in [Ports -> Data \cup {Null}]
    /\ get \in [Ports -> BOOLEAN]
    /\ pc \in [Components -> Labels]
    /\ at \in [Components -> Ports]
    /\ reg \in [Components -> Data \cup {Null}]
    /\ locked \in [Components -> BOOLEAN]
    /\ waiting \subseteq Components
    /\ sent \in [Ports -> Seq(Data)]
    /\ received \in [Ports -> Seq(Data)]

\* A port neither loses, nor duplicates, nor reorders a datum, although no
\* lock protects its fields: what was written to put has been removed, in
\* order, all but the datum the field holds now.
LogOK(p) == sent[p] = IF put[p] = Null THEN received[p]
                                       ELSE Append(received[p], put[p])
NothingLost == \A p \in Ports : LogOK(p)

\* The thread of c is in its call on port p, at one of the labels L.
Inside(c, p, L) == at[c] = p /\ pc[c] \in L

\* The wait condition of a suspended thread still holds, or the other side of
\* its port has changed it and is on its way to activate().
ProducerWillBeWoken(p) == 
    \/ ~get[p] /\ put[p] # Null
    \/ Inside(Cons[p], p, {"get_activate", "get_reset", "get_notify"})

ConsumerWillBeWoken(p) ==
    put[p] = Null \/ Inside(Prod[p], p, {"put_activate"})

\* No wakeup is lost: a thread never sleeps on a condition that has become
\* false unless the notify that ends its sleep is still to come.
NoLostWakeup == \A c \in waiting :
    /\ pc[c] = "put_wait" => ProducerWillBeWoken(at[c])
    /\ pc[c] = "get_wait" => ConsumerWillBeWoken(at[c])

\* The port as its two components see it: the calls and the slot, not the
\* threads.  A put is placed when it is written, a get has its datum when it
\* has cleared put, and ends when it resets get.
PutOf(p) ==
    IF Inside(Prod[p], p, {"put_spin", "put_write"}) THEN "waiting"
    ELSE IF Inside(Prod[p], p, PutLabels) THEN "placed" ELSE "none"

GetOf(p) ==
    IF ~get[p] THEN "none"
    ELSE IF Inside(Cons[p], p, {"get_reset"}) THEN "taken" ELSE "asking"

H == INSTANCE Handoff WITH
        slot <- put, offer <- [p \in Ports |-> PutOf(p)],
        ask <- [p \in Ports |-> GetOf(p)]

\* The threads, the monitors and the wakeups implement the handoff, and with
\* it every offer that is asked for is delivered, and both calls return.
HandoffSafe == H!Spec
HandoffLive == H!FairSpec

-----------------------------------------------------------------------------
(* The inductive invariant behind NothingLost and NoLostWakeup.             *)

\* A thread inside put() or get() is the producer or consumer of its port.
CallOK(c) == /\ pc[c] \in PutLabels => Prod[at[c]] = c
             /\ pc[c] \in GetLabels => Cons[at[c]] = c

\* get is set exactly while the consumer is between setting and resetting it.
GetOK(p) == get[p] <=> Inside(Cons[p], p, AskLabels)

\* What a thread knows of put when it is about to write it.
SlotOK(c) ==
    /\ pc[c] \in {"put_spin", "put_write"} => reg[c] # Null
    /\ pc[c] = "put_write" => put[at[c]] = Null
    /\ pc[c] \in {"get_read", "get_clear"} => put[at[c]] # Null
    /\ pc[c] = "get_clear" => reg[c] = put[at[c]]

\* The thread holds its monitor exactly in the synchronized blocks.
LockOK(c) == locked[c] <=> pc[c] \in LockLabels

\* A producer that has seen no get, and a consumer that has seen no put: while
\* they hold their monitor or sleep, the other side is held up at activate().
NoGetSeen(p) == ~get[p] \/ Inside(Cons[p], p, {"get_activate"})
Asleep(c, label) == pc[c] = label /\ c \in waiting

ProducerOK(c) ==
    /\ pc[c] = "put_loop_put" => NoGetSeen(at[c])
    /\ pc[c] = "put_suspend" \/ Asleep(c, "put_wait")
            => NoGetSeen(at[c]) /\ put[at[c]] # Null
ConsumerOK(c) ==
    pc[c] = "get_suspend" \/ Asleep(c, "get_wait") => ConsumerWillBeWoken(at[c])

CallsOK == (\A c \in Components : CallOK(c)) /\ (\A p \in Ports : GetOK(p))
SlotsOK == \A c \in Components : SlotOK(c)
MonitorsOK == \A c \in Components : LockOK(c) /\ ProducerOK(c) /\ ConsumerOK(c)

PortInv == TypeOK /\ CallsOK /\ SlotsOK /\ NothingLost /\ MonitorsOK

=============================================================================
