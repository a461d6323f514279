------------------------ MODULE PortWaitNotifyProof -------------------------
(***************************************************************************)
(* Proofs about PortWaitNotify, for any number of ports and components,    *)
(* however they are connected.  PortInv is inductive.  Each of its parts   *)
(* speaks of one thread x or one port x; a lemma shows that a step of any  *)
(* thread c preserves that part at x, with one step for each action and    *)
(* only the parts of the invariant at x and at c that it needs.            *)
(***************************************************************************)
EXTENDS PortWaitNotify, TLAPS

\* A step of a thread, with no bound on its calls and any datum.
AnyStep(c) == \/ \E p \in Ports : \E d \in Data : CallPut(c, p, d)
              \/ \E p \in Ports : CallGet(c, p)
              \/ PutStep(c) \/ GetStep(c) \/ WaitReturns(c)

LEMMA StepsAreSteps == \A c \in Components : ThreadStep(c) => AnyStep(c)
BY PortAssumption DEF ThreadStep, AnyStep, Offer, Request

\* The jumps a conditional of put() or get() can make, and what it has seen.
PutTestMoves(c) ==
    /\ \/ Goto(c, "put_test_get", "idle") /\ get[at[c]]
       \/ Goto(c, "put_test_get", "put_test_put") /\ ~get[at[c]]
       \/ Goto(c, "put_test_put", "idle") /\ put[at[c]] = Null
       \/ Goto(c, "put_test_put", "put_sync") /\ put[at[c]] # Null
    /\ put' = put /\ get' = get /\ at' = at /\ reg' = reg /\ locked' = locked
    /\ waiting' = waiting /\ sent' = sent /\ received' = received

PutLoopMoves(c) ==
    /\ \/ Goto(c, "put_loop_get", "idle") /\ get[at[c]] /\ Unlock(c)
       \/ Goto(c, "put_loop_get", "put_loop_put") /\ ~get[at[c]] /\ locked' = locked
       \/ Goto(c, "put_loop_put", "idle") /\ put[at[c]] = Null /\ Unlock(c)
       \/ Goto(c, "put_loop_put", "put_suspend") /\ put[at[c]] # Null /\ locked' = locked
    /\ put' = put /\ get' = get /\ at' = at /\ reg' = reg
    /\ waiting' = waiting /\ sent' = sent /\ received' = received

GetTestMoves(c) ==
    /\ \/ Goto(c, "get_test", "get_sync") /\ put[at[c]] = Null
       \/ Goto(c, "get_test", "get_read") /\ put[at[c]] # Null
    /\ put' = put /\ get' = get /\ at' = at /\ reg' = reg /\ locked' = locked
    /\ waiting' = waiting /\ sent' = sent /\ received' = received

GetLoopMoves(c) ==
    /\ \/ Goto(c, "get_loop", "get_suspend") /\ put[at[c]] = Null /\ locked' = locked
       \/ Goto(c, "get_loop", "get_read") /\ put[at[c]] # Null /\ Unlock(c)
    /\ put' = put /\ get' = get /\ at' = at /\ reg' = reg
    /\ waiting' = waiting /\ sent' = sent /\ received' = received

LEMMA PutTestJumps == ASSUME NEW c \in Components, PutTest(c) PROVE PutTestMoves(c)
BY DEF PutTestMoves, PutTest, Branch, Goto, port, monitor, history
LEMMA PutLoopJumps == ASSUME NEW c \in Components, TypeOK, PutLoop(c) PROVE PutLoopMoves(c)
BY DEF PutLoopMoves, PutLoop, Branch, Goto, port, history, TypeOK, Unlock
LEMMA GetTestJumps == ASSUME NEW c \in Components, GetTest(c) PROVE GetTestMoves(c)
BY DEF GetTestMoves, GetTest, Branch, Goto, port, monitor, history
LEMMA GetLoopJumps == ASSUME NEW c \in Components, TypeOK, GetLoop(c) PROVE GetLoopMoves(c)
BY DEF GetLoopMoves, GetLoop, Branch, Goto, port, history, TypeOK, Unlock

\* Every step keeps the types: what is written to put, and what is removed from
\* it, is a datum.
LEMMA TypeStep ==
    ASSUME NEW c \in Components, AnyStep(c),
           TypeOK, SlotOK(c)
    PROVE  TypeOK'
<1> USE PortAssumption DEF TypeOK, Labels, PutLabels, GetLabels, SlotOK
<1>1. ASSUME NEW p \in Ports, NEW d \in Data, CallPut(c, p, d) PROVE TypeOK'
    BY <1>1 DEF CallPut, Goto, port, monitor, history
<1>2. ASSUME NEW p \in Ports, CallGet(c, p) PROVE TypeOK'
    BY <1>2 DEF CallGet, Goto, port, monitor, history
<1>3. CASE PutSpin(c)
    BY <1>3 DEF PutSpin, Goto, port, monitor, history
<1>4. CASE PutWrite(c)
    <2>1. at[c] \in Ports /\ reg[c] \in Data /\ Append(sent[at[c]], reg[c]) \in Seq(Data)
        BY <1>4 DEF PutWrite, Goto
    <2>2. sent' = [sent EXCEPT ![at[c]] = Append(sent[at[c]], reg[c])]
        BY <1>4 DEF PutWrite
    <2>3. sent' \in [Ports -> Seq(Data)]
        BY <2>1, <2>2
    <2>4. /\ put' \in [Ports -> Data \cup {Null}] /\ get' = get /\ at' = at /\ reg' = reg
          /\ locked' = locked /\ waiting' = waiting
          /\ received' = received /\ pc' \in [Components -> Labels]
        BY <1>4, <2>1 DEF PutWrite, Goto, monitor
    <2> QED
        BY <2>3, <2>4
<1>5. CASE PutActivate(c)
    BY <1>5 DEF PutActivate, Goto, port, monitor, history, Activate
<1>6. CASE PutTest(c)
    <2>1. PutTestMoves(c) BY <1>6, PutTestJumps
    <2>2. CASE Goto(c, "put_test_get", "idle") BY <2>1, <2>2 DEF PutTestMoves, Goto
    <2>3. CASE Goto(c, "put_test_get", "put_test_put") BY <2>1, <2>3 DEF PutTestMoves, Goto
    <2>4. CASE Goto(c, "put_test_put", "idle") BY <2>1, <2>4 DEF PutTestMoves, Goto
    <2>5. CASE Goto(c, "put_test_put", "put_sync") BY <2>1, <2>5 DEF PutTestMoves, Goto
    <2> QED BY <2>1, <2>2, <2>3, <2>4, <2>5 DEF PutTestMoves
<1>7. CASE PutSync(c)
    BY <1>7 DEF PutSync, Goto, port, monitor, history, Lock
<1>8. CASE PutLoop(c)
    <2>1. PutLoopMoves(c) BY <1>8, PutLoopJumps
    <2>2. CASE Goto(c, "put_loop_get", "idle") BY <2>1, <2>2 DEF PutLoopMoves, Goto, Unlock
    <2>3. CASE Goto(c, "put_loop_get", "put_loop_put") BY <2>1, <2>3 DEF PutLoopMoves, Goto, Unlock
    <2>4. CASE Goto(c, "put_loop_put", "idle") BY <2>1, <2>4 DEF PutLoopMoves, Goto, Unlock
    <2>5. CASE Goto(c, "put_loop_put", "put_suspend") BY <2>1, <2>5 DEF PutLoopMoves, Goto, Unlock
    <2> QED BY <2>1, <2>2, <2>3, <2>4, <2>5 DEF PutLoopMoves
<1>9. CASE PutSuspend(c)
    BY <1>9 DEF PutSuspend, Goto, port, monitor, history, Unlock
<1>10. CASE PutWake(c)
    BY <1>10 DEF PutWake, Goto, port, monitor, history, Lock
<1>11. CASE GetSet(c)
    BY <1>11 DEF GetSet, Goto, port, monitor, history
<1>12. CASE GetActivate(c)
    BY <1>12 DEF GetActivate, Goto, port, monitor, history, Activate
<1>13. CASE GetTest(c)
    <2>1. GetTestMoves(c) BY <1>13, GetTestJumps
    <2> QED BY <2>1 DEF GetTestMoves, Goto
<1>14. CASE GetSync(c)
    BY <1>14 DEF GetSync, Goto, port, monitor, history, Lock
<1>15. CASE GetLoop(c)
    <2>1. GetLoopMoves(c) BY <1>15, GetLoopJumps
    <2> QED BY <2>1 DEF GetLoopMoves, Goto, Unlock
<1>16. CASE GetSuspend(c)
    BY <1>16 DEF GetSuspend, Goto, port, monitor, history, Unlock
<1>17. CASE GetWake(c)
    BY <1>17 DEF GetWake, Goto, port, monitor, history, Lock
<1>18. CASE GetRead(c)
    BY <1>18 DEF GetRead, Goto, port, monitor, history
<1>19. CASE GetClear(c)
    <2>1. at[c] \in Ports /\ reg[c] \in Data /\ Append(received[at[c]], reg[c]) \in Seq(Data)
        BY <1>19 DEF GetClear, Goto
    <2>2. received' = [received EXCEPT ![at[c]] = Append(received[at[c]], reg[c])]
        BY <1>19 DEF GetClear
    <2>3. received' \in [Ports -> Seq(Data)]
        BY <2>1, <2>2
    <2>4. /\ put' \in [Ports -> Data \cup {Null}] /\ get' = get /\ at' = at /\ reg' = reg
          /\ locked' = locked /\ waiting' = waiting
          /\ sent' = sent /\ pc' \in [Components -> Labels]
        BY <1>19, <2>1 DEF GetClear, Goto, monitor
    <2> QED
        BY <2>3, <2>4
<1>20. CASE GetReset(c)
    BY <1>20 DEF GetReset, Goto, port, monitor, history
<1>21. CASE GetNotify(c)
    BY <1>21 DEF GetNotify, Goto, port, monitor, history, Activate
<1>22. CASE WaitReturns(c)
    BY <1>22 DEF WaitReturns, port, thread, history
<1> QED
    BY <1>1, <1>2, <1>3, <1>4, <1>5, <1>6, <1>7, <1>8, <1>9, <1>10, <1>11,
       <1>12, <1>13, <1>14, <1>15, <1>16, <1>17, <1>18, <1>19, <1>20, <1>21,
       <1>22
    DEF AnyStep, PutStep, GetStep

\* A thread inside a call is an end of its port: calls start at the right end
\* and do not change the port they are on.
LEMMA CallStep ==
    ASSUME NEW c \in Components, NEW x \in Components, AnyStep(c),
           TypeOK, CallOK(x)
    PROVE  CallOK(x)'
<1> USE PortAssumption DEF TypeOK, PutLabels, GetLabels, CallOK
<1>1. ASSUME NEW p \in Ports, NEW d \in Data, CallPut(c, p, d) PROVE CallOK(x)'
    BY <1>1 DEF CallPut, Goto, port, monitor, history
<1>2. ASSUME NEW p \in Ports, CallGet(c, p) PROVE CallOK(x)'
    BY <1>2 DEF CallGet, Goto, port, monitor, history
<1>3. CASE PutSpin(c)
    BY <1>3 DEF PutSpin, Goto, port, monitor, history
<1>4. CASE PutWrite(c)
    BY <1>4 DEF PutWrite, Goto, port, monitor, history
<1>5. CASE PutActivate(c)
    BY <1>5 DEF PutActivate, Goto, port, monitor, history, Activate
<1>6. CASE PutTest(c)
    <2>1. PutTestMoves(c) BY <1>6, PutTestJumps
    <2>2. CASE Goto(c, "put_test_get", "idle") BY <2>1, <2>2 DEF PutTestMoves, Goto
    <2>3. CASE Goto(c, "put_test_get", "put_test_put") BY <2>1, <2>3 DEF PutTestMoves, Goto
    <2>4. CASE Goto(c, "put_test_put", "idle") BY <2>1, <2>4 DEF PutTestMoves, Goto
    <2>5. CASE Goto(c, "put_test_put", "put_sync") BY <2>1, <2>5 DEF PutTestMoves, Goto
    <2> QED BY <2>1, <2>2, <2>3, <2>4, <2>5 DEF PutTestMoves
<1>7. CASE PutSync(c)
    BY <1>7 DEF PutSync, Goto, port, monitor, history, Lock
<1>8. CASE PutLoop(c)
    <2>1. PutLoopMoves(c) BY <1>8, PutLoopJumps
    <2>2. CASE Goto(c, "put_loop_get", "idle") BY <2>1, <2>2 DEF PutLoopMoves, Goto, Unlock
    <2>3. CASE Goto(c, "put_loop_get", "put_loop_put") BY <2>1, <2>3 DEF PutLoopMoves, Goto, Unlock
    <2>4. CASE Goto(c, "put_loop_put", "idle") BY <2>1, <2>4 DEF PutLoopMoves, Goto, Unlock
    <2>5. CASE Goto(c, "put_loop_put", "put_suspend") BY <2>1, <2>5 DEF PutLoopMoves, Goto, Unlock
    <2> QED BY <2>1, <2>2, <2>3, <2>4, <2>5 DEF PutLoopMoves
<1>9. CASE PutSuspend(c)
    BY <1>9 DEF PutSuspend, Goto, port, monitor, history, Unlock
<1>10. CASE PutWake(c)
    BY <1>10 DEF PutWake, Goto, port, monitor, history, Lock
<1>11. CASE GetSet(c)
    BY <1>11 DEF GetSet, Goto, port, monitor, history
<1>12. CASE GetActivate(c)
    BY <1>12 DEF GetActivate, Goto, port, monitor, history, Activate
<1>13. CASE GetTest(c)
    <2>1. GetTestMoves(c) BY <1>13, GetTestJumps
    <2> QED BY <2>1 DEF GetTestMoves, Goto
<1>14. CASE GetSync(c)
    BY <1>14 DEF GetSync, Goto, port, monitor, history, Lock
<1>15. CASE GetLoop(c)
    <2>1. GetLoopMoves(c) BY <1>15, GetLoopJumps
    <2> QED BY <2>1 DEF GetLoopMoves, Goto, Unlock
<1>16. CASE GetSuspend(c)
    BY <1>16 DEF GetSuspend, Goto, port, monitor, history, Unlock
<1>17. CASE GetWake(c)
    BY <1>17 DEF GetWake, Goto, port, monitor, history, Lock
<1>18. CASE GetRead(c)
    BY <1>18 DEF GetRead, Goto, port, monitor, history
<1>19. CASE GetClear(c)
    BY <1>19 DEF GetClear, Goto, port, monitor, history
<1>20. CASE GetReset(c)
    BY <1>20 DEF GetReset, Goto, port, monitor, history
<1>21. CASE GetNotify(c)
    BY <1>21 DEF GetNotify, Goto, port, monitor, history, Activate
<1>22. CASE WaitReturns(c)
    BY <1>22 DEF WaitReturns, port, thread, history
<1> QED
    BY <1>1, <1>2, <1>3, <1>4, <1>5, <1>6, <1>7, <1>8, <1>9, <1>10, <1>11,
       <1>12, <1>13, <1>14, <1>15, <1>16, <1>17, <1>18, <1>19, <1>20, <1>21,
       <1>22
    DEF AnyStep, PutStep, GetStep

\* The field get is written by the consumer alone, together with its label.
LEMMA GetFieldStep ==
    ASSUME NEW c \in Components, NEW x \in Ports, AnyStep(c),
           TypeOK, CallOK(c), GetOK(x)
    PROVE  GetOK(x)'
<1> USE PortAssumption DEF TypeOK, GetLabels, AskLabels, CallOK, GetOK, Inside
<1>1. ASSUME NEW p \in Ports, NEW d \in Data, CallPut(c, p, d) PROVE GetOK(x)'
    BY <1>1 DEF CallPut, Goto, port, monitor, history
<1>2. ASSUME NEW p \in Ports, CallGet(c, p) PROVE GetOK(x)'
    BY <1>2 DEF CallGet, Goto, port, monitor, history
<1>3. CASE PutSpin(c)
    BY <1>3 DEF PutSpin, Goto, port, monitor, history
<1>4. CASE PutWrite(c)
    BY <1>4 DEF PutWrite, Goto, port, monitor, history
<1>5. CASE PutActivate(c)
    BY <1>5 DEF PutActivate, Goto, port, monitor, history, Activate
<1>6. CASE PutTest(c)
    <2>1. PutTestMoves(c) BY <1>6, PutTestJumps
    <2>2. CASE Goto(c, "put_test_get", "idle") BY <2>1, <2>2 DEF PutTestMoves, Goto
    <2>3. CASE Goto(c, "put_test_get", "put_test_put") BY <2>1, <2>3 DEF PutTestMoves, Goto
    <2>4. CASE Goto(c, "put_test_put", "idle") BY <2>1, <2>4 DEF PutTestMoves, Goto
    <2>5. CASE Goto(c, "put_test_put", "put_sync") BY <2>1, <2>5 DEF PutTestMoves, Goto
    <2> QED BY <2>1, <2>2, <2>3, <2>4, <2>5 DEF PutTestMoves
<1>7. CASE PutSync(c)
    BY <1>7 DEF PutSync, Goto, port, monitor, history, Lock
<1>8. CASE PutLoop(c)
    <2>1. PutLoopMoves(c) BY <1>8, PutLoopJumps
    <2>2. CASE Goto(c, "put_loop_get", "idle") BY <2>1, <2>2 DEF PutLoopMoves, Goto, Unlock
    <2>3. CASE Goto(c, "put_loop_get", "put_loop_put") BY <2>1, <2>3 DEF PutLoopMoves, Goto, Unlock
    <2>4. CASE Goto(c, "put_loop_put", "idle") BY <2>1, <2>4 DEF PutLoopMoves, Goto, Unlock
    <2>5. CASE Goto(c, "put_loop_put", "put_suspend") BY <2>1, <2>5 DEF PutLoopMoves, Goto, Unlock
    <2> QED BY <2>1, <2>2, <2>3, <2>4, <2>5 DEF PutLoopMoves
<1>9. CASE PutSuspend(c)
    BY <1>9 DEF PutSuspend, Goto, port, monitor, history, Unlock
<1>10. CASE PutWake(c)
    BY <1>10 DEF PutWake, Goto, port, monitor, history, Lock
<1>11. CASE GetSet(c)
    BY <1>11 DEF GetSet, Goto, port, monitor, history
<1>12. CASE GetActivate(c)
    BY <1>12 DEF GetActivate, Goto, port, monitor, history, Activate
<1>13. CASE GetTest(c)
    <2>1. GetTestMoves(c) BY <1>13, GetTestJumps
    <2>2. CASE Goto(c, "get_test", "get_sync") BY <2>1, <2>2 DEF GetTestMoves, Goto
    <2>3. CASE Goto(c, "get_test", "get_read") BY <2>1, <2>3 DEF GetTestMoves, Goto
    <2> QED BY <2>1, <2>2, <2>3 DEF GetTestMoves
<1>14. CASE GetSync(c)
    BY <1>14 DEF GetSync, Goto, port, monitor, history, Lock
<1>15. CASE GetLoop(c)
    <2>1. GetLoopMoves(c) BY <1>15, GetLoopJumps
    <2>2. CASE Goto(c, "get_loop", "get_suspend") BY <2>1, <2>2 DEF GetLoopMoves, Goto, Unlock
    <2>3. CASE Goto(c, "get_loop", "get_read") BY <2>1, <2>3 DEF GetLoopMoves, Goto, Unlock
    <2> QED BY <2>1, <2>2, <2>3 DEF GetLoopMoves
<1>16. CASE GetSuspend(c)
    BY <1>16 DEF GetSuspend, Goto, port, monitor, history, Unlock
<1>17. CASE GetWake(c)
    BY <1>17 DEF GetWake, Goto, port, monitor, history, Lock
<1>18. CASE GetRead(c)
    BY <1>18 DEF GetRead, Goto, port, monitor, history
<1>19. CASE GetClear(c)
    BY <1>19 DEF GetClear, Goto, port, monitor, history
<1>20. CASE GetReset(c)
    BY <1>20 DEF GetReset, Goto, port, monitor, history
<1>21. CASE GetNotify(c)
    BY <1>21 DEF GetNotify, Goto, port, monitor, history, Activate
<1>22. CASE WaitReturns(c)
    BY <1>22 DEF WaitReturns, port, thread, history
<1> QED
    BY <1>1, <1>2, <1>3, <1>4, <1>5, <1>6, <1>7, <1>8, <1>9, <1>10, <1>11,
       <1>12, <1>13, <1>14, <1>15, <1>16, <1>17, <1>18, <1>19, <1>20, <1>21,
       <1>22
    DEF AnyStep, PutStep, GetStep

\* What a thread knows of a slot stays true: the other end does not write it
\* in that state.
LEMMA SlotStep ==
    ASSUME NEW c \in Components, NEW x \in Components, AnyStep(c),
           TypeOK, CallOK(c), CallOK(x), SlotOK(c), SlotOK(x)
    PROVE  SlotOK(x)'
<1> USE PortAssumption DEF TypeOK, PutLabels, GetLabels, CallOK, SlotOK
<1>1. ASSUME NEW p \in Ports, NEW d \in Data, CallPut(c, p, d) PROVE SlotOK(x)'
    BY <1>1 DEF CallPut, Goto, port, monitor, history
<1>2. ASSUME NEW p \in Ports, CallGet(c, p) PROVE SlotOK(x)'
    BY <1>2 DEF CallGet, Goto, port, monitor, history
<1>3. CASE PutSpin(c)
    BY <1>3 DEF PutSpin, Goto, port, monitor, history
<1>4. CASE PutWrite(c)
    BY <1>4 DEF PutWrite, Goto, port, monitor, history
<1>5. CASE PutActivate(c)
    BY <1>5 DEF PutActivate, Goto, port, monitor, history, Activate
<1>6. CASE PutTest(c)
    <2>1. PutTestMoves(c) BY <1>6, PutTestJumps
    <2>2. CASE Goto(c, "put_test_get", "idle") BY <2>1, <2>2 DEF PutTestMoves, Goto
    <2>3. CASE Goto(c, "put_test_get", "put_test_put") BY <2>1, <2>3 DEF PutTestMoves, Goto
    <2>4. CASE Goto(c, "put_test_put", "idle") BY <2>1, <2>4 DEF PutTestMoves, Goto
    <2>5. CASE Goto(c, "put_test_put", "put_sync") BY <2>1, <2>5 DEF PutTestMoves, Goto
    <2> QED BY <2>1, <2>2, <2>3, <2>4, <2>5 DEF PutTestMoves
<1>7. CASE PutSync(c)
    BY <1>7 DEF PutSync, Goto, port, monitor, history, Lock
<1>8. CASE PutLoop(c)
    <2>1. PutLoopMoves(c) BY <1>8, PutLoopJumps
    <2>2. CASE Goto(c, "put_loop_get", "idle") BY <2>1, <2>2 DEF PutLoopMoves, Goto, Unlock
    <2>3. CASE Goto(c, "put_loop_get", "put_loop_put") BY <2>1, <2>3 DEF PutLoopMoves, Goto, Unlock
    <2>4. CASE Goto(c, "put_loop_put", "idle") BY <2>1, <2>4 DEF PutLoopMoves, Goto, Unlock
    <2>5. CASE Goto(c, "put_loop_put", "put_suspend") BY <2>1, <2>5 DEF PutLoopMoves, Goto, Unlock
    <2> QED BY <2>1, <2>2, <2>3, <2>4, <2>5 DEF PutLoopMoves
<1>9. CASE PutSuspend(c)
    BY <1>9 DEF PutSuspend, Goto, port, monitor, history, Unlock
<1>10. CASE PutWake(c)
    BY <1>10 DEF PutWake, Goto, port, monitor, history, Lock
<1>11. CASE GetSet(c)
    BY <1>11 DEF GetSet, Goto, port, monitor, history
<1>12. CASE GetActivate(c)
    BY <1>12 DEF GetActivate, Goto, port, monitor, history, Activate
<1>13. CASE GetTest(c)
    <2>1. GetTestMoves(c) BY <1>13, GetTestJumps
    <2> QED BY <2>1 DEF GetTestMoves, Goto
<1>14. CASE GetSync(c)
    BY <1>14 DEF GetSync, Goto, port, monitor, history, Lock
<1>15. CASE GetLoop(c)
    <2>1. GetLoopMoves(c) BY <1>15, GetLoopJumps
    <2> QED BY <2>1 DEF GetLoopMoves, Goto, Unlock
<1>16. CASE GetSuspend(c)
    BY <1>16 DEF GetSuspend, Goto, port, monitor, history, Unlock
<1>17. CASE GetWake(c)
    BY <1>17 DEF GetWake, Goto, port, monitor, history, Lock
<1>18. CASE GetRead(c)
    BY <1>18 DEF GetRead, Goto, port, monitor, history
<1>19. CASE GetClear(c)
    BY <1>19 DEF GetClear, Goto, port, monitor, history
<1>20. CASE GetReset(c)
    BY <1>20 DEF GetReset, Goto, port, monitor, history
<1>21. CASE GetNotify(c)
    BY <1>21 DEF GetNotify, Goto, port, monitor, history, Activate
<1>22. CASE WaitReturns(c)
    BY <1>22 DEF WaitReturns, port, thread, history
<1> QED
    BY <1>1, <1>2, <1>3, <1>4, <1>5, <1>6, <1>7, <1>8, <1>9, <1>10, <1>11,
       <1>12, <1>13, <1>14, <1>15, <1>16, <1>17, <1>18, <1>19, <1>20, <1>21,
       <1>22
    DEF AnyStep, PutStep, GetStep

\* The histories grow only where put is written, by the datum that is in it.
LEMMA LogStep ==
    ASSUME NEW c \in Components, NEW x \in Ports, AnyStep(c),
           TypeOK, CallOK(c), SlotOK(c), LogOK(x)
    PROVE  LogOK(x)'
<1> USE PortAssumption DEF TypeOK, PutLabels, GetLabels, CallOK, SlotOK, LogOK
<1>1. ASSUME NEW p \in Ports, NEW d \in Data, CallPut(c, p, d) PROVE LogOK(x)'
    BY <1>1 DEF CallPut, Goto, port, monitor, history
<1>2. ASSUME NEW p \in Ports, CallGet(c, p) PROVE LogOK(x)'
    BY <1>2 DEF CallGet, Goto, port, monitor, history
<1>3. CASE PutSpin(c)
    BY <1>3 DEF PutSpin, Goto, port, monitor, history
<1>4. CASE PutWrite(c)
    BY <1>4 DEF PutWrite, Goto, port, monitor, history
<1>5. CASE PutActivate(c)
    BY <1>5 DEF PutActivate, Goto, port, monitor, history, Activate
<1>6. CASE PutTest(c)
    <2>1. PutTestMoves(c) BY <1>6, PutTestJumps
    <2>2. CASE Goto(c, "put_test_get", "idle") BY <2>1, <2>2 DEF PutTestMoves, Goto
    <2>3. CASE Goto(c, "put_test_get", "put_test_put") BY <2>1, <2>3 DEF PutTestMoves, Goto
    <2>4. CASE Goto(c, "put_test_put", "idle") BY <2>1, <2>4 DEF PutTestMoves, Goto
    <2>5. CASE Goto(c, "put_test_put", "put_sync") BY <2>1, <2>5 DEF PutTestMoves, Goto
    <2> QED BY <2>1, <2>2, <2>3, <2>4, <2>5 DEF PutTestMoves
<1>7. CASE PutSync(c)
    BY <1>7 DEF PutSync, Goto, port, monitor, history, Lock
<1>8. CASE PutLoop(c)
    <2>1. PutLoopMoves(c) BY <1>8, PutLoopJumps
    <2>2. CASE Goto(c, "put_loop_get", "idle") BY <2>1, <2>2 DEF PutLoopMoves, Goto, Unlock
    <2>3. CASE Goto(c, "put_loop_get", "put_loop_put") BY <2>1, <2>3 DEF PutLoopMoves, Goto, Unlock
    <2>4. CASE Goto(c, "put_loop_put", "idle") BY <2>1, <2>4 DEF PutLoopMoves, Goto, Unlock
    <2>5. CASE Goto(c, "put_loop_put", "put_suspend") BY <2>1, <2>5 DEF PutLoopMoves, Goto, Unlock
    <2> QED BY <2>1, <2>2, <2>3, <2>4, <2>5 DEF PutLoopMoves
<1>9. CASE PutSuspend(c)
    BY <1>9 DEF PutSuspend, Goto, port, monitor, history, Unlock
<1>10. CASE PutWake(c)
    BY <1>10 DEF PutWake, Goto, port, monitor, history, Lock
<1>11. CASE GetSet(c)
    BY <1>11 DEF GetSet, Goto, port, monitor, history
<1>12. CASE GetActivate(c)
    BY <1>12 DEF GetActivate, Goto, port, monitor, history, Activate
<1>13. CASE GetTest(c)
    <2>1. GetTestMoves(c) BY <1>13, GetTestJumps
    <2> QED BY <2>1 DEF GetTestMoves, Goto
<1>14. CASE GetSync(c)
    BY <1>14 DEF GetSync, Goto, port, monitor, history, Lock
<1>15. CASE GetLoop(c)
    <2>1. GetLoopMoves(c) BY <1>15, GetLoopJumps
    <2> QED BY <2>1 DEF GetLoopMoves, Goto, Unlock
<1>16. CASE GetSuspend(c)
    BY <1>16 DEF GetSuspend, Goto, port, monitor, history, Unlock
<1>17. CASE GetWake(c)
    BY <1>17 DEF GetWake, Goto, port, monitor, history, Lock
<1>18. CASE GetRead(c)
    BY <1>18 DEF GetRead, Goto, port, monitor, history
<1>19. CASE GetClear(c)
    BY <1>19 DEF GetClear, Goto, port, monitor, history
<1>20. CASE GetReset(c)
    BY <1>20 DEF GetReset, Goto, port, monitor, history
<1>21. CASE GetNotify(c)
    BY <1>21 DEF GetNotify, Goto, port, monitor, history, Activate
<1>22. CASE WaitReturns(c)
    BY <1>22 DEF WaitReturns, port, thread, history
<1> QED
    BY <1>1, <1>2, <1>3, <1>4, <1>5, <1>6, <1>7, <1>8, <1>9, <1>10, <1>11,
       <1>12, <1>13, <1>14, <1>15, <1>16, <1>17, <1>18, <1>19, <1>20, <1>21,
       <1>22
    DEF AnyStep, PutStep, GetStep

\* Only the owner of a monitor holds it.
LEMMA LockStep ==
    ASSUME NEW c \in Components, NEW x \in Components, AnyStep(c),
           TypeOK, LockOK(x)
    PROVE  LockOK(x)'
<1> USE PortAssumption DEF TypeOK, LockLabels, LockOK
<1>1. ASSUME NEW p \in Ports, NEW d \in Data, CallPut(c, p, d) PROVE LockOK(x)'
    BY <1>1 DEF CallPut, Goto, port, monitor, history
<1>2. ASSUME NEW p \in Ports, CallGet(c, p) PROVE LockOK(x)'
    BY <1>2 DEF CallGet, Goto, port, monitor, history
<1>3. CASE PutSpin(c)
    BY <1>3 DEF PutSpin, Goto, port, monitor, history
<1>4. CASE PutWrite(c)
    BY <1>4 DEF PutWrite, Goto, port, monitor, history
<1>5. CASE PutActivate(c)
    BY <1>5 DEF PutActivate, Goto, port, monitor, history, Activate
<1>6. CASE PutTest(c)
    <2>1. PutTestMoves(c) BY <1>6, PutTestJumps
    <2>2. CASE Goto(c, "put_test_get", "idle") BY <2>1, <2>2 DEF PutTestMoves, Goto
    <2>3. CASE Goto(c, "put_test_get", "put_test_put") BY <2>1, <2>3 DEF PutTestMoves, Goto
    <2>4. CASE Goto(c, "put_test_put", "idle") BY <2>1, <2>4 DEF PutTestMoves, Goto
    <2>5. CASE Goto(c, "put_test_put", "put_sync") BY <2>1, <2>5 DEF PutTestMoves, Goto
    <2> QED BY <2>1, <2>2, <2>3, <2>4, <2>5 DEF PutTestMoves
<1>7. CASE PutSync(c)
    BY <1>7 DEF PutSync, Goto, port, monitor, history, Lock
<1>8. CASE PutLoop(c)
    <2>1. PutLoopMoves(c) BY <1>8, PutLoopJumps
    <2>2. CASE Goto(c, "put_loop_get", "idle") BY <2>1, <2>2 DEF PutLoopMoves, Goto, Unlock
    <2>3. CASE Goto(c, "put_loop_get", "put_loop_put") BY <2>1, <2>3 DEF PutLoopMoves, Goto, Unlock
    <2>4. CASE Goto(c, "put_loop_put", "idle") BY <2>1, <2>4 DEF PutLoopMoves, Goto, Unlock
    <2>5. CASE Goto(c, "put_loop_put", "put_suspend") BY <2>1, <2>5 DEF PutLoopMoves, Goto, Unlock
    <2> QED BY <2>1, <2>2, <2>3, <2>4, <2>5 DEF PutLoopMoves
<1>9. CASE PutSuspend(c)
    BY <1>9 DEF PutSuspend, Goto, port, monitor, history, Unlock
<1>10. CASE PutWake(c)
    BY <1>10 DEF PutWake, Goto, port, monitor, history, Lock
<1>11. CASE GetSet(c)
    BY <1>11 DEF GetSet, Goto, port, monitor, history
<1>12. CASE GetActivate(c)
    BY <1>12 DEF GetActivate, Goto, port, monitor, history, Activate
<1>13. CASE GetTest(c)
    <2>1. GetTestMoves(c) BY <1>13, GetTestJumps
    <2> QED BY <2>1 DEF GetTestMoves, Goto
<1>14. CASE GetSync(c)
    BY <1>14 DEF GetSync, Goto, port, monitor, history, Lock
<1>15. CASE GetLoop(c)
    <2>1. GetLoopMoves(c) BY <1>15, GetLoopJumps
    <2> QED BY <2>1 DEF GetLoopMoves, Goto, Unlock
<1>16. CASE GetSuspend(c)
    BY <1>16 DEF GetSuspend, Goto, port, monitor, history, Unlock
<1>17. CASE GetWake(c)
    BY <1>17 DEF GetWake, Goto, port, monitor, history, Lock
<1>18. CASE GetRead(c)
    BY <1>18 DEF GetRead, Goto, port, monitor, history
<1>19. CASE GetClear(c)
    BY <1>19 DEF GetClear, Goto, port, monitor, history
<1>20. CASE GetReset(c)
    BY <1>20 DEF GetReset, Goto, port, monitor, history
<1>21. CASE GetNotify(c)
    BY <1>21 DEF GetNotify, Goto, port, monitor, history, Activate
<1>22. CASE WaitReturns(c)
    BY <1>22 DEF WaitReturns, port, thread, history
<1> QED
    BY <1>1, <1>2, <1>3, <1>4, <1>5, <1>6, <1>7, <1>8, <1>9, <1>10, <1>11,
       <1>12, <1>13, <1>14, <1>15, <1>16, <1>17, <1>18, <1>19, <1>20, <1>21,
       <1>22
    DEF AnyStep, PutStep, GetStep

\* A producer that has seen no get and holds its monitor or sleeps: a consumer
\* that sets get is stopped at activate(), and activate() ends the sleep.
LEMMA ProducerStep ==
    ASSUME NEW c \in Components, NEW x \in Components, AnyStep(c),
           TypeOK, CallOK(c), CallOK(x), GetOK(at[x]), LockOK(x), ProducerOK(x)
    PROVE  ProducerOK(x)'
<1> USE PortAssumption DEF TypeOK, PutLabels, GetLabels, AskLabels, LockLabels, CallOK, GetOK, LockOK, ProducerOK, NoGetSeen, Asleep, Inside
<1>1. ASSUME NEW p \in Ports, NEW d \in Data, CallPut(c, p, d) PROVE ProducerOK(x)'
    BY <1>1 DEF CallPut, Goto, port, monitor, history
<1>2. ASSUME NEW p \in Ports, CallGet(c, p) PROVE ProducerOK(x)'
    BY <1>2 DEF CallGet, Goto, port, monitor, history
<1>3. CASE PutSpin(c)
    BY <1>3 DEF PutSpin, Goto, port, monitor, history
<1>4. CASE PutWrite(c)
    BY <1>4 DEF PutWrite, Goto, port, monitor, history
<1>5. CASE PutActivate(c)
    BY <1>5 DEF PutActivate, Goto, port, monitor, history, Activate
<1>6. CASE PutTest(c)
    <2>1. PutTestMoves(c) BY <1>6, PutTestJumps
    <2>2. CASE Goto(c, "put_test_get", "idle") BY <2>1, <2>2 DEF PutTestMoves, Goto
    <2>3. CASE Goto(c, "put_test_get", "put_test_put") BY <2>1, <2>3 DEF PutTestMoves, Goto
    <2>4. CASE Goto(c, "put_test_put", "idle") BY <2>1, <2>4 DEF PutTestMoves, Goto
    <2>5. CASE Goto(c, "put_test_put", "put_sync") BY <2>1, <2>5 DEF PutTestMoves, Goto
    <2> QED BY <2>1, <2>2, <2>3, <2>4, <2>5 DEF PutTestMoves
<1>7. CASE PutSync(c)
    BY <1>7 DEF PutSync, Goto, port, monitor, history, Lock
<1>8. CASE PutLoop(c)
    <2>1. PutLoopMoves(c) BY <1>8, PutLoopJumps
    <2>2. CASE Goto(c, "put_loop_get", "idle") BY <2>1, <2>2 DEF PutLoopMoves, Goto, Unlock
    <2>3. CASE Goto(c, "put_loop_get", "put_loop_put") BY <2>1, <2>3 DEF PutLoopMoves, Goto, Unlock
    <2>4. CASE Goto(c, "put_loop_put", "idle") BY <2>1, <2>4 DEF PutLoopMoves, Goto, Unlock
    <2>5. CASE Goto(c, "put_loop_put", "put_suspend") BY <2>1, <2>5 DEF PutLoopMoves, Goto, Unlock
    <2> QED BY <2>1, <2>2, <2>3, <2>4, <2>5 DEF PutLoopMoves
<1>9. CASE PutSuspend(c)
    BY <1>9 DEF PutSuspend, Goto, port, monitor, history, Unlock
<1>10. CASE PutWake(c)
    BY <1>10 DEF PutWake, Goto, port, monitor, history, Lock
<1>11. CASE GetSet(c)
    BY <1>11 DEF GetSet, Goto, port, monitor, history
<1>12. CASE GetActivate(c)
    BY <1>12 DEF GetActivate, Goto, port, monitor, history, Activate
<1>13. CASE GetTest(c)
    <2>1. GetTestMoves(c) BY <1>13, GetTestJumps
    <2> QED BY <2>1 DEF GetTestMoves, Goto
<1>14. CASE GetSync(c)
    BY <1>14 DEF GetSync, Goto, port, monitor, history, Lock
<1>15. CASE GetLoop(c)
    <2>1. GetLoopMoves(c) BY <1>15, GetLoopJumps
    <2> QED BY <2>1 DEF GetLoopMoves, Goto, Unlock
<1>16. CASE GetSuspend(c)
    BY <1>16 DEF GetSuspend, Goto, port, monitor, history, Unlock
<1>17. CASE GetWake(c)
    BY <1>17 DEF GetWake, Goto, port, monitor, history, Lock
<1>18. CASE GetRead(c)
    BY <1>18 DEF GetRead, Goto, port, monitor, history
<1>19. CASE GetClear(c)
    BY <1>19 DEF GetClear, Goto, port, monitor, history
<1>20. CASE GetReset(c)
    BY <1>20 DEF GetReset, Goto, port, monitor, history
<1>21. CASE GetNotify(c)
    BY <1>21 DEF GetNotify, Goto, port, monitor, history, Activate
<1>22. CASE WaitReturns(c)
    BY <1>22 DEF WaitReturns, port, thread, history
<1> QED
    BY <1>1, <1>2, <1>3, <1>4, <1>5, <1>6, <1>7, <1>8, <1>9, <1>10, <1>11,
       <1>12, <1>13, <1>14, <1>15, <1>16, <1>17, <1>18, <1>19, <1>20, <1>21,
       <1>22
    DEF AnyStep, PutStep, GetStep

\* The same for a consumer that has seen no put.
LEMMA ConsumerStep ==
    ASSUME NEW c \in Components, NEW x \in Components, AnyStep(c),
           TypeOK, CallOK(c), CallOK(x), LockOK(x), ConsumerOK(x)
    PROVE  ConsumerOK(x)'
<1> USE PortAssumption DEF TypeOK, PutLabels, GetLabels, LockLabels, CallOK, LockOK, ConsumerOK, ConsumerWillBeWoken, Asleep, Inside
<1>1. ASSUME NEW p \in Ports, NEW d \in Data, CallPut(c, p, d) PROVE ConsumerOK(x)'
    BY <1>1 DEF CallPut, Goto, port, monitor, history
<1>2. ASSUME NEW p \in Ports, CallGet(c, p) PROVE ConsumerOK(x)'
    BY <1>2 DEF CallGet, Goto, port, monitor, history
<1>3. CASE PutSpin(c)
    BY <1>3 DEF PutSpin, Goto, port, monitor, history
<1>4. CASE PutWrite(c)
    BY <1>4 DEF PutWrite, Goto, port, monitor, history
<1>5. CASE PutActivate(c)
    BY <1>5 DEF PutActivate, Goto, port, monitor, history, Activate
<1>6. CASE PutTest(c)
    <2>1. PutTestMoves(c) BY <1>6, PutTestJumps
    <2>2. CASE Goto(c, "put_test_get", "idle") BY <2>1, <2>2 DEF PutTestMoves, Goto
    <2>3. CASE Goto(c, "put_test_get", "put_test_put") BY <2>1, <2>3 DEF PutTestMoves, Goto
    <2>4. CASE Goto(c, "put_test_put", "idle") BY <2>1, <2>4 DEF PutTestMoves, Goto
    <2>5. CASE Goto(c, "put_test_put", "put_sync") BY <2>1, <2>5 DEF PutTestMoves, Goto
    <2> QED BY <2>1, <2>2, <2>3, <2>4, <2>5 DEF PutTestMoves
<1>7. CASE PutSync(c)
    BY <1>7 DEF PutSync, Goto, port, monitor, history, Lock
<1>8. CASE PutLoop(c)
    <2>1. PutLoopMoves(c) BY <1>8, PutLoopJumps
    <2>2. CASE Goto(c, "put_loop_get", "idle") BY <2>1, <2>2 DEF PutLoopMoves, Goto, Unlock
    <2>3. CASE Goto(c, "put_loop_get", "put_loop_put") BY <2>1, <2>3 DEF PutLoopMoves, Goto, Unlock
    <2>4. CASE Goto(c, "put_loop_put", "idle") BY <2>1, <2>4 DEF PutLoopMoves, Goto, Unlock
    <2>5. CASE Goto(c, "put_loop_put", "put_suspend") BY <2>1, <2>5 DEF PutLoopMoves, Goto, Unlock
    <2> QED BY <2>1, <2>2, <2>3, <2>4, <2>5 DEF PutLoopMoves
<1>9. CASE PutSuspend(c)
    BY <1>9 DEF PutSuspend, Goto, port, monitor, history, Unlock
<1>10. CASE PutWake(c)
    BY <1>10 DEF PutWake, Goto, port, monitor, history, Lock
<1>11. CASE GetSet(c)
    BY <1>11 DEF GetSet, Goto, port, monitor, history
<1>12. CASE GetActivate(c)
    BY <1>12 DEF GetActivate, Goto, port, monitor, history, Activate
<1>13. CASE GetTest(c)
    <2>1. GetTestMoves(c) BY <1>13, GetTestJumps
    <2> QED BY <2>1 DEF GetTestMoves, Goto
<1>14. CASE GetSync(c)
    BY <1>14 DEF GetSync, Goto, port, monitor, history, Lock
<1>15. CASE GetLoop(c)
    <2>1. GetLoopMoves(c) BY <1>15, GetLoopJumps
    <2> QED BY <2>1 DEF GetLoopMoves, Goto, Unlock
<1>16. CASE GetSuspend(c)
    BY <1>16 DEF GetSuspend, Goto, port, monitor, history, Unlock
<1>17. CASE GetWake(c)
    BY <1>17 DEF GetWake, Goto, port, monitor, history, Lock
<1>18. CASE GetRead(c)
    BY <1>18 DEF GetRead, Goto, port, monitor, history
<1>19. CASE GetClear(c)
    BY <1>19 DEF GetClear, Goto, port, monitor, history
<1>20. CASE GetReset(c)
    BY <1>20 DEF GetReset, Goto, port, monitor, history
<1>21. CASE GetNotify(c)
    BY <1>21 DEF GetNotify, Goto, port, monitor, history, Activate
<1>22. CASE WaitReturns(c)
    BY <1>22 DEF WaitReturns, port, thread, history
<1> QED
    BY <1>1, <1>2, <1>3, <1>4, <1>5, <1>6, <1>7, <1>8, <1>9, <1>10, <1>11,
       <1>12, <1>13, <1>14, <1>15, <1>16, <1>17, <1>18, <1>19, <1>20, <1>21,
       <1>22
    DEF AnyStep, PutStep, GetStep

\* The program starts in the invariant.
LEMMA InitInv == PortInit => PortInv
<1> SUFFICES ASSUME PortInit PROVE PortInv
    OBVIOUS
<1> USE PortAssumption DEF PortInit, Labels, PutLabels, GetLabels, AskLabels, LockLabels
<1>1. (CHOOSE p \in Ports : TRUE) \in Ports
    OBVIOUS
<1>2. TypeOK
    <2>1. at \in [Components -> Ports]
        BY <1>1
    <2>2. /\ put \in [Ports -> Data \cup {Null}] /\ get \in [Ports -> BOOLEAN]
          /\ pc \in [Components -> Labels] /\ reg \in [Components -> Data \cup {Null}]
          /\ locked \in [Components -> BOOLEAN] /\ waiting \subseteq Components
        OBVIOUS
    <2>3. sent \in [Ports -> Seq(Data)] /\ received \in [Ports -> Seq(Data)]
        OBVIOUS
    <2> QED
        BY <2>1, <2>2, <2>3 DEF TypeOK
<1>3. CallsOK
    BY DEF CallsOK, CallOK, GetOK, Inside
<1>4. SlotsOK /\ NothingLost
    BY DEF SlotsOK, SlotOK, NothingLost, LogOK
<1>5. MonitorsOK
    BY DEF MonitorsOK, LockOK, ProducerOK, ConsumerOK, Asleep
<1> QED
    BY <1>2, <1>3, <1>4, <1>5 DEF PortInv

\* A step of the program, or one that changes nothing, preserves the invariant.
LEMMA StepInv == PortInv /\ [PortNext]_portVars => PortInv'
<1>1. ASSUME PortInv, NEW c \in Components, ThreadStep(c) PROVE PortInv'
    <2> USE <1>1 DEF PortInv, CallsOK, SlotsOK, MonitorsOK, NothingLost
    <2>0. AnyStep(c)
        BY StepsAreSteps
    <2>1. TypeOK'
        BY <2>0, TypeStep
    <2>2. \A x \in Components : CallOK(x)'
        BY <2>0, CallStep
    <2>3. \A x \in Ports : GetOK(x)'
        BY <2>0, GetFieldStep
    <2>4. \A x \in Components : SlotOK(x)'
        BY <2>0, SlotStep
    <2>5. \A x \in Ports : LogOK(x)'
        BY <2>0, LogStep
    <2>6. \A x \in Components : LockOK(x)'
        BY <2>0, LockStep
    <2>7. \A x \in Components : at[x] \in Ports
        BY DEF TypeOK
    <2>8. \A x \in Components : ProducerOK(x)'
        BY <2>0, <2>7, ProducerStep
    <2>9. \A x \in Components : ConsumerOK(x)'
        BY <2>0, ConsumerStep
    <2> QED
        BY <2>1, <2>2, <2>3, <2>4, <2>5, <2>6, <2>8, <2>9
<1>2. ASSUME PortInv, UNCHANGED portVars PROVE PortInv'
    BY <1>2 DEF portVars, PortInv, TypeOK, CallsOK, CallOK, GetOK, SlotsOK, SlotOK,
        NothingLost, LogOK, MonitorsOK, LockOK, ProducerOK, ConsumerOK,
        ConsumerWillBeWoken, NoGetSeen, Asleep, Inside
<1> QED
    BY <1>1, <1>2 DEF PortNext

\* PortInv holds in every state of every program.
THEOREM Invariance == PortSpec => []PortInv
BY InitInv, StepInv, PTL DEF PortSpec

\* Every variable of the ports and threads keeps its type.
THEOREM TypeCorrect == PortSpec => []TypeOK
<1>1. PortInv => TypeOK
    BY DEF PortInv
<1> QED
    BY <1>1, Invariance, PTL

\* Ports hand over every datum exactly once and in order, with no lock around
\* their fields.
THEOREM DataSafe == PortSpec => []NothingLost
<1>1. PortInv => NothingLost
    BY DEF PortInv
<1> QED
    BY <1>1, Invariance, PTL

\* No thread sleeps on a condition that has become false unless the notify that
\* wakes it is still to come.
THEOREM WakeupSafe == PortSpec => []NoLostWakeup
<1>1. PortInv => NoLostWakeup
    <2> SUFFICES ASSUME PortInv, NEW c \in waiting
                 PROVE  /\ pc[c] = "put_wait" => ProducerWillBeWoken(at[c])
                        /\ pc[c] = "get_wait" => ConsumerWillBeWoken(at[c])
        BY DEF NoLostWakeup
    <2>1. c \in Components /\ ProducerOK(c) /\ ConsumerOK(c)
        BY DEF PortInv, TypeOK, MonitorsOK
    <2> QED
        BY <2>1 DEF ProducerOK, ConsumerOK, Asleep, NoGetSeen, ProducerWillBeWoken, Inside
<1> QED
    BY <1>1, Invariance, PTL

-----------------------------------------------------------------------------
(* The port implements Handoff: every step of a thread is, in the view of  *)
(* the port it is on, a step of the abstract handoff or no step at all.    *)
(* Only six of the actions show; the invariant says that they show what    *)
(* they should: a write finds the slot free, the datum that is returned is *)
(* the one removed, and a put ends only where it may.                      *)

OfferView == [p \in Ports |-> PutOf(p)]
AskView == [p \in Ports |-> GetOf(p)]

\* What the label of a producer's thread says of its put.
PutPhase(label) == IF label \in {"put_spin", "put_write"} THEN "waiting"
                   ELSE IF label \in PutLabels THEN "placed" ELSE "none"

\* The thread of c jumps, and nothing of its call changes.
Jump(c, from, to) == Goto(c, from, to) /\ at' = at

LEMMA PhaseOfPut ==
    \A p \in Ports : PutOf(p) = IF at[Prod[p]] = p THEN PutPhase(pc[Prod[p]]) ELSE "none"
BY DEF PutOf, PutPhase, Inside

\* A jump in a put changes the view of its own port only, to the new phase.
LEMMA OfferMoves ==
    ASSUME NEW c \in Components, NEW from \in PutLabels, NEW to,
           PortInv, Jump(c, from, to)
    PROVE  /\ at[c] \in Ports /\ OfferView[at[c]] = PutPhase(from)
           /\ OfferView' = [OfferView EXCEPT ![at[c]] = PutPhase(to)]
<1> USE PortAssumption DEF PortInv, TypeOK, CallsOK, CallOK, Jump, Goto
<1>1. at[c] \in Ports /\ Prod[at[c]] = c /\ pc[c] = from
    OBVIOUS
<1>2. OfferView[at[c]] = PutPhase(from)
    BY <1>1, PhaseOfPut DEF OfferView
<1>3. \A p \in Ports : PutOf(p)' = IF at'[Prod[p]] = p THEN PutPhase(pc'[Prod[p]]) ELSE "none"
    BY DEF PutOf, PutPhase, Inside
<1>4. \A p \in Ports : PutOf(p)' = IF p = at[c] THEN PutPhase(to) ELSE PutOf(p)
    BY <1>1, <1>3, PhaseOfPut
<1> QED
    BY <1>1, <1>2, <1>4 DEF OfferView

\* A jump within one phase changes the view of no port.
LEMMA OfferStays ==
    ASSUME NEW c \in Components, NEW from, NEW to,
           TypeOK, Jump(c, from, to), PutPhase(from) = PutPhase(to)
    PROVE  OfferView' = OfferView
<1> USE PortAssumption DEF TypeOK, Jump, Goto
<1>1. \A p \in Ports : PutOf(p)' = IF at'[Prod[p]] = p THEN PutPhase(pc'[Prod[p]]) ELSE "none"
    BY DEF PutOf, PutPhase, Inside
<1>2. \A q \in Components : pc'[q] = pc[q] \/ (pc[q] = from /\ pc'[q] = to)
    OBVIOUS
<1>3. \A p \in Ports : Prod[p] \in Components
    OBVIOUS
<1>4. \A q \in Components : PutPhase(pc'[q]) = PutPhase(pc[q])
    <2>1. PutPhase(from) = PutPhase(to)
        OBVIOUS
    <2> SUFFICES ASSUME NEW q \in Components PROVE PutPhase(pc'[q]) = PutPhase(pc[q])
        OBVIOUS
    <2> HIDE DEF TypeOK, Jump, Goto
    <2> QED
        BY <1>2, <2>1
<1>5. ASSUME NEW p \in Ports PROVE PutOf(p)' = PutOf(p)
    <2>1. PutPhase(pc'[Prod[p]]) = PutPhase(pc[Prod[p]]) /\ at' = at
        BY <1>3, <1>4
    <2> HIDE DEF TypeOK, Goto
    <2> QED
        BY <2>1, <1>1, PhaseOfPut
<1> QED
    BY <1>5 DEF OfferView

\* A jump that neither sets nor resets get, and neither enters nor leaves the
\* label at which put has been cleared, changes the view of no get.
LEMMA GetStays ==
    ASSUME NEW c \in Components, NEW from, NEW to,
           TypeOK, Jump(c, from, to), get' = get,
           from # "get_reset", to # "get_reset"
    PROVE  AskView' = AskView
<1> USE PortAssumption DEF TypeOK, Jump, Goto
<1>1. \A p \in Ports : GetOf(p)' = GetOf(p)
    BY DEF GetOf, Inside
<1> QED
    BY <1>1 DEF AskView

\* Labels of a put that has been written, and of a get that shows no change.
HasPlaced == PutLabels \ {"put_spin", "put_write"}
Quiet == (GetLabels \ {"get_reset"}) \cup {"idle"}

LEMMA Phases == /\ \A label \in HasPlaced : PutPhase(label) = "placed"
                /\ \A label \in GetLabels \cup {"idle"} : PutPhase(label) = "none"
                /\ PutPhase("put_spin") = "waiting" /\ PutPhase("put_write") = "waiting"
BY DEF HasPlaced, PutPhase, PutLabels, GetLabels

\* A step that no port shows: within the labels of one phase.
LEMMA Unseen ==
    ASSUME NEW c \in Components, NEW from, NEW to,
           PortInv, Jump(c, from, to),
           \/ from \in HasPlaced /\ to \in HasPlaced
           \/ from \in Quiet /\ to \in Quiet
           \/ from = "put_spin" /\ to = "put_write",
           UNCHANGED <<put, get, sent, received>>
    PROVE  UNCHANGED H!vars
<1>1. TypeOK
    BY DEF PortInv
<1>2. PutPhase(from) = PutPhase(to)
    BY Phases DEF Quiet
<1>3. from # "get_reset" /\ to # "get_reset"
    BY DEF HasPlaced, Quiet, PutLabels, GetLabels
<1>4. OfferView' = OfferView /\ AskView' = AskView
    BY <1>1, <1>2, <1>3, OfferStays, GetStays
<1> QED
    BY <1>4 DEF H!vars, OfferView, AskView

\* A put returns when its datum is gone or a get is in progress.
LEMMA PutReturns ==
    ASSUME NEW c \in Components,
           NEW from \in {"put_test_get", "put_test_put", "put_loop_get", "put_loop_put"},
           PortInv, Jump(c, from, "idle"), get[at[c]] \/ put[at[c]] = Null,
           UNCHANGED <<put, get, sent, received>>
    PROVE  H!Next
<1>1. TypeOK /\ from \in PutLabels /\ PutPhase(from) = "placed" /\ PutPhase("idle") = "none"
    BY DEF PortInv, PutLabels, PutPhase
<1>2. /\ at[c] \in Ports /\ OfferView[at[c]] = "placed"
      /\ OfferView' = [OfferView EXCEPT ![at[c]] = "none"]
    BY <1>1, OfferMoves
<1>3. AskView' = AskView
    BY <1>1, GetStays
<1>4. get[at[c]] => AskView[at[c]] # "none"
    BY <1>2 DEF AskView, GetOf
<1>5. H!EndPut(at[c])
    BY <1>2, <1>3, <1>4 DEF H!EndPut, OfferView, AskView
<1> QED
    BY <1>2, <1>5 DEF H!Next

LEMMA StepImplements ==
    ASSUME NEW c \in Components, AnyStep(c), PortInv, PortInv'
    PROVE  H!Next \/ UNCHANGED H!vars
<1> USE PortAssumption DEF Jump, port, history
<1>0. TypeOK /\ TypeOK' /\ CallOK(c) /\ CallOK(c)' /\ SlotOK(c)
    BY DEF PortInv, CallsOK, SlotsOK
<1>1. ASSUME NEW p \in Ports, NEW d \in Data, CallPut(c, p, d) PROVE H!BeginPut(p)
    <2>1. \A x \in Ports : PutOf(x)' = IF x = p THEN "waiting" ELSE PutOf(x)
        BY <1>0, <1>1 DEF CallPut, Goto, TypeOK, PutOf, Inside, PutLabels
    <2>2. PutOf(p) = "none"
        BY <1>1 DEF CallPut, Goto, PutOf, Inside, PutLabels
    <2>3. \A x \in Ports : GetOf(x)' = GetOf(x)
        BY <1>0, <1>1 DEF CallPut, Goto, TypeOK, GetOf, Inside
    <2> QED
        BY <2>1, <2>2, <2>3, <1>1 DEF H!BeginPut, CallPut
<1>2. ASSUME NEW p \in Ports, CallGet(c, p) PROVE UNCHANGED H!vars
    <2>1. \A x \in Ports : PutOf(x)' = PutOf(x)
        BY <1>0, <1>2 DEF CallGet, Goto, TypeOK, PutOf, Inside, PutLabels
    <2>2. \A x \in Ports : GetOf(x)' = GetOf(x)
        BY <1>0, <1>2 DEF CallGet, Goto, TypeOK, GetOf, Inside
    <2> QED
        BY <2>1, <2>2, <1>2 DEF H!vars, CallGet
<1>3. CASE PutSpin(c)
    BY <1>3, Unseen DEF PutSpin, HasPlaced, PutLabels
<1>4. CASE PutWrite(c)
    <2>1. /\ at[c] \in Ports /\ OfferView[at[c]] = "waiting"
          /\ OfferView' = [OfferView EXCEPT ![at[c]] = "placed"]
        <3>1. "put_write" \in PutLabels /\ PutPhase("put_write") = "waiting" /\ PutPhase("put_activate") = "placed"
            BY Phases DEF HasPlaced, PutLabels
        <3>2. Jump(c, "put_write", "put_activate")
            BY <1>4 DEF PutWrite
        <3> QED
            BY <3>1, <3>2, OfferMoves
    <2>2. AskView' = AskView
        BY <1>0, <1>4, GetStays DEF PutWrite, Goto
    <2>3. reg[c] \in Data /\ put[at[c]] = Null
        BY <1>0, <1>4 DEF PutWrite, Goto, TypeOK, SlotOK
    <2>4. H!Place(at[c])
        BY <2>1, <2>2, <2>3, <1>4 DEF H!Place, PutWrite, OfferView, AskView
    <2> QED
        BY <2>1, <2>4 DEF H!Next
<1>5. CASE PutActivate(c)
    BY <1>5, Unseen DEF PutActivate, HasPlaced, PutLabels
<1>6. CASE PutTest(c)
    <2>1. PutTestMoves(c) BY <1>6, PutTestJumps
    <2>0. UNCHANGED <<at, put, get, sent, received>> BY <2>1 DEF PutTestMoves
    <2>2. CASE Goto(c, "put_test_get", "idle")
        <3>1. get[at[c]] \/ put[at[c]] = Null BY <1>0, <2>1, <2>2 DEF PutTestMoves, Goto, TypeOK, Labels
        <3> QED BY <2>0, <2>2, <3>1, PutReturns
    <2>3. CASE Goto(c, "put_test_get", "put_test_put") BY <2>0, <2>3, Unseen DEF HasPlaced, PutLabels
    <2>4. CASE Goto(c, "put_test_put", "idle")
        <3>1. get[at[c]] \/ put[at[c]] = Null BY <1>0, <2>1, <2>4 DEF PutTestMoves, Goto, TypeOK, Labels
        <3> QED BY <2>0, <2>4, <3>1, PutReturns
    <2>5. CASE Goto(c, "put_test_put", "put_sync") BY <2>0, <2>5, Unseen DEF HasPlaced, PutLabels
    <2> QED BY <2>1, <2>2, <2>3, <2>4, <2>5 DEF PutTestMoves
<1>7. CASE PutSync(c)
    BY <1>7, Unseen DEF PutSync, HasPlaced, PutLabels
<1>8. CASE PutLoop(c)
    <2>1. PutLoopMoves(c) BY <1>0, <1>8, PutLoopJumps
    <2>0. UNCHANGED <<at, put, get, sent, received>> BY <2>1 DEF PutLoopMoves
    <2>2. CASE Goto(c, "put_loop_get", "idle")
        <3>1. get[at[c]] \/ put[at[c]] = Null BY <1>0, <2>1, <2>2 DEF PutLoopMoves, Goto, TypeOK, Labels
        <3> QED BY <2>0, <2>2, <3>1, PutReturns
    <2>3. CASE Goto(c, "put_loop_get", "put_loop_put") BY <2>0, <2>3, Unseen DEF HasPlaced, PutLabels
    <2>4. CASE Goto(c, "put_loop_put", "idle")
        <3>1. get[at[c]] \/ put[at[c]] = Null BY <1>0, <2>1, <2>4 DEF PutLoopMoves, Goto, TypeOK, Labels
        <3> QED BY <2>0, <2>4, <3>1, PutReturns
    <2>5. CASE Goto(c, "put_loop_put", "put_suspend") BY <2>0, <2>5, Unseen DEF HasPlaced, PutLabels
    <2> QED BY <2>1, <2>2, <2>3, <2>4, <2>5 DEF PutLoopMoves
<1>9. CASE PutSuspend(c)
    BY <1>9, Unseen DEF PutSuspend, HasPlaced, PutLabels
<1>10. CASE PutWake(c)
    BY <1>10, Unseen DEF PutWake, HasPlaced, PutLabels
<1>11. CASE GetSet(c)
    <2>1. at[c] \in Ports /\ Cons[at[c]] = c /\ get' = [get EXCEPT ![at[c]] = TRUE]
        BY <1>0, <1>11 DEF GetSet, Goto, TypeOK, CallOK, GetLabels
    <2>2. ~get[at[c]]
        BY <2>1, <1>11 DEF GetSet, Goto, PortInv, CallsOK, GetOK, Inside, AskLabels
    <2>3. \A x \in Ports : GetOf(x)' = IF x = at[c] THEN "asking" ELSE GetOf(x)
        BY <1>0, <2>1, <1>11 DEF GetSet, Goto, TypeOK, GetOf, Inside
    <2>4. OfferView' = OfferView
        BY <1>0, <1>11, Phases, OfferStays DEF GetSet, GetLabels
    <2>5. H!BeginGet(at[c])
        BY <2>1, <2>2, <2>3, <2>4, <1>11 DEF H!BeginGet, OfferView, GetSet, Goto, GetOf
    <2> QED
        BY <2>1, <2>5 DEF H!Next
<1>12. CASE GetActivate(c)
    BY <1>12, Unseen DEF GetActivate, Quiet, GetLabels
<1>13. CASE GetTest(c)
    <2>1. GetTestMoves(c) BY <1>13, GetTestJumps
    <2>2. CASE Goto(c, "get_test", "get_sync") BY <2>1, <2>2, Unseen DEF GetTestMoves, Quiet, GetLabels
    <2>3. CASE Goto(c, "get_test", "get_read") BY <2>1, <2>3, Unseen DEF GetTestMoves, Quiet, GetLabels
    <2> QED BY <2>1, <2>2, <2>3 DEF GetTestMoves
<1>14. CASE GetSync(c)
    BY <1>14, Unseen DEF GetSync, Quiet, GetLabels
<1>15. CASE GetLoop(c)
    <2>1. GetLoopMoves(c) BY <1>0, <1>15, GetLoopJumps
    <2>2. CASE Goto(c, "get_loop", "get_suspend") BY <2>1, <2>2, Unseen DEF GetLoopMoves, Quiet, GetLabels
    <2>3. CASE Goto(c, "get_loop", "get_read") BY <2>1, <2>3, Unseen DEF GetLoopMoves, Quiet, GetLabels
    <2> QED BY <2>1, <2>2, <2>3 DEF GetLoopMoves
<1>16. CASE GetSuspend(c)
    BY <1>16, Unseen DEF GetSuspend, Quiet, GetLabels
<1>17. CASE GetWake(c)
    BY <1>17, Unseen DEF GetWake, Quiet, GetLabels
<1>18. CASE GetRead(c)
    BY <1>18, Unseen DEF GetRead, Quiet, GetLabels
<1>19. CASE GetClear(c)
    <2>1. /\ at[c] \in Ports /\ Cons[at[c]] = c /\ put[at[c]] # Null /\ reg[c] = put[at[c]]
          /\ get[at[c]]
        BY <1>0, <1>19 DEF GetClear, Goto, TypeOK, CallOK, GetLabels, SlotOK, PortInv, CallsOK,
            GetOK, Inside, AskLabels
    <2>2. \A x \in Ports : GetOf(x)' = IF x = at[c] THEN "taken" ELSE GetOf(x)
        BY <1>0, <2>1, <1>19 DEF GetClear, Goto, TypeOK, GetOf, Inside
    <2>3. GetOf(at[c]) = "asking"
        BY <2>1, <1>19 DEF GetClear, Goto, GetOf, Inside
    <2>4. OfferView' = OfferView
        BY <1>0, <1>19, Phases, OfferStays DEF GetClear, GetLabels
    <2>5. H!Take(at[c])
        BY <2>1, <2>2, <2>3, <2>4, <1>19 DEF H!Take, OfferView, GetClear
    <2> QED
        BY <2>1, <2>5 DEF H!Next
<1>20. CASE GetReset(c)
    <2>1. /\ at[c] \in Ports /\ Cons[at[c]] = c /\ get[at[c]]
          /\ get' = [get EXCEPT ![at[c]] = FALSE]
        BY <1>0, <1>20 DEF GetReset, Goto, TypeOK, CallOK, GetLabels, PortInv, CallsOK,
            GetOK, Inside, AskLabels
    <2>2. \A x \in Ports : GetOf(x)' = IF x = at[c] THEN "none" ELSE GetOf(x)
        BY <1>0, <2>1, <1>20 DEF GetReset, Goto, TypeOK, GetOf, Inside
    <2>3. GetOf(at[c]) = "taken"
        BY <2>1, <1>20 DEF GetReset, Goto, GetOf, Inside
    <2>4. OfferView' = OfferView
        BY <1>0, <1>20, Phases, OfferStays DEF GetReset, GetLabels
    <2>5. H!EndGet(at[c])
        BY <2>1, <2>2, <2>3, <2>4, <1>20 DEF H!EndGet, OfferView, GetReset
    <2> QED
        BY <2>1, <2>5 DEF H!Next
<1>21. CASE GetNotify(c)
    BY <1>21, Unseen DEF GetNotify, Quiet, GetLabels
<1>22. CASE WaitReturns(c)
    BY <1>22 DEF WaitReturns, thread, H!vars, PutOf, GetOf, Inside
<1>23. ASSUME NEW p \in Ports, NEW d \in Data, CallPut(c, p, d) PROVE H!Next
    BY <1>23, <1>1 DEF H!Next
<1> QED
    BY <1>3, <1>4, <1>5, <1>6, <1>7, <1>8, <1>9, <1>10, <1>11,
       <1>12, <1>13, <1>14, <1>15, <1>16, <1>17, <1>18, <1>19, <1>20, <1>21,
       <1>22, <1>2, <1>23
    DEF AnyStep, PutStep, GetStep

\* The ports, with their threads, monitors and wakeups, implement the handoff:
\* calls begin and end, and data are placed and taken, as it allows.
THEOREM Implements == PortSpec => HandoffSafe
<1>1. PortInit => H!Init
    BY PortAssumption DEF PortInit, H!Init, PutOf, GetOf, Inside, PutLabels
<1>2. PortInv /\ PortInv' /\ [PortNext]_portVars => [H!Next]_(H!vars)
    <2>1. ASSUME PortInv, PortInv', NEW c \in Components, ThreadStep(c)
          PROVE  [H!Next]_(H!vars)
        BY <2>1, StepsAreSteps, StepImplements
    <2>2. ASSUME UNCHANGED portVars PROVE UNCHANGED H!vars
        BY <2>2 DEF portVars, H!vars, PutOf, GetOf, Inside
    <2> QED
        BY <2>1, <2>2 DEF PortNext
<1> QED
    BY <1>1, <1>2, Invariance, PTL DEF PortSpec, HandoffSafe, H!Spec
=============================================================================
