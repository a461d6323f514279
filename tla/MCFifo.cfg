SPECIFICATION EagerSpec
CONSTANTS
    A = A  B = B  C1 = C1  P = P  a = a  b = b  c = c
    m1 = m1  m2 = m2  d1 = d1  d2 = d2  Null = Null
    Protocol = P  Ports = {a, b}  Components = {A, B, P}
    Prod <- SyncProd  Cons <- SyncCons  Rules <- FifoRules
    Cells = {m1}  InitMem <- FifoMem  Data = {d1}  DataOf <- AnyData  MaxPuts = 3
INVARIANTS RunTypeOK NoSleepingRule
PROPERTIES FiresEventually
CHECK_DEADLOCK FALSE
