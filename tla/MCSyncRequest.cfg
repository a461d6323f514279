SPECIFICATION Spec
CONSTANTS
    A = A  B = B  C1 = C1  P = P  a = a  b = b  c = c
    m1 = m1  m2 = m2  d1 = d1  d2 = d2  Null = Null
    Protocol = P  Ports = {a, b}  Components = {A, B, P}
    Prod <- SyncProd  Cons <- SyncCons  Rules <- SyncRules
    Cells = {}  InitMem <- NoMem  Data = {d1, d2}  DataOf <- AnyData  MaxPuts = 2
PROPERTIES FiresOnRequest
CHECK_DEADLOCK FALSE
