SPECIFICATION Spec
CONSTANTS
    A = A  B = B  C1 = C1  P = P  a = a  b = b  c = c
    m1 = m1  m2 = m2  d1 = d1  d2 = d2  Null = Null
    Protocol = P  Ports = {a, b, c}  Components = {A, B, C1, P}
    Prod <- AltProd  Cons <- AltCons  Rules <- AltRules
    Cells = {m1}  InitMem <- FifoMem  Data = {d1, d2}  DataOf <- OwnDatum  MaxPuts = 1
INVARIANTS FiresReady
PROPERTIES FiresAtomically
CHECK_DEADLOCK FALSE
