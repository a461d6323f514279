SPECIFICATION PortFairSpec
CONSTANTS
    A = A  B = B  x = x  y = y  d1 = d1  d2 = d2  Null = Null
    Ports <- RingPorts  Components = {A, B}  Prod <- RingProd  Cons <- RingCons
    Data = {d1, d2}  DataOf <- MixedData  MaxPuts = 2
INVARIANTS TypeOK NothingLost NoLostWakeup
PROPERTIES HandoffSafe HandoffLive
CHECK_DEADLOCK FALSE
