SPECIFICATION FairSpec
CONSTANTS
    A1 = A1  A2 = A2  B = B  M1 = M1  M2 = M2  F = F  None = None
    OutPorts = {A1, A2}  InPorts = {B}  Masters = {M1, M2}  Slaves = {F}
    Circuits <- OnlyMerger  Timed = {}  Data <- OwnData
    MaxPermits = 1  MaxInterrupts <- NoInterrupt
INVARIANTS NoLostRequest

