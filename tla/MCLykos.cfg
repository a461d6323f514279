SPECIFICATION FairSpec
CONSTANTS
    A1 = A1  A2 = A2  B = B  M1 = M1  M2 = M2  F = F  None = None
    OutPorts = {A1, A2}  InPorts = {B}  Masters = {M1, M2}  Slaves = {F}
    Circuits <- AllCircuits  Timed = {A2, B}  Data <- OwnData
    MaxPermits = 1  MaxInterrupts <- OneInterrupt
INVARIANTS LykosTypeOK SlotsSuffice SlaveStable ServedWakes
PROPERTIES Exchanges ReadyFires
