SPECIFICATION Spec
CONSTANTS
    A1 = A1  A2 = A2  p1 = p1  p2 = p2  g1 = g1  f1 = f1
    s0 = s0  s1 = s1  d1 = d1  d2 = d2  Null = Null
    Automata = {A1, A2}  Active = {A2}  UserPorts = {p1, p2, g1}  Fifos = {f1}
    Capacity <- Two  PortList <- TurnPorts  States = {s0, s1}  InitState <- TurnOfP2
    Transitions <- TurnTrans  Data = {d1, d2}  SemMax = 1
    PutPorts = {p1, p2}  Puts <- OwnDatum  TimedPorts = {g1}  Cancelled = {p2}  Stopped = {}
    MaxCalls <- ThreePuts
INVARIANTS CTypeOK BuffersSafe FifoOrder ContextTrue NoLostKick
PROPERTIES OutcomeTrue RunsCircuit
CHECK_DEADLOCK FALSE
