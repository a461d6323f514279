SPECIFICATION FairSpec
CONSTANTS
    A1 = A1  A2 = A2  p1 = p1  p2 = p2  g1 = g1  f1 = f1
    s0 = s0  s1 = s1  d1 = d1  d2 = d2  Null = Null
    Automata = {A1, A2}  Active = {A2}  UserPorts = {p1, g1}  Fifos = {f1}
    Capacity <- One  PortList <- FifoPorts  States = {s0}  InitState <- AllStart
    Transitions <- FifoTrans  Data = {d1}  SemMax = 1
    PutPorts = {p1}  Puts <- AnyDatum  TimedPorts = {}  Cancelled = {}  Stopped = {A2}
    MaxCalls <- OneCall
INVARIANTS NoLostKick
PROPERTIES Fires ResolvedReturns StopReturns
CHECK_DEADLOCK FALSE
