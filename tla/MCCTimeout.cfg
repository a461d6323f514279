SPECIFICATION FairSpec
CONSTANTS
    A1 = A1  A2 = A2  p1 = p1  p2 = p2  g1 = g1  f1 = f1
    s0 = s0  s1 = s1  d1 = d1  d2 = d2  Null = Null
    Automata = {A1}  Active = {}  UserPorts = {p1, g1}  Fifos = {}
    Capacity <- One  PortList <- SyncPorts  States = {s0}  InitState <- AllStart
    Transitions <- SyncTrans  Data = {d1}  SemMax = 1
    PutPorts = {p1}  Puts <- AnyDatum  TimedPorts = {p1, g1}  Cancelled = {}  Stopped = {}
    MaxCalls <- TwoCalls
PROPERTIES TimedActionReturns
CHECK_DEADLOCK FALSE
