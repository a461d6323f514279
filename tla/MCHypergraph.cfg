SPECIFICATION Spec
CONSTANTS
    Hidden = "hidden"
    Connectors <- AllConnectors
INVARIANTS HypergraphTypeOK Synchronous Derivable Complete Exact
CHECK_DEADLOCK FALSE
