CONSTANTS
    None = None
    Window = 1
    OutboundDepth = 2
    InboundDepth = 2
    Scenarios <- MCScenarios
SPECIFICATION Spec
INVARIANT PublicationsArrive
INVARIANT TruthGoesFirst
PROPERTY WillsAreRecovered
PROPERTY StaysPresent
CHECK_DEADLOCK FALSE
