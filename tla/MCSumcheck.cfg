SPECIFICATION Spec
CONSTANTS
    CircuitsOver <- MCCircuits
    PadStreamsOver <- MCPadStreams
    Challenge = {2, 3}
    GateBits = 1
    WireBits = 2
INVARIANTS PadsUsedOnce OnlyTrueClaimsSurvive WitnessSatisfiesConstraints
           EvaluationSatisfiesQuads
CHECK_DEADLOCK FALSE
