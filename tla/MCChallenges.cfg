CONSTANTS
    Party = {p1, p2}
    Element <- MCElement
    Byte = {0, 1}
    SessionId <- MCSessionId
    Modes = {"Normal", "V3Compatibility"}
    Rejected <- MCRejected
    ZeroChunk = 2
    MaxRejections = 1
    MaxBindings = 1
    MaxLength = 1
    MaxZeros = 3
    MaxMessages = 3
    MaxSteps = 4
    Sampler = {1, 2}
    Requests <- MCRequests
    ByteBits = 2
SYMMETRY MCSymmetry
SPECIFICATION ChallengesSpec
INVARIANTS StreamIsCurrent ChallengeBinding
    ColumnsDistinct SamplingUnbiased
CHECK_DEADLOCK FALSE
