SPECIFICATION Spec
CONSTANTS
    Order = 17
    MaxNodes = 6
    MaxEvaluations = 16
    NodeValues = {0, 7}
    ROOTS_OF_UNITY <- MCRoots
    DEGREE = 6
    Modulus <- MCModulus
    SUBFIELD_BIT_LENGTH = 3
    Generator <- MCGenerator
    Scales <- MCScales
    P256 <- MCP256
    P128 <- MCP128
    P256Scalar <- MCP256Scalar
    Operands <- MCOperands
    BaseOrder = 7
    Generator2 <- MCGenerator2
    LogOrder = 4
INVARIANTS
    ExtendIsInterpolation
    ArithmeticIsOfAField
    UninjectInverts
CHECK_DEADLOCK FALSE
