SPECIFICATION EncodingsSpec
CONSTANTS
    MaxElements = 7
    MAX_RUN_LENGTH = 3
    SizeLimit = 8192
    WordLimit = 32768
    Written <- MCWritten
    Alterations <- MCAlterations
    Loads <- MCLoads
    MAX_WIRES = 5000
    MAX_LAYERS = 3
    MAX_CONSTANTS = 2
    MAX_DELTAS = 2
    MAX_TERMS = 17
    LIGERO_RATE_INV = 7
    LIGERO_NREQ = 132
    StatementInputs = 259
    MacInputs = 896
    PrivateInputs = 3610
INVARIANTS
    RoundTrip CircuitRoundTrip ConversionIsExact LoadedIsDescribed
PROPERTIES
    CallsEnd
CHECK_DEADLOCK FALSE
