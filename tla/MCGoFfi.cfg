SPECIFICATION ForeignSpec
CONSTANTS
    Threads = {t1, t2}
    Verifiers = {v1, v2}
    Strings = {s1, s2}
    Buffers = {b1, b2}
    Versions = {5, 7, 8}
    BadArguments <- MCBadArguments
SYMMETRY MCSymmetry
INVARIANTS
    VerifiersAreTheCallers
    VerifierOutlivesCalls
    OutcomeIsReported
    AnswersAreDetected
