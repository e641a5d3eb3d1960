SPECIFICATION Spec
CONSTANTS
    Order = 11
    NREQ = 2
    WR = 3
    QR = 2
    NCOL = 11
    num_witnesses = 4
    Quadratics <- MCQuadratics
    LinearTerms <- MCLinearTerms
    RightHandSides <- MCRightHandSides
    Witnesses <- MCWitnesses
    RandomStreams <- MCRandomStreams
    ChallengeStreams <- MCChallengeStreams
    Alterations = {1, 4}
INVARIANTS
    HonestProofAccepted
    VerdictIsLinearResidual
    PanicsOnMissedProduct
    AlteredProofRejected
CHECK_DEADLOCK FALSE
