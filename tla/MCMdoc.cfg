SPECIFICATION MdocSpec
CONSTANTS
    Order = 4
    Provers <- MCProvers
    Responses <- MCResponses
    Calls <- MCCalls
    MacKeyShares <- MCMacKeyShares
    Shares = {0, 3}
    BasePrime = 23
    CurveB = 15
    Generator <- MCGenerator
    GroupOrder = 17
    ScalarBits = 5
    EncodedKeys <- MCKeys
    Scalars = {0, 1, 2, 3, 6, 8, 9, 11, 14, 15, 16, 17, 31}
    Digests = {0, 1, 7, 11, 16, 17, 22, 23}
    IssuedItems <- MCItems
    IssuedObjects <- MCObjects
    MaxPreimage = 119
    DebugBuild = TRUE
    ContentLengths <- MCContentLengths
INVARIANTS
    PresentationAccepted
    AcceptedIsShown
    SeedNotDisclosed
    CheckedBeforeCommitment
    SignaturesAreVerified
    ItemsAreRead
    EveryWireIsSet
CHECK_DEADLOCK FALSE
