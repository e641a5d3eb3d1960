SPECIFICATION Spec
CONSTANTS
    Order = 4
    Requests <- MCRequests
    Credentials <- MCCredentials
    SecretSeeds = {"s1", "s2"}
    KeyShares <- MCKeyShares
    Shares = {0, 3}
    MaxProofs = 2
INVARIANTS HolderAccepted AcceptedIsOneProof RefusedBeforeCommitment MacBindsCircuits
CHECK_DEADLOCK FALSE
