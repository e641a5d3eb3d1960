CONSTANTS
    a = a
    b = b
    zero = zero
    LeafCounts = {1, 2, 3, 4}
    Leaf <- MCLeaf
    Default = zero
    ProofNode <- MCProofNode
    MaxForged = 3
SPECIFICATION Spec
INVARIANTS TypeOK Completeness Soundness
PROPERTIES PartialTreeStable
CHECK_DEADLOCK FALSE
