--------------------------- MODULE MCSparseArray ---------------------------
EXTENDS SparseArray

\* Every layer of one, two or three quads.
SmallLayers ==
    LET positions == (0..(2^GateBits - 1)) \X (0..(2^WireBits - 1)) \X (0..(2^WireBits - 1))
    IN  {{p, q, r} : p \in positions, q \in positions, r \in positions}
=============================================================================
