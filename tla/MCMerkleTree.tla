---------------------------- MODULE MCMerkleTree ----------------------------
(***************************************************************************)
(* Small instances of MerkleTree for TLC.                                  *)
(***************************************************************************)
EXTENDS MerkleTree

CONSTANTS a, b, zero

MCLeaf == {a, b}

\* Digests a received proof may hold: leaves, and inner nodes over them.
MCProofNode == MCLeaf \cup (MCLeaf \X MCLeaf)
=============================================================================
