----------------------------- MODULE MerkleTree -----------------------------
(***************************************************************************)
(* The Merkle tree of ligero/merkle.rs: the committer sets the leaves and  *)
(* builds the tree, proves that the requested leaves are in it, and the    *)
(* verifier checks an inclusion proof against the root.  Each loop of the  *)
(* code runs from the last inner node down to the root, one iteration per  *)
(* step of the model, so that a loop invariant is an invariant here.       *)
(*                                                                         *)
(* SHA-256 is modelled as a collision-free function: the digest of two     *)
(* children is the pair of their digests.                                  *)
(***************************************************************************)
EXTENDS Integers, Sequences

CONSTANTS LeafCounts,   \* the leaf counts a tree may be created with
          Leaf,         \* digests a leaf may have
          Default,      \* Node::default(), the all-zero digest
          ProofNode,    \* digests a received proof may hold
          MaxForged     \* bound: leaf count of a tree that other proofs are received for

ASSUME LeafCountsAssumption == LeafCounts \subseteq Nat \ {0}

VARIABLES
    pc,             \* where the committer or the verifier is
    leaf_count,     \* number of leaves of the tree
    digests,        \* MerkleTree::digests
    index,          \* loop variable, or 0 once a loop over inner nodes ended
    marked,         \* result of mark_tree: the indices marked true
    requested,      \* leaf indices asked of prove()
    proof,          \* the InclusionProof, being written or being verified
    cursor,         \* number of proof nodes proof_iter has yielded
    included,       \* verify()'s included_nodes
    indices,        \* verify()'s included_node_indices
    partial_tree,   \* verify()'s partial_tree, None or Some at each index
    verdict         \* what verify() returned

vars == <<pc, leaf_count, digests, index, marked, requested, proof, cursor,
          included, indices, partial_tree, verdict>>

\* Rust's Option
None == <<>>
Some(x) == <<x>>

Verdicts == {"pending", "ok", "length_mismatch", "index_out_of_range",
             "proof_too_short", "root_mismatch"}

tree_size == 2 * leaf_count
left_child_index(i) == 2 * i
right_child_index(i) == 2 * i + 1
hash_children(left, right) == <<left, right>>
root == digests[1]

\* Lists of k leaf indices below n: what the Fiat-Shamir sampling of columns
\* yields (generate_naturals_without_replacement).
DistinctIndices(k, n) ==
    {s \in [1..k -> 0..(n - 1)] : \A i, j \in 1..k : s[i] = s[j] => i = j}

-----------------------------------------------------------------------------
\* MerkleTree::new
Init ==
    /\ leaf_count \in LeafCounts
    /\ digests = [i \in 0..(2 * leaf_count - 1) |-> Default]
    /\ pc = "leaves"
    /\ index = 0
    /\ marked = {}
    /\ requested = <<>>
    /\ proof = <<>>
    /\ cursor = 0
    /\ included = <<>>
    /\ indices = <<>>
    /\ partial_tree = [i \in 0..(2 * leaf_count - 1) |-> None]
    /\ verdict = "pending"

set_leaf(position, leaf) ==
    /\ pc = "leaves"
    /\ index = position
    /\ digests' = [digests EXCEPT ![leaf_count + position] = leaf]
    /\ index' = position + 1
    /\ UNCHANGED <<pc, leaf_count, marked, requested, proof, cursor, included,
                   indices, partial_tree, verdict>>

\* The caller (tableau.rs, commit) sets every leaf before it builds the tree.
start_build ==
    /\ pc = "leaves"
    /\ index = leaf_count
    /\ pc' = "build"
    /\ index' = leaf_count - 1
    /\ UNCHANGED <<leaf_count, digests, marked, requested, proof, cursor, included,
                   indices, partial_tree, verdict>>

\* Faulty variant of build: the loop also overwrites the unused slot 0.
build_past_root ==
    /\ pc = "build"
    /\ IF index >= 0
       THEN /\ digests' = [digests EXCEPT ![index] =
                             hash_children(digests[left_child_index(index)],
                                           digests[right_child_index(index)])]
            /\ index' = index - 1
            /\ UNCHANGED pc
       ELSE pc' = "committed" /\ UNCHANGED <<digests, index>>
    /\ UNCHANGED <<leaf_count, marked, requested, proof, cursor, included, indices,
                   partial_tree, verdict>>

build ==
    /\ pc = "build"
    /\ IF index > 0
       THEN /\ digests' = [digests EXCEPT ![index] =
                             hash_children(digests[left_child_index(index)],
                                           digests[right_child_index(index)])]
            /\ index' = index - 1
            /\ UNCHANGED pc
       ELSE pc' = "committed" /\ UNCHANGED <<digests, index>>
    /\ UNCHANGED <<leaf_count, marked, requested, proof, cursor, included, indices,
                   partial_tree, verdict>>

-----------------------------------------------------------------------------
(* mark_tree, first the requested leaves and then, bottom up, the parents. *)

MarkLeaves(leaves) ==
    {leaf_count + leaves[k] : k \in DOMAIN leaves}

mark_tree(from, to) ==
    /\ pc = from
    /\ IF index > 0
       THEN /\ marked' = IF \/ left_child_index(index) \in marked
                            \/ right_child_index(index) \in marked
                         THEN marked \cup {index} ELSE marked \ {index}
            /\ index' = index - 1
            /\ UNCHANGED pc
       ELSE /\ pc' = to
            /\ index' = leaf_count - 1
            /\ UNCHANGED marked
    /\ UNCHANGED <<leaf_count, digests, requested, proof, cursor, included, indices,
                   partial_tree, verdict>>

\* Faulty variant of Sibling: always the left child.
Sibling_left(i) == left_child_index(i)

\* The child of inner node i whose digest the proof has to supply: the unmarked one.
Sibling(i) ==
    IF left_child_index(i) \in marked THEN right_child_index(i) ELSE left_child_index(i)

\* Faulty variant of NeedsSibling: does not look whether the sibling is marked too.
NeedsSibling_always(i) == i \in marked

NeedsSibling(i) == i \in marked /\ Sibling(i) \notin marked

start_prove ==
    /\ pc = "committed"
    /\ \E k \in 1..leaf_count : \E s \in DistinctIndices(k, leaf_count) :
         /\ requested' = s
         /\ marked' = MarkLeaves(s)
    /\ proof' = <<>>
    /\ pc' = "prove_mark"
    /\ index' = leaf_count - 1
    /\ UNCHANGED <<leaf_count, digests, cursor, included, indices, partial_tree, verdict>>

prove ==
    /\ pc = "prove"
    /\ IF index > 0
       THEN /\ proof' = IF NeedsSibling(index)
                        THEN Append(proof, digests[Sibling(index)]) ELSE proof
            /\ index' = index - 1
            /\ UNCHANGED pc
       ELSE pc' = "proved" /\ UNCHANGED <<proof, index>>
    /\ UNCHANGED <<leaf_count, digests, marked, requested, cursor, included, indices,
                   partial_tree, verdict>>

-----------------------------------------------------------------------------
(* verify(): the two early returns, then the loops that place the proof's  *)
(* nodes, fill the included leaves and recompute the inner nodes.          *)

StartVerify(nodes, positions, nodes_of_proof) ==
    /\ included' = nodes
    /\ indices' = positions
    /\ proof' = nodes_of_proof
    /\ cursor' = 0
    /\ partial_tree' = [i \in 0..(tree_size - 1) |-> None]
    /\ index' = leaf_count - 1
    /\ \/ /\ Len(nodes) # Len(positions)
          /\ verdict' = "length_mismatch"
          /\ pc' = "done"
          /\ UNCHANGED marked
       \/ /\ Len(nodes) = Len(positions)
          /\ \E k \in DOMAIN positions : positions[k] >= leaf_count
          /\ verdict' = "index_out_of_range"
          /\ pc' = "done"
          /\ UNCHANGED marked
       \/ /\ Len(nodes) = Len(positions)
          /\ \A k \in DOMAIN positions : positions[k] < leaf_count
          /\ marked' = MarkLeaves(positions)
          /\ pc' = "verify_mark"
          /\ UNCHANGED verdict
    /\ UNCHANGED <<leaf_count, digests, requested>>

\* The verifier receives the proof the committer computed, and the leaves asked for.
receive_honest ==
    /\ pc = "proved"
    /\ StartVerify([k \in DOMAIN requested |-> digests[leaf_count + requested[k]]],
                   requested, proof)

\* The verifier receives other bytes: any leaves, any list of proof nodes.
receive_other ==
    /\ pc = "committed"
    /\ leaf_count <= MaxForged
    /\ \E k \in 1..leaf_count : \E m \in {k - 1, k} :
       \E positions \in DistinctIndices(k, leaf_count + 1), nodes \in [1..m -> Leaf] :
       \E len \in 0..leaf_count : \E p \in [1..len -> ProofNode] :
         StartVerify(nodes, positions, p)

place_proof ==
    /\ pc = "verify_place"
    /\ \/ /\ index > 0 /\ NeedsSibling(index) /\ cursor < Len(proof)
          /\ partial_tree' = [partial_tree EXCEPT ![Sibling(index)] = Some(proof[cursor + 1])]
          /\ cursor' = cursor + 1
          /\ index' = index - 1
          /\ UNCHANGED <<pc, verdict>>
       \/ /\ index > 0 /\ NeedsSibling(index) /\ cursor = Len(proof)
          /\ verdict' = "proof_too_short"
          /\ pc' = "done"
          /\ UNCHANGED <<partial_tree, cursor, index>>
       \/ /\ index > 0 /\ ~NeedsSibling(index)
          /\ index' = index - 1
          /\ UNCHANGED <<pc, verdict, partial_tree, cursor>>
       \/ /\ index = 0
          /\ pc' = "verify_fill"
          /\ UNCHANGED <<index, verdict, partial_tree, cursor>>
    /\ UNCHANGED <<leaf_count, digests, marked, requested, proof, included, indices>>

\* A repeated index keeps the last of its nodes.
IncludedAt(i) == {k \in DOMAIN indices : i = leaf_count + indices[k]}
LastOf(S) == CHOOSE k \in S : \A j \in S : j <= k

\* Faulty variant of fill_leaves: takes the position in the list for the leaf index.
fill_leaves_in_order ==
    /\ pc = "verify_fill"
    /\ partial_tree' =
         [i \in DOMAIN partial_tree |->
            IF i - leaf_count + 1 \in DOMAIN included
            THEN Some(included[i - leaf_count + 1]) ELSE partial_tree[i]]
    /\ pc' = "verify_hash"
    /\ index' = leaf_count - 1
    /\ UNCHANGED <<leaf_count, digests, marked, requested, proof, cursor, included,
                   indices, verdict>>

fill_leaves ==
    /\ pc = "verify_fill"
    /\ partial_tree' =
         [i \in DOMAIN partial_tree |->
            IF IncludedAt(i) = {} THEN partial_tree[i]
                                  ELSE Some(included[LastOf(IncludedAt(i))])]
    /\ pc' = "verify_hash"
    /\ index' = leaf_count - 1
    /\ UNCHANGED <<leaf_count, digests, marked, requested, proof, cursor, included,
                   indices, verdict>>

hash_partial ==
    /\ pc = "verify_hash"
    /\ index > 0
    /\ LET l == partial_tree[left_child_index(index)]
           r == partial_tree[right_child_index(index)]
       IN  partial_tree' = IF l # None /\ r # None
                           THEN [partial_tree EXCEPT ![index] = Some(hash_children(l[1], r[1]))]
                           ELSE partial_tree
    /\ index' = index - 1
    /\ UNCHANGED <<pc, leaf_count, digests, marked, requested, proof, cursor, included,
                   indices, verdict>>

compare_root ==
    /\ pc = "verify_hash"
    /\ index = 0
    /\ verdict' = IF partial_tree[1] = Some(root) THEN "ok" ELSE "root_mismatch"
    /\ pc' = "done"
    /\ UNCHANGED <<leaf_count, digests, index, marked, requested, proof, cursor,
                   included, indices, partial_tree>>

-----------------------------------------------------------------------------
Next ==
    \/ \E position \in 0..(leaf_count - 1), leaf \in Leaf : set_leaf(position, leaf)
    \/ start_build
    \/ build
    \/ start_prove
    \/ mark_tree("prove_mark", "prove")
    \/ prove
    \/ receive_honest
    \/ receive_other
    \/ mark_tree("verify_mark", "verify_place")
    \/ place_proof
    \/ fill_leaves
    \/ hash_partial
    \/ compare_root

Spec == Init /\ [][Next]_vars

-----------------------------------------------------------------------------
\* Type invariant of the tree and of a verification in progress.
TypeOK ==
    /\ leaf_count \in LeafCounts
    /\ pc \in {"leaves", "build", "committed", "prove_mark", "prove", "proved",
               "verify_mark", "verify_place", "verify_fill", "verify_hash", "done"}
    /\ index \in 0..leaf_count
    /\ DOMAIN digests = 0..(tree_size - 1)
    /\ marked \subseteq 0..(tree_size - 1)
    /\ DOMAIN partial_tree = 0..(tree_size - 1)
    /\ \A i \in DOMAIN partial_tree :
         partial_tree[i] = None \/ partial_tree[i] = Some(partial_tree[i][1])
    /\ cursor \in Nat
    /\ verdict \in Verdicts
    /\ \E k \in 0..leaf_count : requested \in DistinctIndices(k, leaf_count)

\* Completeness: verify() accepts what prove() produced for the leaves asked for, in
\* any order they were asked, and uses up every node of the proof.
Completeness ==
    pc = "done" /\ requested # <<>> => verdict = "ok" /\ cursor = Len(proof)

\* Soundness: when verify() accepts, every included node is the leaf the tree was
\* built with at the index it is claimed for, whatever proof nodes were received.
Soundness ==
    verdict = "ok" =>
        \A k \in DOMAIN indices : included[k] = digests[leaf_count + indices[k]]

\* A step leaves every digest of the partial tree, unless verify() returns.
KeepsDigests ==
    verdict' = "pending" =>
        \A i \in DOMAIN partial_tree :
            partial_tree[i] # None => partial_tree'[i] = partial_tree[i]

\* The verifier never overwrites a digest it took from the proof, nor recomputes an
\* included leaf: a Some of the partial tree keeps its value until verify() returns.
PartialTreeStable == [][KeepsDigests]_vars

-----------------------------------------------------------------------------
(* The loop invariants that make Soundness inductive.                      *)

Verifying == pc \in {"verify_mark", "verify_place", "verify_fill", "verify_hash"}

\* Iteration i of the loop over inner nodes that runs at label l has been done.
Done(l, i) == pc = l => index < i

InnerNodes == 1..(leaf_count - 1)

Built ==
    pc # "leaves" =>
        \A i \in InnerNodes : Done("build", i) =>
            digests[i] = hash_children(digests[left_child_index(i)],
                                       digests[right_child_index(i)])

LoopRange ==
    /\ pc # "leaves" => index \in 0..(leaf_count - 1)
    /\ pc # "done" => verdict = "pending"

RequestOK ==
    Verifying =>
        /\ DOMAIN indices \subseteq Nat
        /\ DOMAIN included = DOMAIN indices
        /\ \A k \in DOMAIN indices : indices[k] \in 0..(leaf_count - 1)
        /\ \A j, k \in DOMAIN indices : indices[j] = indices[k] => j = k

MarkedLeaves ==
    Verifying =>
        \A i \in leaf_count..(tree_size - 1) :
            i \in marked <=> \E k \in DOMAIN indices : i = leaf_count + indices[k]

MarkedInner ==
    Verifying =>
        \A i \in InnerNodes : Done("verify_mark", i) =>
            (i \in marked <=> \/ left_child_index(i) \in marked
                              \/ right_child_index(i) \in marked)

Placed ==
    pc \in {"verify_place", "verify_fill", "verify_hash"} =>
        \A i \in InnerNodes : Done("verify_place", i) /\ NeedsSibling(i) =>
            partial_tree[Sibling(i)] # None

Filled ==
    pc = "verify_hash" =>
        \A k \in DOMAIN indices : partial_tree[leaf_count + indices[k]] = Some(included[k])

Hashed ==
    pc = "verify_hash" =>
        \A i \in InnerNodes : index < i /\ i \in marked =>
            /\ partial_tree[left_child_index(i)] # None
            /\ partial_tree[right_child_index(i)] # None
            /\ partial_tree[i] = Some(hash_children(partial_tree[left_child_index(i)][1],
                                                    partial_tree[right_child_index(i)][1]))

\* Inductive strengthening of Soundness: what each loop of build() and verify() has
\* established about the inner nodes it has already visited.
SoundnessInv ==
    /\ TypeOK
    /\ LoopRange
    /\ Built
    /\ RequestOK
    /\ MarkedLeaves
    /\ MarkedInner
    /\ Placed
    /\ Filled
    /\ Hashed
    /\ Soundness
=============================================================================
