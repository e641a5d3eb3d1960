-------------------------- MODULE MerkleTreeProofs --------------------------
(***************************************************************************)
(* Machine-checked proofs about MerkleTree, for every leaf count, every    *)
(* set of leaf digests and every proof received.                           *)
(***************************************************************************)
EXTENDS MerkleTree, TLAPS, FiniteSetTheorems, WellFoundedInduction

\* Every non-empty set of naturals has a least element: the induction down the tree.
LEMMA LeastElement ==
    ASSUME NEW T \in SUBSET Nat, T # {}
    PROVE  \E x \in T : \A y \in T : x <= y
<1> DEFINE R == {ss \in Nat \X Nat : ss[1] < ss[2]}
<1>1. IsWellFoundedOn(R, Nat)
  BY NatLessThanWellFounded, Zenon DEF OpToRel
<1>2. IsWellFoundedOn(R, Nat) => \E x \in T : \A y \in T : ~(<<y, x>> \in R)
  BY WFMin
<1>3. PICK x \in T : \A y \in T : ~(<<y, x>> \in R)
  BY <1>1, <1>2
<1>4. ASSUME NEW y \in T PROVE x <= y
  <2>1. x \in Nat /\ y \in Nat
    OBVIOUS
  <2>2. y < x => <<y, x>> \in R
    BY <2>1
  <2>. QED
    BY <1>3, <2>1, <2>2
<1>. QED
  BY <1>4

\* A function on 1..k is a sequence of length k.
LEMMA SeqLength ==
    ASSUME NEW k \in Nat, NEW S, NEW s \in [1..k -> S]
    PROVE  Len(s) = k /\ DOMAIN s = 1..k
  OBVIOUS

\* Type correctness of the Merkle tree and of verify()'s partial tree.
THEOREM TypeCorrect == Spec => []TypeOK
<1>1. Init => TypeOK
  BY LeafCountsAssumption, SMTT(30) DEF Init, TypeOK, tree_size, Verdicts, None, DistinctIndices
<1>2. TypeOK /\ [Next]_vars => TypeOK'
  <2> SUFFICES ASSUME TypeOK, [Next]_vars PROVE TypeOK'
    OBVIOUS
  <2>0. leaf_count \in Nat \ {0}
    BY LeafCountsAssumption DEF TypeOK
  <2> USE <2>0 DEF TypeOK, tree_size, Verdicts
  <2>1. ASSUME NEW p \in 0..(leaf_count - 1), NEW leaf \in Leaf, set_leaf(p, leaf)
        PROVE  TypeOK'
    BY <2>1 DEF set_leaf
  <2>2. CASE start_build
    BY <2>2 DEF start_build
  <2>3. CASE build
    BY <2>3 DEF build
  <2>4. CASE start_prove
    <3>1. PICK k \in 1..leaf_count : \E s \in DistinctIndices(k, leaf_count) :
            requested' = s /\ marked' = MarkLeaves(s)
      BY <2>4 DEF start_prove
    <3>2. PICK s \in DistinctIndices(k, leaf_count) : requested' = s /\ marked' = MarkLeaves(s)
      BY <3>1
    <3>3. marked' \subseteq 0..(2 * leaf_count - 1)
      BY <3>2 DEF MarkLeaves, DistinctIndices
    <3>. QED
      BY <2>4, <3>2, <3>3 DEF start_prove
  <2>5. ASSUME NEW from, NEW to \in {"prove", "verify_place"}, mark_tree(from, to)
        PROVE  TypeOK'
    <3>1. marked' \subseteq 0..(2 * leaf_count - 1)
      <4>1. index \in 0..(2 * leaf_count - 1)
        OBVIOUS
      <4>2. marked' \in {marked \cup {index}, marked \ {index}, marked}
        BY <2>5, Zenon DEF mark_tree
      <4>. QED
        BY <4>1, <4>2
    <3>2. index' \in 0..leaf_count
      BY <2>5 DEF mark_tree
    <3>3. pc' \in {pc, "prove", "verify_place"}
      BY <2>5, Zenon DEF mark_tree
    <3>. QED
      BY <2>5, <3>1, <3>2, <3>3 DEF mark_tree
  <2>6. CASE prove
    BY <2>6 DEF prove
  <2>7. ASSUME NEW nodes, NEW positions, NEW p, StartVerify(nodes, positions, p),
               \A k \in DOMAIN positions : positions[k] \in Nat
        PROVE  TypeOK'
    <3>1. \A i \in marked' : i \in 0..(2 * leaf_count - 1)
      <4>1. CASE marked' = marked
        BY <4>1
      <4>2. CASE /\ marked' = MarkLeaves(positions)
                 /\ \A k \in DOMAIN positions : positions[k] < leaf_count
        BY <2>7, <4>2 DEF MarkLeaves
      <4>. QED
        BY <2>7, <4>1, <4>2 DEF StartVerify
    <3>. QED
      BY <2>7, <3>1 DEF StartVerify, None
  <2>8. CASE receive_honest
    <3>1. \A k \in DOMAIN requested : requested[k] \in Nat
      BY DEF DistinctIndices
    <3>. QED
      BY <2>7, <2>8, <3>1 DEF receive_honest
  <2>9. CASE receive_other
    <3>1. ASSUME NEW k \in 1..leaf_count, NEW positions \in DistinctIndices(k, leaf_count + 1),
                 NEW nodes, NEW p, StartVerify(nodes, positions, p)
          PROVE  TypeOK'
      <4>1. \A j \in DOMAIN positions : positions[j] \in Nat
        BY DEF DistinctIndices
      <4>. QED
        BY <2>7, <3>1, <4>1
    <3>2. PICK k \in 1..leaf_count : \E m \in {k - 1, k} :
            \E positions \in DistinctIndices(k, leaf_count + 1), nodes \in [1..m -> Leaf] :
            \E len \in 0..leaf_count : \E p \in [1..len -> ProofNode] :
              StartVerify(nodes, positions, p)
      BY <2>9 DEF receive_other
    <3>. QED
      BY <3>1, <3>2
  <2>11. CASE place_proof
    <3>1. CASE UNCHANGED partial_tree
      BY <2>11, <3>1 DEF place_proof
    <3>2. CASE partial_tree' = [partial_tree EXCEPT ![Sibling(index)] = Some(proof[cursor + 1])]
      <4>1. \A i \in DOMAIN partial_tree' :
              partial_tree'[i] = None \/ partial_tree'[i] = Some(partial_tree'[i][1])
        BY <3>2 DEF Some
      <4>. QED
        BY <2>11, <3>2, <4>1 DEF place_proof
    <3>. QED
      BY <2>11, <3>1, <3>2 DEF place_proof
  <2>12. CASE fill_leaves
    <3>1. \A i \in DOMAIN partial_tree' :
            partial_tree'[i] = None \/ partial_tree'[i] = Some(partial_tree'[i][1])
      BY <2>12 DEF fill_leaves, Some
    <3>. QED
      BY <2>12, <3>1 DEF fill_leaves
  <2>13. CASE hash_partial
    BY <2>13 DEF hash_partial, None, Some
  <2>14. CASE compare_root
    BY <2>14 DEF compare_root
  <2>15. CASE UNCHANGED vars
    BY <2>15 DEF vars
  <2>. QED
    BY <2>1, <2>2, <2>3, <2>4, <2>5, <2>6, <2>8, <2>9, <2>11, <2>12, <2>13,
       <2>14, <2>15 DEF Next
<1>. QED
  BY <1>1, <1>2, PTL DEF Spec

-----------------------------------------------------------------------------
\* The unmarked child that NeedsSibling asks for is a child, inside the tree.
LEMMA SiblingIsChild ==
    ASSUME TypeOK, NEW i \in InnerNodes
    PROVE  /\ Sibling(i) \in {left_child_index(i), right_child_index(i)}
           /\ Sibling(i) \in 0..(tree_size - 1)
<1>1. leaf_count \in Nat
  BY LeafCountsAssumption DEF TypeOK
<1>. QED
  BY <1>1 DEF Sibling, left_child_index, right_child_index, InnerNodes, tree_size

\* verify() starts with distinct indices in range, marks only their leaves and has
\* visited no inner node.
LEMMA StartVerifySound ==
    ASSUME SoundnessInv, TypeOK', pc # "leaves", pc # "build", pc # "done",
           NEW k \in Nat, NEW m \in Nat, NEW S,
           NEW n \in Nat, NEW positions \in DistinctIndices(k, n),
           NEW nodes \in [1..m -> S], NEW p, StartVerify(nodes, positions, p)
    PROVE  SoundnessInv'
<1>1. leaf_count \in Nat \ {0} /\ leaf_count' = leaf_count /\ digests' = digests
  BY LeafCountsAssumption DEF SoundnessInv, TypeOK, StartVerify
<1>2. Len(positions) = k /\ DOMAIN positions = 1..k /\ Len(nodes) = m /\ DOMAIN nodes = 1..m
  BY DEF DistinctIndices
<1>3. /\ included' = nodes /\ indices' = positions /\ index' = leaf_count - 1
      /\ verdict' # "ok"
  BY DEF StartVerify, SoundnessInv, LoopRange
<1>4. LoopRange' /\ Built' /\ Soundness'
  <2>1. LoopRange'
    BY <1>1 DEF StartVerify, SoundnessInv, LoopRange
  <2>2. Built'
    BY <1>1 DEF StartVerify, SoundnessInv, Built, Done, InnerNodes
  <2>. QED
    BY <1>3, <2>1, <2>2 DEF Soundness
<1>5. CASE pc' = "done"
  BY <1>4, <1>5 DEF SoundnessInv, RequestOK, MarkedLeaves, MarkedInner, Placed, Filled,
                    Hashed, Verifying
<1>6. CASE pc' = "verify_mark"
  <2>1. /\ m = k
        /\ \A j \in 1..k : positions[j] < leaf_count
        /\ marked' = {leaf_count + positions[j] : j \in 1..k}
    BY <1>2, <1>6 DEF StartVerify, MarkLeaves
  <2>2. RequestOK'
    BY <1>1, <1>2, <1>3, <2>1 DEF RequestOK, DistinctIndices
  <2>3. MarkedLeaves'
    BY <1>1, <1>2, <1>3, <2>1 DEF MarkedLeaves, tree_size
  <2>4. MarkedInner'
    BY <1>1, <1>3, <1>6 DEF MarkedInner, Done, InnerNodes
  <2>. QED
    BY <1>4, <1>6, <2>2, <2>3, <2>4 DEF SoundnessInv, Placed, Filled, Hashed
<1>. QED
  BY <1>5, <1>6 DEF StartVerify

\* One iteration of the marking loop of verify(), or its end.
LEMMA MarkSound ==
    ASSUME SoundnessInv, TypeOK', mark_tree("verify_mark", "verify_place")
    PROVE  SoundnessInv'
<1>1. leaf_count \in Nat \ {0} /\ index \in 0..(leaf_count - 1) /\ pc = "verify_mark"
  BY LeafCountsAssumption DEF SoundnessInv, TypeOK, LoopRange, mark_tree
<1>2. UNCHANGED <<leaf_count, digests, included, indices, verdict>>
  BY DEF mark_tree
<1>3. pc' \in {"verify_mark", "verify_place"} /\ Verifying /\ Verifying'
  BY DEF mark_tree, Verifying
<1>4. LoopRange'
  BY <1>1, <1>2, <1>3 DEF SoundnessInv, LoopRange, mark_tree
<1>5. Built' /\ RequestOK' /\ Soundness'
  BY <1>1, <1>2, <1>3 DEF SoundnessInv, Built, RequestOK, Soundness, Done, InnerNodes
<1>6. \A i \in 0..(tree_size - 1) : i # index => (i \in marked' <=> i \in marked)
  BY DEF mark_tree
<1>7. MarkedLeaves'
  BY <1>1, <1>2, <1>3, <1>6 DEF SoundnessInv, MarkedLeaves, tree_size
<1>8. MarkedInner'
  <2> SUFFICES ASSUME NEW i \in InnerNodes', Done("verify_mark", i)'
               PROVE  i \in marked' <=> \/ left_child_index(i) \in marked'
                                        \/ right_child_index(i) \in marked'
    BY DEF MarkedInner, left_child_index, right_child_index
  <2>1. /\ i \in 1..(leaf_count - 1) /\ i \in InnerNodes
        /\ left_child_index(i) \in 0..(tree_size - 1) /\ left_child_index(i) > i
        /\ right_child_index(i) \in 0..(tree_size - 1) /\ right_child_index(i) > i
        /\ i \in 0..(tree_size - 1)
    BY <1>1, <1>2 DEF InnerNodes, left_child_index, right_child_index, tree_size
  <2>2. CASE i = index
    <3>1. index > 0
      BY <1>1, <2>1, <2>2
    <3>2. index \in marked' <=> \/ left_child_index(index) \in marked
                                \/ right_child_index(index) \in marked
      BY <3>1 DEF mark_tree
    <3>3. left_child_index(i) # index /\ right_child_index(i) # index
      BY <1>1, <2>1, <2>2
    <3>. QED
      BY <1>6, <2>1, <2>2, <3>2, <3>3
  <2>3. CASE i # index
    <3>1. index < i
      <4>1. CASE index > 0
        <5>1. pc' = "verify_mark" /\ index' = index - 1
          BY <1>1, <4>1 DEF mark_tree
        <5>. QED
          BY <1>1, <2>1, <2>3, <5>1 DEF Done
      <4>2. CASE ~(index > 0)
        BY <1>1, <2>1, <4>2
      <4>. QED
        BY <4>1, <4>2
    <3>2. i \in marked <=> left_child_index(i) \in marked \/ right_child_index(i) \in marked
      BY <1>3, <2>1, <3>1 DEF SoundnessInv, MarkedInner, Done
    <3>3. left_child_index(i) # index /\ right_child_index(i) # index
      BY <1>1, <2>1, <3>1
    <3>. QED
      BY <1>6, <2>1, <2>3, <3>2, <3>3
  <2>. QED
    BY <2>2, <2>3
<1>9. Placed' /\ Filled' /\ Hashed'
  <2>1. CASE pc' = "verify_mark"
    BY <2>1 DEF Placed, Filled, Hashed
  <2>2. CASE pc' = "verify_place"
    <3>1. index' = leaf_count - 1
      BY <1>1, <2>2 DEF mark_tree
    <3>. QED
      BY <1>1, <1>2, <2>2, <3>1 DEF Placed, Filled, Hashed, Done, InnerNodes
  <2>. QED
    BY <1>3, <2>1, <2>2
<1>. QED
  BY <1>4, <1>5, <1>7, <1>8, <1>9 DEF SoundnessInv

\* One iteration of the loop of verify() that consumes proof nodes, or its end.
LEMMA PlaceSound ==
    ASSUME SoundnessInv, TypeOK', place_proof
    PROVE  SoundnessInv'
<1>1. leaf_count \in Nat \ {0} /\ index \in 0..(leaf_count - 1) /\ pc = "verify_place"
  BY LeafCountsAssumption DEF SoundnessInv, TypeOK, LoopRange, place_proof
<1>2. UNCHANGED <<leaf_count, digests, marked, included, indices>>
  BY DEF place_proof
<1>3. /\ pc' \in {"verify_place", "verify_fill", "done"}
      /\ verdict' # "ok"
  BY DEF place_proof, SoundnessInv, LoopRange
<1>4. LoopRange' /\ Built' /\ Soundness'
  <2>1. LoopRange'
    BY <1>1, <1>2 DEF SoundnessInv, LoopRange, place_proof
  <2>2. Built'
    BY <1>1, <1>2, <1>3 DEF SoundnessInv, Built, Done, InnerNodes
  <2>. QED
    BY <1>3, <2>1, <2>2 DEF Soundness
<1>5. RequestOK' /\ MarkedLeaves' /\ MarkedInner'
  <2>1. Verifying
    BY <1>1 DEF Verifying
  <2>2. Verifying' => pc' # "verify_mark"
    BY <1>3 DEF Verifying
  <2>. QED
    BY <1>1, <1>2, <2>1, <2>2 DEF SoundnessInv, RequestOK, MarkedLeaves, MarkedInner,
       Done, InnerNodes, tree_size
<1>6. Placed'
  <2> SUFFICES ASSUME pc' # "done", NEW i \in InnerNodes, Done("verify_place", i)',
                      NeedsSibling(i)
               PROVE  partial_tree'[Sibling(i)] # None
    BY <1>2 DEF Placed, InnerNodes, NeedsSibling, Sibling
  <2>1. Sibling(i) \in DOMAIN partial_tree
    BY SiblingIsChild DEF SoundnessInv, TypeOK
  <2>2. CASE index = i
    <3>1. index > 0 /\ NeedsSibling(index)
      BY <2>2 DEF InnerNodes
    <3>2. partial_tree' = [partial_tree EXCEPT ![Sibling(index)] = Some(proof[cursor + 1])]
      BY <3>1 DEF place_proof
    <3>. QED
      BY <2>1, <2>2, <3>2 DEF Some, None
  <2>3. CASE index # i
    <3>1. index < i
      <4>1. CASE index > 0
        <5>1. pc' = "verify_place" /\ index' = index - 1
          BY <1>1, <4>1 DEF place_proof
        <5>. QED
          BY <1>1, <2>3, <5>1 DEF Done, InnerNodes
      <4>2. CASE ~(index > 0)
        BY <1>1, <4>2 DEF InnerNodes
      <4>. QED
        BY <4>1, <4>2
    <3>2. partial_tree[Sibling(i)] # None
      BY <1>1, <3>1 DEF SoundnessInv, Placed, Done
    <3>3. CASE UNCHANGED partial_tree
      BY <3>2, <3>3
    <3>4. CASE partial_tree' = [partial_tree EXCEPT ![Sibling(index)] = Some(proof[cursor + 1])]
      BY <2>1, <3>2, <3>4 DEF Some, None
    <3>. QED
      BY <3>3, <3>4 DEF place_proof
  <2>. QED
    BY <2>2, <2>3
<1>7. Filled' /\ Hashed'
  BY <1>3 DEF Filled, Hashed
<1>. QED
  BY <1>4, <1>5, <1>6, <1>7 DEF SoundnessInv

\* Distinct indices: each leaf is filled with the one node that claims it.
LEMMA FillSound ==
    ASSUME SoundnessInv, TypeOK', fill_leaves
    PROVE  SoundnessInv'
<1>1. /\ leaf_count \in Nat \ {0} /\ pc = "verify_fill" /\ pc' = "verify_hash"
      /\ Verifying /\ index' = leaf_count - 1
  BY LeafCountsAssumption DEF SoundnessInv, TypeOK, fill_leaves, Verifying
<1>2. UNCHANGED <<leaf_count, digests, marked, included, indices, verdict>>
  BY DEF fill_leaves
<1>3. \A i \in DOMAIN partial_tree :
        partial_tree'[i] = IF IncludedAt(i) = {} THEN partial_tree[i]
                           ELSE Some(included[LastOf(IncludedAt(i))])
  BY DEF fill_leaves
<1>4. LoopRange' /\ Built' /\ RequestOK' /\ Soundness'
  BY <1>1, <1>2 DEF SoundnessInv, LoopRange, Built, RequestOK, Soundness, Done, InnerNodes
<1>5. MarkedLeaves' /\ MarkedInner'
  BY <1>1, <1>2 DEF SoundnessInv, MarkedLeaves, MarkedInner, Done, InnerNodes, tree_size
<1>6. Placed'
  <2> SUFFICES ASSUME NEW i \in InnerNodes, NeedsSibling(i)
               PROVE  partial_tree'[Sibling(i)] # None
    BY <1>2 DEF Placed, InnerNodes, NeedsSibling, Sibling
  <2>1. Sibling(i) \in DOMAIN partial_tree
    BY SiblingIsChild DEF SoundnessInv, TypeOK
  <2>2. partial_tree[Sibling(i)] # None
    BY <1>1 DEF SoundnessInv, Placed, Done
  <2>3. \A x : Some(x) # None
    BY DEF Some, None
  <2>. QED
    BY <1>3, <2>1, <2>2, <2>3, Zenon
<1>7. Filled'
  <2> SUFFICES ASSUME NEW k \in DOMAIN indices
               PROVE  partial_tree'[leaf_count + indices[k]] = Some(included[k])
    BY <1>2 DEF Filled
  <2>1. /\ k \in Nat /\ indices[k] \in 0..(leaf_count - 1)
        /\ \A j \in DOMAIN indices : indices[j] \in Int /\ (indices[j] = indices[k] => j = k)
    BY <1>1 DEF SoundnessInv, RequestOK
  <2>2. leaf_count + indices[k] \in DOMAIN partial_tree
    BY <1>1, <2>1 DEF SoundnessInv, TypeOK, tree_size
  <2>3. IncludedAt(leaf_count + indices[k]) = {k}
    BY <1>1, <2>1 DEF IncludedAt
  <2>4. LastOf({k}) = k
    BY <2>1 DEF LastOf
  <2>5. partial_tree'[leaf_count + indices[k]] =
          Some(included[LastOf(IncludedAt(leaf_count + indices[k]))])
    BY <1>3, <2>2, <2>3, Zenon
  <2>. QED
    BY <2>3, <2>4, <2>5
<1>8. Hashed'
  BY <1>1, <1>2 DEF Hashed, InnerNodes
<1>. QED
  BY <1>4, <1>5, <1>6, <1>7, <1>8 DEF SoundnessInv

\* One iteration of the loop of verify() that recomputes inner nodes.
LEMMA HashSound ==
    ASSUME SoundnessInv, TypeOK', hash_partial
    PROVE  SoundnessInv'
<1>1. /\ leaf_count \in Nat \ {0} /\ index \in 1..(leaf_count - 1) /\ index' = index - 1
      /\ pc = "verify_hash" /\ pc' = "verify_hash" /\ Verifying
  BY LeafCountsAssumption DEF SoundnessInv, TypeOK, LoopRange, hash_partial, Verifying
<1>2. UNCHANGED <<leaf_count, digests, marked, included, indices, verdict>>
  BY DEF hash_partial
<1>3. DOMAIN partial_tree = 0..(2 * leaf_count - 1)
  BY DEF SoundnessInv, TypeOK, tree_size
<1>4. \A i \in DOMAIN partial_tree :
        /\ i # index => partial_tree'[i] = partial_tree[i]
        /\ partial_tree[i] # None => partial_tree'[i] # None
  BY DEF hash_partial, Some, None
<1>5. LoopRange' /\ Built' /\ RequestOK' /\ Soundness'
  BY <1>1, <1>2 DEF SoundnessInv, LoopRange, Built, RequestOK, Soundness, Done, InnerNodes
<1>6. MarkedLeaves' /\ MarkedInner'
  BY <1>1, <1>2 DEF SoundnessInv, MarkedLeaves, MarkedInner, Done, InnerNodes, tree_size
<1>7. Placed'
  <2> SUFFICES ASSUME NEW i \in InnerNodes, NeedsSibling(i)
               PROVE  partial_tree'[Sibling(i)] # None
    BY <1>2 DEF Placed, InnerNodes, NeedsSibling, Sibling
  <2>1. Sibling(i) \in DOMAIN partial_tree
    BY SiblingIsChild DEF SoundnessInv, TypeOK
  <2>. QED
    BY <1>1, <1>4, <2>1 DEF SoundnessInv, Placed, Done
<1>8. Filled'
  <2> SUFFICES ASSUME NEW k \in DOMAIN indices
               PROVE  partial_tree'[leaf_count + indices[k]] = Some(included[k])
    BY <1>2 DEF Filled
  <2>1. /\ leaf_count + indices[k] \in DOMAIN partial_tree
        /\ leaf_count + indices[k] # index
    BY <1>1, <1>3 DEF SoundnessInv, RequestOK
  <2>. QED
    BY <1>1, <1>4, <2>1 DEF SoundnessInv, Filled
<1>9. Hashed'
  <2> SUFFICES ASSUME NEW i \in InnerNodes, index - 1 < i, i \in marked
               PROVE  LET l == left_child_index(i)
                          r == right_child_index(i)
                      IN  /\ partial_tree'[l] # None
                          /\ partial_tree'[r] # None
                          /\ partial_tree'[i] = Some(hash_children(partial_tree'[l][1],
                                                                   partial_tree'[r][1]))
    BY <1>1, <1>2 DEF Hashed, InnerNodes, left_child_index, right_child_index
  <2> DEFINE l == left_child_index(i)
             r == right_child_index(i)
  <2>1. /\ i \in DOMAIN partial_tree /\ i \in 1..(leaf_count - 1)
        /\ l \in DOMAIN partial_tree /\ l > i
        /\ r \in DOMAIN partial_tree /\ r > i
    BY <1>1, <1>3 DEF InnerNodes, left_child_index, right_child_index
  <2>2. partial_tree'[l] = partial_tree[l] /\ partial_tree'[r] = partial_tree[r]
    BY <1>1, <1>4, <2>1
  <2>3. CASE i # index
    BY <1>1, <1>4, <2>1, <2>2, <2>3 DEF SoundnessInv, Hashed
  <2>4. CASE i = index
    <3>1. ASSUME NEW c \in {l, r}, c \in marked PROVE partial_tree[c] # None
      <4>0. c \in 0..(2 * leaf_count - 1) /\ c > i
        BY <1>3, <2>1, <3>1
      <4>1. CASE c < leaf_count
        <5>1. c \in InnerNodes /\ index < c
          BY <1>1, <2>1, <2>4, <4>0, <4>1 DEF InnerNodes
        <5>2. partial_tree[c] = Some(hash_children(partial_tree[left_child_index(c)][1],
                                                   partial_tree[right_child_index(c)][1]))
          BY <1>1, <3>1, <5>1 DEF SoundnessInv, Hashed
        <5>. QED
          BY <5>2 DEF Some, None
      <4>2. CASE ~(c < leaf_count)
        <5>1. c \in leaf_count..(tree_size - 1)
          BY <1>1, <4>0, <4>2 DEF tree_size
        <5>2. PICK k \in DOMAIN indices : c = leaf_count + indices[k]
          BY <1>1, <3>1, <5>1 DEF SoundnessInv, MarkedLeaves
        <5>3. partial_tree[c] = Some(included[k])
          BY <1>1, <5>2 DEF SoundnessInv, Filled
        <5>. QED
          BY <5>3 DEF Some, None
      <4>. QED
        BY <4>1, <4>2
    <3>2. l \in marked \/ r \in marked
      BY <1>1 DEF SoundnessInv, MarkedInner, Done
    <3>3. NeedsSibling(i) => partial_tree[Sibling(i)] # None
      BY <1>1 DEF SoundnessInv, Placed, Done
    <3>4. partial_tree[l] # None /\ partial_tree[r] # None
      BY <3>1, <3>2, <3>3 DEF NeedsSibling, Sibling
    <3>5. partial_tree'[i] = Some(hash_children(partial_tree[l][1], partial_tree[r][1]))
      BY <1>1, <2>1, <2>4, <3>4 DEF hash_partial
    <3>. QED
      BY <2>2, <3>4, <3>5
  <2>. QED
    BY <2>3, <2>4
<1>. QED
  BY <1>5, <1>6, <1>7, <1>8, <1>9 DEF SoundnessInv

\* When the recomputed root is the tree's root, every marked node of the partial tree
\* holds the tree's digest: a least marked node that does not would have a parent that
\* does, and the digest of a parent determines those of its children.
LEMMA CompareSound ==
    ASSUME SoundnessInv, TypeOK', compare_root
    PROVE  SoundnessInv'
<1>1. /\ leaf_count \in Nat \ {0} /\ index = 0 /\ Verifying
      /\ pc = "verify_hash" /\ pc' = "done"
  BY LeafCountsAssumption DEF SoundnessInv, TypeOK, compare_root, Verifying
<1>2. UNCHANGED <<leaf_count, digests, index, marked, included, indices, partial_tree>>
  BY DEF compare_root
<1>3. LoopRange' /\ Built'
  BY <1>1, <1>2 DEF SoundnessInv, LoopRange, Built, Done, InnerNodes
<1>4. /\ RequestOK' /\ MarkedLeaves' /\ MarkedInner' /\ Placed' /\ Filled' /\ Hashed'
  BY <1>1 DEF RequestOK, MarkedLeaves, MarkedInner, Placed, Filled, Hashed, Verifying
<1>5. Soundness'
  <2> SUFFICES ASSUME partial_tree[1] = Some(root), NEW k \in DOMAIN indices
               PROVE  included[k] = digests[leaf_count + indices[k]]
    BY <1>2 DEF Soundness, compare_root
  <2> DEFINE Wrong == {i \in Nat : i \in marked /\ i # 0 /\ partial_tree[i] # Some(digests[i])}
  <2>1. Wrong = {}
    <3> SUFFICES ASSUME Wrong # {} PROVE FALSE
      OBVIOUS
    <3>1. PICK x \in Wrong : \A y \in Wrong : x <= y
      <4> HIDE DEF Wrong
      <4>1. Wrong \in SUBSET Nat
        BY DEF Wrong
      <4>. QED
        BY <4>1, LeastElement
    <3>2. /\ x \in Nat /\ x \in marked /\ x # 0 /\ partial_tree[x] # Some(digests[x])
          /\ x \in 0..(2 * leaf_count - 1)
      BY DEF SoundnessInv, TypeOK, tree_size
    <3>3. x # 1
      BY <3>2 DEF root
    <3>4. PICK parent \in InnerNodes : /\ parent < x
                                       /\ \/ x = left_child_index(parent)
                                          \/ x = right_child_index(parent)
      <4>1. PICK h \in Nat : x = 2 * h \/ x = 2 * h + 1
        <5>1. x \div 2 \in Nat /\ (x = 2 * (x \div 2) \/ x = 2 * (x \div 2) + 1)
          BY <3>2
        <5>. QED
          BY <5>1
      <4>2. h \in InnerNodes /\ h < x
        BY <1>1, <3>2, <3>3, <4>1 DEF InnerNodes
      <4>. QED
        BY <4>1, <4>2 DEF left_child_index, right_child_index
    <3>5. parent \in marked
      BY <1>1, <3>2, <3>4 DEF SoundnessInv, MarkedInner, Done
    <3>6. /\ partial_tree[left_child_index(parent)] # None
          /\ partial_tree[right_child_index(parent)] # None
          /\ partial_tree[parent] =
               Some(hash_children(partial_tree[left_child_index(parent)][1],
                                  partial_tree[right_child_index(parent)][1]))
      BY <1>1, <3>4, <3>5 DEF SoundnessInv, Hashed, InnerNodes
    <3>7. partial_tree[parent] = Some(digests[parent])
      <4>1. parent \notin Wrong /\ parent \in Nat /\ parent # 0
        BY <3>1, <3>2, <3>4 DEF InnerNodes
      <4>. QED
        BY <3>5, <4>1
    <3>8. digests[parent] = hash_children(digests[left_child_index(parent)],
                                          digests[right_child_index(parent)])
      BY <1>1, <3>4 DEF SoundnessInv, Built, Done
    <3>9. /\ partial_tree[left_child_index(parent)][1] = digests[left_child_index(parent)]
          /\ partial_tree[right_child_index(parent)][1] = digests[right_child_index(parent)]
      BY <3>6, <3>7, <3>8 DEF hash_children, Some
    <3>10. /\ left_child_index(parent) \in DOMAIN partial_tree
           /\ right_child_index(parent) \in DOMAIN partial_tree
      BY <1>1 DEF SoundnessInv, TypeOK, tree_size, InnerNodes, left_child_index,
                  right_child_index
    <3>11. \A i \in DOMAIN partial_tree :
             partial_tree[i] = None \/ partial_tree[i] = Some(partial_tree[i][1])
      BY DEF SoundnessInv, TypeOK
    <3>12. partial_tree[x] = Some(digests[x])
      BY <3>4, <3>6, <3>9, <3>10, <3>11, Zenon
    <3>. QED
      BY <3>2, <3>12
  <2>2. /\ leaf_count + indices[k] \in Nat \ {0}
        /\ leaf_count + indices[k] \in leaf_count..(tree_size - 1)
    BY <1>1 DEF SoundnessInv, RequestOK, tree_size
  <2>3. leaf_count + indices[k] \in marked
    BY <1>1, <2>2 DEF SoundnessInv, MarkedLeaves
  <2>4. partial_tree[leaf_count + indices[k]] = Some(digests[leaf_count + indices[k]])
    BY <2>1, <2>2, <2>3
  <2>5. partial_tree[leaf_count + indices[k]] = Some(included[k])
    BY <1>1 DEF SoundnessInv, Filled
  <2>. QED
    BY <2>4, <2>5 DEF Some
<1>. QED
  BY <1>3, <1>4, <1>5 DEF SoundnessInv

-----------------------------------------------------------------------------
\* The steps that come before a verification leave verdict pending and the inner nodes
\* that build() has visited hashed.
LEMMA CommitterSound ==
    ASSUME SoundnessInv, TypeOK',
           \/ \E p \in 0..(leaf_count - 1), leaf \in Leaf : set_leaf(p, leaf)
           \/ start_build
           \/ build
           \/ start_prove
           \/ mark_tree("prove_mark", "prove")
           \/ prove
    PROVE  SoundnessInv'
<1>1. leaf_count \in Nat \ {0} /\ index \in 0..leaf_count
  BY LeafCountsAssumption DEF SoundnessInv, TypeOK
<1>2. /\ leaf_count' = leaf_count
      /\ pc' \in {"leaves", "build", "committed", "prove_mark", "prove", "proved"}
      /\ pc # "done" /\ verdict' = verdict
  BY DEF set_leaf, start_build, build, start_prove, mark_tree, prove
<1>3. RequestOK' /\ MarkedLeaves' /\ MarkedInner' /\ Placed' /\ Filled' /\ Hashed'
  BY <1>2 DEF RequestOK, MarkedLeaves, MarkedInner, Placed, Filled, Hashed, Verifying
<1>4. LoopRange'
  BY <1>1, <1>2 DEF SoundnessInv, LoopRange, set_leaf, start_build, build, start_prove,
                    mark_tree, prove
<1>5. Soundness'
  BY <1>2 DEF SoundnessInv, LoopRange, Soundness
<1>6. Built'
  <2>1. CASE pc' = "leaves"
    BY <2>1 DEF Built
  <2>2. CASE start_build
    BY <1>1, <2>2 DEF start_build, Built, Done, InnerNodes
  <2>3. CASE build
    <3> SUFFICES ASSUME NEW i \in InnerNodes, Done("build", i)'
                 PROVE  digests'[i] = hash_children(digests'[left_child_index(i)],
                                                    digests'[right_child_index(i)])
      BY <1>2 DEF Built, InnerNodes, left_child_index, right_child_index
    <3>0. /\ i \in DOMAIN digests /\ left_child_index(i) > i /\ right_child_index(i) > i
          /\ left_child_index(i) \in DOMAIN digests /\ right_child_index(i) \in DOMAIN digests
          /\ i \in 1..(leaf_count - 1) /\ pc = "build"
      BY <1>1, <2>3 DEF SoundnessInv, TypeOK, tree_size, InnerNodes, left_child_index,
                        right_child_index, build
    <3>1. CASE index > 0
      <4>1. /\ digests' = [digests EXCEPT ![index] =
                             hash_children(digests[left_child_index(index)],
                                           digests[right_child_index(index)])]
            /\ pc' = "build" /\ index' = index - 1
        BY <2>3, <3>1 DEF build
      <4>2. index - 1 < i
        BY <4>1 DEF Done
      <4>3. CASE i = index
        BY <1>1, <3>0, <4>1, <4>3
      <4>4. CASE i # index
        <5>1. index < i
          BY <1>1, <3>0, <4>2, <4>4
        <5>2. digests[i] = hash_children(digests[left_child_index(i)],
                                         digests[right_child_index(i)])
          BY <3>0, <5>1 DEF SoundnessInv, Built, Done
        <5>3. left_child_index(i) # index /\ right_child_index(i) # index
          BY <1>1, <3>0, <5>1
        <5>. QED
          BY <3>0, <4>1, <4>4, <5>2, <5>3
      <4>. QED
        BY <4>3, <4>4
    <3>2. CASE ~(index > 0)
      <4>1. digests' = digests /\ index < i
        BY <1>1, <2>3, <3>0, <3>2 DEF build
      <4>. QED
        BY <3>0, <4>1 DEF SoundnessInv, Built, Done
    <3>. QED
      BY <3>1, <3>2
  <2>4. CASE start_prove \/ mark_tree("prove_mark", "prove") \/ prove
    <3>1. digests' = digests /\ pc \notin {"leaves", "build"} /\ pc' \notin {"leaves", "build"}
      BY <2>4 DEF start_prove, mark_tree, prove
    <3>. QED
      BY <1>2, <3>1 DEF SoundnessInv, Built, Done, InnerNodes
  <2>. QED
    BY <2>1, <2>2, <2>3, <2>4 DEF set_leaf
<1>. QED
  BY <1>3, <1>4, <1>5, <1>6 DEF SoundnessInv

\* The loop invariants that soundness rests on.
LEMMA LoopInvariants == Spec => []SoundnessInv
<1>1. Init => SoundnessInv
  <2> SUFFICES ASSUME Init PROVE SoundnessInv
    OBVIOUS
  <2>1. TypeOK
    BY LeafCountsAssumption, SMTT(30) DEF Init, TypeOK, tree_size, Verdicts, None,
       DistinctIndices
  <2>. QED
    BY <2>1 DEF Init, SoundnessInv, LoopRange, Built, RequestOK, MarkedLeaves,
       MarkedInner, Placed, Filled, Hashed, Soundness, Verifying
<1>2. TypeOK' /\ SoundnessInv /\ [Next]_vars => SoundnessInv'
  <2> SUFFICES ASSUME TypeOK', SoundnessInv, [Next]_vars PROVE SoundnessInv'
    OBVIOUS
  <2>0. leaf_count \in Nat \ {0}
    BY LeafCountsAssumption DEF SoundnessInv, TypeOK
  <2>1. CASE receive_honest
    <3>1. PICK k \in 0..leaf_count : requested \in DistinctIndices(k, leaf_count)
      BY DEF SoundnessInv, TypeOK
    <3> DEFINE nodes == [j \in DOMAIN requested |-> digests[leaf_count + requested[j]]]
               values == {digests[leaf_count + requested[j]] : j \in DOMAIN requested}
    <3>2. DOMAIN requested = 1..k
      BY <3>1 DEF DistinctIndices
    <3>3. nodes \in [1..k -> values]
      BY <3>2
    <3>4. StartVerify(nodes, requested, proof) /\ pc = "proved"
      BY <2>1 DEF receive_honest
    <3>5. k \in Nat /\ leaf_count \in Nat
      BY <2>0
    <3> HIDE DEF nodes, values
    <3>. QED
      BY <3>1, <3>3, <3>4, <3>5, StartVerifySound
  <2>2. CASE receive_other
    <3>1. PICK k \in 1..leaf_count : \E m \in {k - 1, k} :
            \E positions \in DistinctIndices(k, leaf_count + 1), nodes \in [1..m -> Leaf] :
            \E len \in 0..leaf_count : \E p \in [1..len -> ProofNode] :
              StartVerify(nodes, positions, p)
      BY <2>2 DEF receive_other
    <3>2. PICK m \in {k - 1, k} :
            \E positions \in DistinctIndices(k, leaf_count + 1), nodes \in [1..m -> Leaf] :
            \E p : StartVerify(nodes, positions, p)
      BY <3>1
    <3>3. PICK positions \in DistinctIndices(k, leaf_count + 1), nodes \in [1..m -> Leaf] :
            \E p : StartVerify(nodes, positions, p)
      BY <3>2
    <3>4. PICK p : StartVerify(nodes, positions, p)
      BY <3>3
    <3>5. k \in Nat /\ m \in Nat /\ leaf_count + 1 \in Nat /\ pc = "committed"
      BY <2>0, <2>2, <3>2 DEF receive_other
    <3>. QED
      BY <3>3, <3>4, <3>5, StartVerifySound
  <2>3. CASE UNCHANGED vars
    BY <2>3 DEF vars, SoundnessInv, LoopRange, Built, RequestOK, MarkedLeaves,
       MarkedInner, Placed, Filled, Hashed, Soundness, Verifying, Done, InnerNodes, tree_size,
       NeedsSibling, Sibling
  <2>. QED
    BY <2>1, <2>2, <2>3, CommitterSound, MarkSound, PlaceSound, FillSound, HashSound,
       CompareSound DEF Next
<1>. QED
  BY <1>1, <1>2, TypeCorrect, PTL DEF Spec

\* Soundness of inclusion proofs: verify() accepts only the leaves the tree was built with,
\* for any tree and any proof.
THEOREM InclusionSound == Spec => []Soundness
<1>1. SoundnessInv => Soundness
  BY DEF SoundnessInv
<1>. QED
  BY <1>1, LoopInvariants, PTL

-----------------------------------------------------------------------------
(* Where verify() has a digest, and why it never overwrites one.           *)

\* A digest of the proof is the unmarked child of a marked node.
Supplied(j) == \E i \in InnerNodes : NeedsSibling(i) /\ j = Sibling(i)

\* Until it has filled in the leaves, verify() knows the nodes the proof supplied, of which
\* the loop has not reached the rest; then it knows marked nodes too, but no inner one that
\* is still to be hashed.
KnownInv ==
    \A j \in DOMAIN partial_tree : partial_tree[j] # None =>
        /\ pc \in {"verify_place", "verify_fill", "verify_hash", "done"}
        /\ pc = "verify_place" =>
              \E i \in InnerNodes : index < i /\ NeedsSibling(i) /\ j = Sibling(i)
        /\ pc = "verify_fill" => Supplied(j)
        /\ pc = "verify_hash" =>
              Supplied(j) \/ (j \in marked /\ ~(j \in InnerNodes /\ j <= index))

\* A node has one parent.
LEMMA OneParent ==
    ASSUME TypeOK, NEW i \in InnerNodes, NEW k \in InnerNodes,
           \/ Sibling(i) = left_child_index(k)
           \/ Sibling(i) = right_child_index(k)
    PROVE  i = k
<1>1. leaf_count \in Nat /\ i \in Nat /\ k \in Nat
  BY LeafCountsAssumption DEF TypeOK, InnerNodes
<1>2. Sibling(i) = left_child_index(i) \/ Sibling(i) = right_child_index(i)
  BY DEF Sibling
<1>. QED
  BY <1>1, <1>2 DEF left_child_index, right_child_index

\* What a node of the proof is placed over was None.
LEMMA PlaceKnown ==
    ASSUME SoundnessInv, KnownInv, place_proof
    PROVE  /\ KnownInv'
           /\ verdict' = "pending" => \A j \in DOMAIN partial_tree :
                 partial_tree[j] # None => partial_tree'[j] = partial_tree[j]
<1>1. /\ leaf_count \in Nat \ {0} /\ index \in 0..(leaf_count - 1) /\ pc = "verify_place"
      /\ TypeOK
  BY LeafCountsAssumption DEF SoundnessInv, TypeOK, LoopRange, place_proof
<1>2. UNCHANGED <<leaf_count, marked>>
  BY DEF place_proof
<1>3. CASE index > 0 /\ NeedsSibling(index) /\ cursor < Len(proof)
  <2>1. /\ partial_tree' = [partial_tree EXCEPT ![Sibling(index)] = Some(proof[cursor + 1])]
        /\ pc' = "verify_place" /\ index' = index - 1
    BY <1>1, <1>3 DEF place_proof
  <2>2. index \in InnerNodes /\ InnerNodes' = InnerNodes
    BY <1>1, <1>2, <1>3 DEF InnerNodes
  <2>3. Sibling(index) \in DOMAIN partial_tree => partial_tree[Sibling(index)] = None
    <3> SUFFICES ASSUME Sibling(index) \in DOMAIN partial_tree,
                        partial_tree[Sibling(index)] # None
                 PROVE  FALSE
      OBVIOUS
    <3>1. PICK i \in InnerNodes : index < i /\ Sibling(index) = Sibling(i)
      BY <1>1 DEF KnownInv
    <3>2. i = index
      BY <1>1, <2>2, <3>1, OneParent DEF Sibling
    <3>. QED
      BY <1>1, <3>1, <3>2
  <2>4. KnownInv'
    <3> SUFFICES ASSUME NEW j \in DOMAIN partial_tree, partial_tree'[j] # None
                 PROVE  \E i \in InnerNodes : index' < i /\ NeedsSibling(i) /\ j = Sibling(i)
      BY <1>2, <2>1, <2>2 DEF KnownInv, NeedsSibling, Sibling
    <3>1. CASE j = Sibling(index)
      BY <1>1, <1>3, <2>1, <2>2, <3>1
    <3>2. CASE j # Sibling(index)
      <4>1. partial_tree[j] # None
        BY <2>1, <3>2
      <4>2. PICK i \in InnerNodes : index < i /\ NeedsSibling(i) /\ j = Sibling(i)
        BY <1>1, <4>1 DEF KnownInv
      <4>3. index' < i
        BY <1>1, <2>1, <4>2 DEF InnerNodes
      <4>. QED
        BY <4>2, <4>3
    <3>. QED
      BY <3>1, <3>2
  <2>. QED
    BY <2>1, <2>3, <2>4
<1>4. CASE index > 0 /\ NeedsSibling(index) /\ ~(cursor < Len(proof))
  BY <1>1, <1>4 DEF place_proof, KnownInv
<1>5. CASE index > 0 /\ ~NeedsSibling(index)
  <2>1. pc' = "verify_place" /\ index' = index - 1 /\ partial_tree' = partial_tree
    BY <1>1, <1>5 DEF place_proof
  <2>2. KnownInv'
    <3> SUFFICES ASSUME NEW j \in DOMAIN partial_tree, partial_tree[j] # None
                 PROVE  \E i \in InnerNodes : index' < i /\ NeedsSibling(i) /\ j = Sibling(i)
      BY <1>2, <2>1 DEF KnownInv, NeedsSibling, Sibling, InnerNodes
    <3>1. PICK i \in InnerNodes : index < i /\ NeedsSibling(i) /\ j = Sibling(i)
      BY <1>1 DEF KnownInv
    <3>2. index' < i
      BY <1>1, <2>1, <3>1 DEF InnerNodes
    <3>. QED
      BY <3>1, <3>2
  <2>. QED
    BY <2>1, <2>2
<1>6. CASE ~(index > 0)
  <2>1. pc' = "verify_fill" /\ partial_tree' = partial_tree
    BY <1>1, <1>6 DEF place_proof
  <2>. QED
    BY <1>1, <1>2, <2>1 DEF KnownInv, Supplied, NeedsSibling, Sibling, InnerNodes
<1>. QED
  BY <1>3, <1>4, <1>5, <1>6

\* A leaf that is filled in is marked, so the proof did not supply it.
LEMMA FillKnown ==
    ASSUME SoundnessInv, KnownInv, fill_leaves
    PROVE  /\ KnownInv'
           /\ \A j \in DOMAIN partial_tree :
                 partial_tree[j] # None => partial_tree'[j] = partial_tree[j]
<1>1. /\ leaf_count \in Nat \ {0} /\ pc = "verify_fill" /\ pc' = "verify_hash" /\ Verifying
      /\ DOMAIN partial_tree = 0..(2 * leaf_count - 1)
  BY LeafCountsAssumption DEF SoundnessInv, TypeOK, fill_leaves, Verifying, tree_size
<1>2. UNCHANGED <<leaf_count, marked>>
  BY DEF fill_leaves
<1>3. ASSUME NEW j \in DOMAIN partial_tree, IncludedAt(j) # {}
      PROVE  j \in marked /\ j \notin InnerNodes
  <2>1. PICK k \in DOMAIN indices : j = leaf_count + indices[k]
    BY <1>3 DEF IncludedAt
  <2>2. indices[k] \in 0..(leaf_count - 1)
    BY <1>1 DEF SoundnessInv, RequestOK
  <2>3. j \in leaf_count..(tree_size - 1) /\ j \notin InnerNodes
    BY <1>1, <2>1, <2>2 DEF tree_size, InnerNodes
  <2>. QED
    BY <1>1, <2>1, <2>3 DEF SoundnessInv, MarkedLeaves
<1>4. ASSUME NEW j \in DOMAIN partial_tree, partial_tree[j] # None
      PROVE  Supplied(j) /\ j \notin marked
  <2>1. Supplied(j)
    BY <1>1, <1>4 DEF KnownInv
  <2>. QED
    BY <2>1 DEF Supplied, NeedsSibling
<1>5. \A j \in DOMAIN partial_tree : IncludedAt(j) = {} => partial_tree'[j] = partial_tree[j]
  BY DEF fill_leaves
<1>6. DOMAIN partial_tree' = DOMAIN partial_tree
  BY DEF fill_leaves
<1>7. KnownInv'
  <2> SUFFICES ASSUME NEW j \in DOMAIN partial_tree, partial_tree'[j] # None
               PROVE  (j \in marked /\ j \notin InnerNodes) \/ Supplied(j)
    BY <1>1, <1>2, <1>6 DEF KnownInv, Supplied, NeedsSibling, Sibling, InnerNodes
  <2>. QED
    BY <1>3, <1>4, <1>5
<1>. QED
  BY <1>3, <1>4, <1>5, <1>7

\* A node both of whose children are known has a marked child and is marked itself: it was
\* neither supplied nor hashed before.
LEMMA HashKnown ==
    ASSUME SoundnessInv, KnownInv, hash_partial
    PROVE  /\ KnownInv'
           /\ \A j \in DOMAIN partial_tree :
                 partial_tree[j] # None => partial_tree'[j] = partial_tree[j]
<1> DEFINE l == left_child_index(index)
           r == right_child_index(index)
           Known == partial_tree[l] # None /\ partial_tree[r] # None
<1>1. /\ leaf_count \in Nat \ {0} /\ index \in 1..(leaf_count - 1) /\ index' = index - 1
      /\ pc = "verify_hash" /\ pc' = "verify_hash" /\ Verifying /\ TypeOK
      /\ DOMAIN partial_tree = 0..(2 * leaf_count - 1) /\ index \in InnerNodes
  BY LeafCountsAssumption DEF SoundnessInv, TypeOK, LoopRange, hash_partial, Verifying,
     tree_size, InnerNodes
<1>2. UNCHANGED <<leaf_count, marked>>
  BY DEF hash_partial
<1>3. l \in DOMAIN partial_tree
  BY <1>1 DEF left_child_index
<1>4. index \in marked <=> l \in marked \/ r \in marked
  BY <1>1 DEF SoundnessInv, MarkedInner, Done
<1>5. Known => index \in marked
  <2> SUFFICES ASSUME partial_tree[l] # None, l \notin marked
               PROVE  index \in marked
    BY <1>4
  <2>1. PICK i \in InnerNodes : NeedsSibling(i) /\ l = Sibling(i)
    BY <1>1, <1>3 DEF KnownInv, Supplied
  <2>2. i = index
    BY <1>1, <2>1, OneParent
  <2>. QED
    BY <2>1, <2>2 DEF NeedsSibling
<1>6. Known => partial_tree[index] = None
  <2> SUFFICES ASSUME index \in marked, partial_tree[index] # None
               PROVE  FALSE
    BY <1>5
  <2>1. index \in DOMAIN partial_tree
    BY <1>1
  <2>2. Supplied(index)
    BY <1>1, <2>1 DEF KnownInv
  <2>. QED
    BY <2>2 DEF Supplied, NeedsSibling
<1>7. /\ Known => \A j \in DOMAIN partial_tree : j # index => partial_tree'[j] = partial_tree[j]
      /\ ~Known => partial_tree' = partial_tree
      /\ DOMAIN partial_tree' = DOMAIN partial_tree
  BY DEF hash_partial
<1> HIDE DEF Known
<1>8. KnownInv'
  <2> SUFFICES ASSUME NEW j \in DOMAIN partial_tree, partial_tree'[j] # None
               PROVE  Supplied(j) \/ (j \in marked /\ ~(j \in InnerNodes /\ j <= index'))
    BY <1>1, <1>2, <1>7 DEF KnownInv, Supplied, NeedsSibling, Sibling, InnerNodes
  <2>1. CASE partial_tree[j] # None
    <3>1. Supplied(j) \/ (j \in marked /\ ~(j \in InnerNodes /\ j <= index))
      BY <1>1, <2>1 DEF KnownInv
    <3>. QED
      BY <1>1, <3>1
  <2>2. CASE partial_tree[j] = None
    <3>1. j = index /\ j \in marked
      BY <1>5, <1>7, <2>2
    <3>. QED
      BY <1>1, <3>1
  <2>. QED
    BY <2>1, <2>2
<1>. QED
  BY <1>6, <1>7, <1>8

\* verify() never overwrites a digest it took from the proof or was given for a leaf, nor
\* one it computed: the node it writes to was None.
THEOREM DigestsStable == Spec => PartialTreeStable
<1>1. Init => KnownInv
  BY DEF Init, KnownInv
<1>2. SoundnessInv /\ KnownInv /\ [Next]_vars => KnownInv' /\ [KeepsDigests]_vars
  <2> SUFFICES ASSUME SoundnessInv, KnownInv, Next \/ UNCHANGED vars
               PROVE  KnownInv' /\ (KeepsDigests \/ UNCHANGED vars)
    OBVIOUS
  <2>1. CASE UNCHANGED vars
    BY <2>1 DEF vars, KnownInv, Supplied, NeedsSibling, Sibling, InnerNodes
  <2>2. CASE place_proof
    BY <2>2, PlaceKnown DEF KeepsDigests
  <2>3. CASE fill_leaves
    BY <2>3, FillKnown DEF KeepsDigests
  <2>4. CASE hash_partial
    BY <2>4, HashKnown DEF KeepsDigests
  <2>5. CASE compare_root
    BY <2>5 DEF compare_root, KnownInv, KeepsDigests
  <2>6. CASE receive_honest \/ receive_other
    <3>1. \A j \in DOMAIN partial_tree : partial_tree[j] = None
      BY <2>6 DEF receive_honest, receive_other, KnownInv
    <3>2. PICK nodes, positions, p : StartVerify(nodes, positions, p)
      BY <2>6 DEF receive_honest, receive_other
    <3>3. \A j \in DOMAIN partial_tree' : partial_tree'[j] = None
      BY <3>2 DEF StartVerify
    <3>. QED
      BY <3>1, <3>3 DEF KnownInv, KeepsDigests
  <2>7. CASE \/ \E p \in 0..(leaf_count - 1), leaf \in Leaf : set_leaf(p, leaf)
             \/ start_build \/ build \/ start_prove \/ prove
             \/ mark_tree("prove_mark", "prove") \/ mark_tree("verify_mark", "verify_place")
    <3>1. \A j \in DOMAIN partial_tree : partial_tree[j] = None
      BY <2>7 DEF KnownInv, set_leaf, start_build, build, start_prove, prove, mark_tree
    <3>2. partial_tree' = partial_tree
      BY <2>7 DEF set_leaf, start_build, build, start_prove, prove, mark_tree
    <3>. QED
      BY <3>1, <3>2 DEF KnownInv, KeepsDigests
  <2>. QED
    BY <2>1, <2>2, <2>3, <2>4, <2>5, <2>6, <2>7 DEF Next
<1>. QED
  BY <1>1, <1>2, LoopInvariants, PTL DEF Spec, PartialTreeStable

-----------------------------------------------------------------------------
(* What verify() is given of prove(), and why it accepts it.               *)

\* For a set M of marked nodes: the other child of i, the inner nodes from i on of which
\* the proof supplies a child, and their number.
SiblingIn(M, i) == IF left_child_index(i) \in M THEN right_child_index(i) ELSE left_child_index(i)
NeededFrom(M, i) == {j \in i..(leaf_count - 1) : j \in M /\ SiblingIn(M, j) \notin M}
Count(M, i) == Cardinality(NeededFrom(M, i))

\* What mark_tree marks: the leaves asked for, and the parents of what is marked.
LeavesMarked(M) ==
    /\ M \subseteq 1..(tree_size - 1)
    /\ \A i \in leaf_count..(tree_size - 1) :
         i \in M <=> \E k \in DOMAIN requested : i = leaf_count + requested[k]

ParentsMarked(M, i) ==
    \A j \in InnerNodes : i < j =>
        (j \in M <=> left_child_index(j) \in M \/ right_child_index(j) \in M)

\* The proof has the siblings of the nodes from i on, those further on first.
Lists(M, i) ==
    /\ proof \in Seq({digests[j] : j \in DOMAIN digests})
    /\ Len(proof) = Count(M, i)
    /\ \A j \in NeededFrom(M, i) : proof[Count(M, j)] = digests[SiblingIn(M, j)]

\* While prove() and then verify() work on a request: verify() marks what prove() marked,
\* has taken one digest for each node it passed, and knows digests of the tree only.
HonestInv ==
    /\ pc \in {"leaves", "build", "committed"} => requested = <<>>
    /\ requested # <<>> =>
       /\ pc \in {"prove_mark", "prove"} \/ Verifying => LeavesMarked(marked)
       /\ pc \in {"prove_mark", "verify_mark"} => ParentsMarked(marked, index)
       /\ pc \in {"prove", "verify_place", "verify_fill", "verify_hash"} =>
            ParentsMarked(marked, 0)
       /\ pc = "prove_mark" => proof = <<>>
       /\ pc = "prove" => Lists(marked, index + 1)
       /\ pc \in {"proved", "verify_mark"} =>
            \E M : LeavesMarked(M) /\ ParentsMarked(M, 0) /\ Lists(M, 1)
       /\ pc \in {"verify_place", "verify_fill", "verify_hash"} => Lists(marked, 1)
       /\ Verifying =>
            /\ indices = requested
            /\ included = [k \in DOMAIN requested |-> digests[leaf_count + requested[k]]]
            /\ \A i \in DOMAIN partial_tree :
                 partial_tree[i] = None \/ partial_tree[i] = Some(digests[i])
       /\ pc = "verify_mark" => cursor = 0
       /\ pc = "verify_place" => cursor = Count(marked, index + 1)
       /\ pc \in {"verify_fill", "verify_hash"} => cursor = Len(proof)
       /\ Completeness

\* The leaves asked for decide what is marked: a last node at which two markings differ is
\* an inner one, and its children are marked alike.
LEMMA SameMarking ==
    ASSUME TypeOK, NEW M, NEW N, LeavesMarked(M), LeavesMarked(N),
           ParentsMarked(M, 0), ParentsMarked(N, 0)
    PROVE  M = N
<1>1. leaf_count \in Nat \ {0} /\ tree_size = 2 * leaf_count
  BY LeafCountsAssumption DEF TypeOK, tree_size
<1> DEFINE Differ == {x \in Nat : 2 * leaf_count - x \in M <=> ~(2 * leaf_count - x \in N)}
<1>2. Differ # {} => FALSE
  <2> SUFFICES ASSUME Differ # {} PROVE FALSE
    OBVIOUS
  <2>1. PICK x \in Differ : \A y \in Differ : x <= y
    <3> HIDE DEF Differ
    <3>1. Differ \in SUBSET Nat
      BY DEF Differ
    <3> QED
      BY <3>1, LeastElement
  <2> DEFINE i == 2 * leaf_count - x
  <2>2. i \in 1..(2 * leaf_count - 1) /\ (i \in M <=> ~(i \in N)) /\ x = 2 * leaf_count - i
    BY <1>1 DEF LeavesMarked
  <2>3. ASSUME NEW j \in Nat, i < j, j <= 2 * leaf_count PROVE j \in M <=> j \in N
    <3>1. 2 * leaf_count - j \in Nat /\ 2 * leaf_count - (2 * leaf_count - j) = j
      BY <1>1, <2>3
    <3>2. ~(x <= 2 * leaf_count - j)
      BY <1>1, <2>2, <2>3
    <3> QED
      BY <2>1, <3>1, <3>2
  <2> HIDE DEF i, Differ
  <2>4. CASE i >= leaf_count
    BY <1>1, <2>2, <2>4 DEF LeavesMarked
  <2>5. CASE i < leaf_count
    <3>1. i \in InnerNodes /\ 0 < i
      BY <1>1, <2>2, <2>5 DEF InnerNodes
    <3>2. /\ left_child_index(i) \in Nat /\ i < left_child_index(i)
          /\ left_child_index(i) <= 2 * leaf_count
          /\ right_child_index(i) \in Nat /\ i < right_child_index(i)
          /\ right_child_index(i) <= 2 * leaf_count
      BY <1>1, <2>2, <2>5 DEF left_child_index, right_child_index
    <3>3. /\ left_child_index(i) \in M <=> left_child_index(i) \in N
          /\ right_child_index(i) \in M <=> right_child_index(i) \in N
      BY <2>3, <3>2
    <3> QED
      BY <2>2, <3>1, <3>3 DEF ParentsMarked
  <2> QED
    BY <1>1, <2>2, <2>4, <2>5
<1>3. ASSUME NEW i \in 1..(2 * leaf_count - 1) PROVE i \in M <=> i \in N
  <2>1. 2 * leaf_count - i \in Nat /\ 2 * leaf_count - (2 * leaf_count - i) = i
    BY <1>1
  <2> QED
    BY <1>2, <2>1
<1> QED
  BY <1>1, <1>3 DEF LeavesMarked

\* Some leaf is marked, and so the root: the first marked node has no parent.
LEMMA RootMarked ==
    ASSUME TypeOK, NEW M, LeavesMarked(M), ParentsMarked(M, 0), requested # <<>>
    PROVE  1 \in M
<1>1. leaf_count \in Nat \ {0} /\ tree_size = 2 * leaf_count
  BY LeafCountsAssumption DEF TypeOK, tree_size
<1>2. M \in SUBSET Nat /\ M # {}
  <2>1. PICK k \in 0..leaf_count : requested \in DistinctIndices(k, leaf_count)
    BY DEF TypeOK
  <2>2. k # 0
    BY <2>1 DEF DistinctIndices
  <2>3. 1 \in DOMAIN requested /\ requested[1] \in 0..(leaf_count - 1)
    BY <1>1, <2>1, <2>2 DEF DistinctIndices
  <2>4. leaf_count + requested[1] \in leaf_count..(tree_size - 1)
    BY <1>1, <2>3
  <2>5. leaf_count + requested[1] \in M
    BY <2>3, <2>4 DEF LeavesMarked
  <2> QED
    BY <1>1, <2>5 DEF LeavesMarked
<1>3. PICK x \in M : \A y \in M : x <= y
  BY <1>2, LeastElement
<1>4. x \in 1..(2 * leaf_count - 1)
  BY <1>1 DEF LeavesMarked
<1>5. CASE x > 1
  <2>1. PICK p \in Nat : x = 2 * p \/ x = 2 * p + 1
    <3>1. x \div 2 \in Nat /\ (x = 2 * (x \div 2) \/ x = 2 * (x \div 2) + 1)
      BY <1>4
    <3> QED
      BY <3>1
  <2>2. p \in InnerNodes /\ 0 < p /\ p < x
    BY <1>1, <1>4, <1>5, <2>1 DEF InnerNodes
  <2>3. p \in M
    BY <2>1, <2>2 DEF ParentsMarked, left_child_index, right_child_index
  <2> QED
    BY <1>2, <1>3, <2>2, <2>3
<1> QED
  BY <1>4, <1>5

\* The number of siblings needed goes up by one at a node that needs one.
LEMMA CountStep ==
    ASSUME TypeOK, NEW M, NEW i \in Nat
    PROVE  /\ Count(M, i) \in Nat
           /\ i \in NeededFrom(M, i) => Count(M, i) = Count(M, i + 1) + 1
           /\ i \notin NeededFrom(M, i) => NeededFrom(M, i) = NeededFrom(M, i + 1)
<1>1. leaf_count \in Nat
  BY LeafCountsAssumption DEF TypeOK
<1>2. ASSUME NEW j \in Nat PROVE IsFiniteSet(NeededFrom(M, j))
  <2>1. IsFiniteSet(j..(leaf_count - 1))
    BY <1>1, FS_Interval
  <2>2. NeededFrom(M, j) \in SUBSET (j..(leaf_count - 1))
    BY DEF NeededFrom
  <2> QED
    BY <2>1, <2>2, FS_Subset
<1>3. Count(M, i) \in Nat
  BY <1>2, FS_CardinalityType DEF Count
<1>4. ASSUME i \in NeededFrom(M, i) PROVE Count(M, i) = Count(M, i + 1) + 1
  <2>1. NeededFrom(M, i) = NeededFrom(M, i + 1) \cup {i}
    BY <1>1, <1>4 DEF NeededFrom
  <2>2. i \notin NeededFrom(M, i + 1) /\ IsFiniteSet(NeededFrom(M, i + 1))
    BY <1>1, <1>2 DEF NeededFrom
  <2>3. Cardinality(NeededFrom(M, i + 1) \cup {i}) = Cardinality(NeededFrom(M, i + 1)) + 1
    BY <2>2, FS_AddElement
  <2> QED
    BY <2>1, <2>3 DEF Count
<1>5. i \notin NeededFrom(M, i) => NeededFrom(M, i) = NeededFrom(M, i + 1)
  BY <1>1 DEF NeededFrom
<1> QED
  BY <1>3, <1>4, <1>5

\* From a node further on, fewer siblings are needed.
LEMMA CountMonotone ==
    ASSUME TypeOK, NEW M, NEW i \in Nat, NEW j \in Nat, i <= j
    PROVE  NeededFrom(M, j) \subseteq NeededFrom(M, i) /\ Count(M, j) <= Count(M, i)
<1>1. leaf_count \in Nat
  BY LeafCountsAssumption DEF TypeOK
<1>2. NeededFrom(M, j) \in SUBSET NeededFrom(M, i)
  BY <1>1 DEF NeededFrom
<1>3. IsFiniteSet(NeededFrom(M, i))
  <2>1. IsFiniteSet(i..(leaf_count - 1))
    BY <1>1, FS_Interval
  <2>2. NeededFrom(M, i) \in SUBSET (i..(leaf_count - 1))
    BY DEF NeededFrom
  <2> QED
    BY <2>1, <2>2, FS_Subset
<1> QED
  BY <1>2, <1>3, FS_Subset DEF Count

\* Before a request and after it there is nothing to say but how it ended.
LEMMA NoRequest ==
    ASSUME HonestInv, SoundnessInv,
           \/ \E p \in 0..(leaf_count - 1), leaf \in Leaf : set_leaf(p, leaf)
           \/ start_build
           \/ build
           \/ receive_other
    PROVE  HonestInv'
<1>1. pc \in {"leaves", "build", "committed"}
  BY DEF set_leaf, start_build, build, receive_other
<1>2. requested' = <<>>
  BY <1>1 DEF HonestInv, set_leaf, start_build, build, receive_other, StartVerify
<1> QED
  BY <1>2 DEF HonestInv

\* prove() begins with the leaves asked for marked, and no others.
LEMMA StartProveHonest ==
    ASSUME SoundnessInv, start_prove
    PROVE  HonestInv'
<1>1. leaf_count \in Nat \ {0} /\ leaf_count' = leaf_count
  BY LeafCountsAssumption DEF SoundnessInv, TypeOK, start_prove
<1>2. PICK k \in 1..leaf_count : \E s \in DistinctIndices(k, leaf_count) :
        requested' = s /\ marked' = MarkLeaves(s)
  BY DEF start_prove
<1>3. PICK s \in DistinctIndices(k, leaf_count) : requested' = s /\ marked' = MarkLeaves(s)
  BY <1>2
<1>4. /\ pc' = "prove_mark" /\ proof' = <<>> /\ index' = leaf_count - 1
  BY DEF start_prove
<1>5. \A j \in DOMAIN s : s[j] \in 0..(leaf_count - 1)
  BY <1>3 DEF DistinctIndices
<1>6. LeavesMarked(marked)'
  <2>1. marked' \subseteq 1..(2 * leaf_count - 1)
    BY <1>1, <1>3, <1>5 DEF MarkLeaves
  <2> QED
    BY <1>1, <1>3, <2>1 DEF LeavesMarked, MarkLeaves, tree_size
<1>7. ParentsMarked(marked, index)'
  BY <1>1, <1>4 DEF ParentsMarked, InnerNodes
<1> QED
  BY <1>4, <1>6, <1>7 DEF HonestInv, Verifying, Completeness

\* An iteration of mark_tree marks a parent, and no leaf.
LEMMA MarkHonest ==
    ASSUME TypeOK, NEW from, NEW to, mark_tree(from, to), index \in 0..(leaf_count - 1),
           LeavesMarked(marked), ParentsMarked(marked, index)
    PROVE  /\ LeavesMarked(marked)'
           /\ index > 0 => pc' = from /\ ParentsMarked(marked, index)'
           /\ index = 0 => /\ pc' = to /\ ParentsMarked(marked, 0)'
                           /\ index' = leaf_count - 1 /\ marked' = marked
<1>1. leaf_count \in Nat \ {0} /\ tree_size = 2 * leaf_count
  BY LeafCountsAssumption DEF TypeOK, tree_size
<1>2. /\ UNCHANGED <<leaf_count, requested>> /\ tree_size' = tree_size
      /\ InnerNodes' = InnerNodes /\ pc = from
  BY DEF mark_tree, tree_size, InnerNodes
<1>3. CASE index > 0
  <2>1. /\ marked' = IF \/ left_child_index(index) \in marked
                        \/ right_child_index(index) \in marked
                     THEN marked \cup {index} ELSE marked \ {index}
        /\ index' = index - 1 /\ pc' = pc
    BY <1>3 DEF mark_tree
  <2>2. \A i \in Nat : i # index => (i \in marked' <=> i \in marked)
    BY <2>1
  <2>3. LeavesMarked(marked)'
    <3>1. marked' \subseteq 1..(tree_size - 1)
      BY <1>1, <1>3, <2>1 DEF LeavesMarked
    <3>2. \A i \in leaf_count..(tree_size - 1) : i \in marked' <=> i \in marked
      BY <1>1, <2>2
    <3> QED
      BY <1>2, <3>1, <3>2 DEF LeavesMarked
  <2>4. ASSUME NEW j \in InnerNodes, index - 1 < j
        PROVE  j \in marked' <=> \/ left_child_index(j) \in marked'
                                 \/ right_child_index(j) \in marked'
    <3>1. /\ left_child_index(j) \in Nat /\ left_child_index(j) # index
          /\ right_child_index(j) \in Nat /\ right_child_index(j) # index
      BY <1>1, <1>3, <2>4 DEF InnerNodes, left_child_index, right_child_index
    <3>2. /\ left_child_index(j) \in marked' <=> left_child_index(j) \in marked
          /\ right_child_index(j) \in marked' <=> right_child_index(j) \in marked
      BY <2>2, <3>1
    <3>3. CASE j = index
      BY <2>1, <3>2, <3>3
    <3>4. CASE j # index
      <4>1. j \in Nat /\ index < j
        BY <1>1, <2>4, <3>4 DEF InnerNodes
      <4>2. j \in marked' <=> j \in marked
        BY <2>2, <3>4, <4>1
      <4> QED
        BY <2>4, <3>2, <4>1, <4>2 DEF ParentsMarked
    <3> QED
      BY <3>3, <3>4
  <2>5. ParentsMarked(marked, index)'
    BY <1>2, <2>1, <2>4 DEF ParentsMarked, left_child_index, right_child_index
  <2> QED
    BY <1>1, <1>2, <1>3, <2>1, <2>3, <2>5
<1>4. CASE index = 0
  <2>1. pc' = to /\ index' = leaf_count - 1 /\ marked' = marked
    BY <1>4 DEF mark_tree
  <2>2. LeavesMarked(marked)' /\ ParentsMarked(marked, 0)'
    BY <1>2, <1>4, <2>1 DEF LeavesMarked, ParentsMarked, left_child_index, right_child_index
  <2> QED
    BY <1>4, <2>1, <2>2
<1> QED
  BY <1>3, <1>4

\* mark_tree in prove(), which has written nothing yet.
LEMMA ProveMarkHonest ==
    ASSUME HonestInv, SoundnessInv, mark_tree("prove_mark", "prove")
    PROVE  HonestInv'
<1> SUFFICES ASSUME requested' # <<>> PROVE HonestInv'
  BY DEF HonestInv, mark_tree
<1>1. /\ pc = "prove_mark" /\ requested' = requested /\ requested # <<>> /\ TypeOK
      /\ index \in 0..(leaf_count - 1) /\ leaf_count \in Nat \ {0}
      /\ proof = <<>> /\ proof' = <<>> /\ UNCHANGED <<leaf_count, digests>>
      /\ LeavesMarked(marked) /\ ParentsMarked(marked, index)
  BY LeafCountsAssumption DEF mark_tree, HonestInv, SoundnessInv, LoopRange, TypeOK
<1>2. CASE index > 0
  BY <1>1, <1>2, MarkHonest DEF HonestInv, Verifying, Completeness
<1>3. CASE index = 0
  <2>1. /\ pc' = "prove" /\ index' = leaf_count - 1 /\ marked' = marked
        /\ LeavesMarked(marked)' /\ ParentsMarked(marked, 0)'
    BY <1>1, <1>3, MarkHonest
  <2>2. NeededFrom(marked, index + 1)' = {}
    BY <1>1, <2>1 DEF NeededFrom
  <2>3. Count(marked, index + 1)' = 0
    BY <2>2, FS_EmptySet DEF Count
  <2>4. Lists(marked, index + 1)'
    <3>1. <<>> \in Seq({digests[j] : j \in DOMAIN digests}) /\ Len(<<>>) = 0
      OBVIOUS
    <3> QED
      BY <1>1, <2>2, <2>3, <3>1 DEF Lists
  <2> QED
    BY <2>1, <2>4 DEF HonestInv, Verifying, Completeness
<1> QED
  BY <1>1, <1>2, <1>3

\* An iteration of prove() appends the sibling of a node that needs it.
LEMMA ProveHonest ==
    ASSUME HonestInv, SoundnessInv, prove
    PROVE  HonestInv'
<1> SUFFICES ASSUME requested' # <<>> PROVE HonestInv'
  BY DEF HonestInv, prove
<1>1. /\ pc = "prove" /\ requested' = requested /\ requested # <<>> /\ TypeOK
      /\ index \in 0..(leaf_count - 1) /\ leaf_count \in Nat \ {0}
      /\ UNCHANGED <<leaf_count, digests, marked>>
      /\ LeavesMarked(marked) /\ ParentsMarked(marked, 0) /\ Lists(marked, index + 1)
  BY LeafCountsAssumption DEF prove, HonestInv, SoundnessInv, LoopRange, TypeOK
<1>2. LeavesMarked(marked)' /\ ParentsMarked(marked, 0)'
  BY <1>1 DEF LeavesMarked, ParentsMarked, tree_size, InnerNodes, left_child_index,
              right_child_index
<1>3. CASE index > 0
  <2>1. /\ pc' = "prove" /\ index' = index - 1 /\ index' + 1 = index
        /\ proof' = IF NeedsSibling(index) THEN Append(proof, digests[Sibling(index)]) ELSE proof
    BY <1>1, <1>3 DEF prove
  <2>2. /\ NeedsSibling(index) <=> index \in NeededFrom(marked, index)
        /\ Sibling(index) = SiblingIn(marked, index)
    BY <1>1 DEF NeedsSibling, Sibling, SiblingIn, NeededFrom
  <2>3. Lists(marked, index + 1)' <=>
          /\ proof' \in Seq({digests[j] : j \in DOMAIN digests})
          /\ Len(proof') = Count(marked, index)
          /\ \A j \in NeededFrom(marked, index) :
               proof'[Count(marked, j)] = digests[SiblingIn(marked, j)]
    BY <1>1, <2>1 DEF Lists, Count, NeededFrom, SiblingIn, left_child_index, right_child_index
  <2>4. CASE index \in NeededFrom(marked, index)
    <3>1. /\ Count(marked, index) \in Nat /\ Count(marked, index + 1) \in Nat
          /\ Count(marked, index) = Count(marked, index + 1) + 1
      BY <1>1, <2>4, CountStep
    <3>2. digests[Sibling(index)] \in {digests[j] : j \in DOMAIN digests}
      <4>1. Sibling(index) \in DOMAIN digests
        BY <1>1, <1>3, SiblingIsChild DEF InnerNodes, TypeOK
      <4> QED
        BY <4>1
    <3>3. /\ proof' \in Seq({digests[j] : j \in DOMAIN digests})
          /\ Len(proof') = Count(marked, index)
          /\ proof'[Count(marked, index)] = digests[SiblingIn(marked, index)]
          /\ \A n \in 1..Count(marked, index + 1) : proof'[n] = proof[n]
      BY <1>1, <2>1, <2>2, <2>4, <3>1, <3>2 DEF Lists
    <3>4. ASSUME NEW j \in NeededFrom(marked, index)
          PROVE  proof'[Count(marked, j)] = digests[SiblingIn(marked, j)]
      <4>1. CASE j = index
        BY <3>3, <4>1
      <4>2. CASE j # index
        <5>1. j \in Nat /\ j >= index + 1 /\ j \in NeededFrom(marked, index + 1)
              /\ j \in NeededFrom(marked, j)
          BY <1>1, <4>2 DEF NeededFrom
        <5>2. Count(marked, j) <= Count(marked, index + 1)
          BY <1>1, <5>1, CountMonotone
        <5>3. Count(marked, j) \in Nat /\ Count(marked, j + 1) \in Nat
          BY <1>1, <5>1, CountStep
        <5>4. Count(marked, j) = Count(marked, j + 1) + 1
          BY <1>1, <5>1, CountStep
        <5>5. Count(marked, j) \in 1..Count(marked, index + 1)
          BY <3>1, <5>2, <5>3, <5>4
        <5> QED
          BY <1>1, <3>3, <5>1, <5>5 DEF Lists
      <4> QED
        BY <4>1, <4>2
    <3> QED
      BY <1>2, <2>1, <2>3, <3>3, <3>4 DEF HonestInv, Verifying, Completeness
  <2>5. CASE index \notin NeededFrom(marked, index)
    <3>1. NeededFrom(marked, index) = NeededFrom(marked, index + 1)
      BY <1>1, <2>5, CountStep
    <3>2. Lists(marked, index + 1)'
      BY <1>1, <2>1, <2>2, <2>3, <2>5, <3>1 DEF Lists, Count
    <3> QED
      BY <1>2, <2>1, <3>2 DEF HonestInv, Verifying, Completeness
  <2> QED
    BY <2>4, <2>5
<1>4. CASE index = 0
  <2>1. pc' = "proved" /\ proof' = proof /\ index' = index
    BY <1>1, <1>4 DEF prove
  <2>2. Lists(marked, 1)'
    <3>1. index + 1 = 1
      BY <1>4
    <3>2. Lists(marked, 1)
      BY <1>1, <3>1
    <3>3. \A i : NeededFrom(marked, i)' = NeededFrom(marked, i)
      BY <1>1 DEF NeededFrom, SiblingIn, left_child_index, right_child_index
    <3> QED
      BY <1>1, <2>1, <3>2, <3>3 DEF Lists, Count, SiblingIn, left_child_index,
                                    right_child_index
  <2>3. (\E M : LeavesMarked(M) /\ ParentsMarked(M, 0) /\ Lists(M, 1))'
    BY <1>2, <2>2
  <2> QED
    BY <2>1, <2>3 DEF HonestInv, Verifying, Completeness
<1> QED
  BY <1>1, <1>3, <1>4

\* verify() is given the leaves asked for, and the proof as prove() left it.
LEMMA ReceiveHonest ==
    ASSUME HonestInv, SoundnessInv, receive_honest
    PROVE  HonestInv'
<1> SUFFICES ASSUME requested' # <<>> PROVE HonestInv'
  BY DEF HonestInv, receive_honest, StartVerify
<1> DEFINE leaves == [k \in DOMAIN requested |-> digests[leaf_count + requested[k]]]
<1>1. /\ pc = "proved" /\ TypeOK /\ leaf_count \in Nat \ {0}
      /\ StartVerify(leaves, requested, proof)
  BY LeafCountsAssumption DEF receive_honest, SoundnessInv, TypeOK
<1>2. PICK k \in 0..leaf_count : requested \in DistinctIndices(k, leaf_count)
  BY <1>1 DEF TypeOK
<1>3. /\ Len(leaves) = Len(requested) /\ DOMAIN requested = 1..k
      /\ \A j \in DOMAIN requested : requested[j] \in 0..(leaf_count - 1)
  BY <1>1, <1>2 DEF DistinctIndices
<1>4. \A j \in DOMAIN requested : requested[j] < leaf_count
  BY <1>1, <1>3
<1> HIDE DEF leaves
<1>5. /\ requested' = requested /\ requested # <<>> /\ UNCHANGED <<leaf_count, digests>>
      /\ proof' = proof /\ cursor' = 0 /\ included' = leaves /\ indices' = requested
      /\ index' = leaf_count - 1 /\ marked' = MarkLeaves(requested) /\ pc' = "verify_mark"
      /\ partial_tree' = [i \in 0..(tree_size - 1) |-> None]
  BY <1>1, <1>3, <1>4 DEF StartVerify
<1>6. LeavesMarked(marked)'
  <2>1. marked' \subseteq 1..(2 * leaf_count - 1)
    BY <1>1, <1>3, <1>5 DEF MarkLeaves
  <2> QED
    BY <1>1, <1>5, <2>1 DEF LeavesMarked, MarkLeaves, tree_size
<1>7. ParentsMarked(marked, index)'
  BY <1>1, <1>5 DEF ParentsMarked, InnerNodes
<1>8. (\E M : LeavesMarked(M) /\ ParentsMarked(M, 0) /\ Lists(M, 1))'
  <2>1. PICK M : LeavesMarked(M) /\ ParentsMarked(M, 0) /\ Lists(M, 1)
    BY <1>1, <1>5 DEF HonestInv
  <2>2. LeavesMarked(M)' /\ ParentsMarked(M, 0)'
    BY <1>5, <2>1 DEF LeavesMarked, ParentsMarked, tree_size, InnerNodes, left_child_index,
                      right_child_index
  <2>3. \A i : NeededFrom(M, i)' = NeededFrom(M, i)
    BY <1>5 DEF NeededFrom, SiblingIn, left_child_index, right_child_index
  <2>4. Lists(M, 1)'
    BY <1>5, <2>1, <2>3 DEF Lists, Count, SiblingIn, left_child_index, right_child_index
  <2> QED
    BY <2>2, <2>4
<1> QED
  BY <1>5, <1>6, <1>7, <1>8 DEF HonestInv, Verifying, Completeness, leaves

\* mark_tree in verify() marks what it marked in prove().
LEMMA VerifyMarkHonest ==
    ASSUME HonestInv, SoundnessInv, mark_tree("verify_mark", "verify_place")
    PROVE  HonestInv'
<1> SUFFICES ASSUME requested' # <<>> PROVE HonestInv'
  BY DEF HonestInv, mark_tree
<1>1. /\ pc = "verify_mark" /\ requested' = requested /\ requested # <<>> /\ TypeOK
      /\ index \in 0..(leaf_count - 1) /\ leaf_count \in Nat \ {0} /\ Verifying
      /\ UNCHANGED <<leaf_count, digests, proof, cursor, included, indices, partial_tree>>
  BY LeafCountsAssumption DEF mark_tree, HonestInv, SoundnessInv, LoopRange, TypeOK, Verifying
<1>2. /\ LeavesMarked(marked) /\ ParentsMarked(marked, index) /\ cursor = 0
      /\ indices = requested
      /\ included = [k \in DOMAIN requested |-> digests[leaf_count + requested[k]]]
      /\ \A i \in DOMAIN partial_tree : partial_tree[i] = None \/ partial_tree[i] = Some(digests[i])
  BY <1>1 DEF HonestInv
<1>3. PICK M : LeavesMarked(M) /\ ParentsMarked(M, 0) /\ Lists(M, 1)
  BY <1>1 DEF HonestInv
<1>4. /\ LeavesMarked(M)' /\ ParentsMarked(M, 0)' /\ Lists(M, 1)'
      /\ \A i : NeededFrom(M, i)' = NeededFrom(M, i)
  <2>1. LeavesMarked(M)' /\ ParentsMarked(M, 0)'
    BY <1>1, <1>3 DEF LeavesMarked, ParentsMarked, tree_size, InnerNodes, left_child_index,
                      right_child_index
  <2>2. \A i : NeededFrom(M, i)' = NeededFrom(M, i)
    BY <1>1 DEF NeededFrom, SiblingIn, left_child_index, right_child_index
  <2>3. Lists(M, 1)'
    BY <1>1, <1>3, <2>2 DEF Lists, Count, SiblingIn, left_child_index, right_child_index
  <2> QED
    BY <2>1, <2>2, <2>3
<1>5. CASE index > 0
  <2>1. /\ pc' = "verify_mark" /\ LeavesMarked(marked)' /\ ParentsMarked(marked, index)'
    BY <1>1, <1>2, <1>5, MarkHonest
  <2>2. (\E N : LeavesMarked(N) /\ ParentsMarked(N, 0) /\ Lists(N, 1))'
    BY <1>4
  <2> QED
    BY <1>1, <1>2, <2>1, <2>2 DEF HonestInv, Verifying, Completeness
<1>6. CASE index = 0
  <2>1. /\ pc' = "verify_place" /\ index' = leaf_count - 1 /\ marked' = marked
        /\ LeavesMarked(marked)' /\ ParentsMarked(marked, 0)'
    BY <1>1, <1>2, <1>6, MarkHonest
  <2>2. marked = M
    BY <1>1, <1>2, <1>3, <1>6, SameMarking
  <2>3. Lists(marked, 1)'
    BY <1>4, <2>1, <2>2
  <2>4. Count(marked, index + 1)' = 0
    <3>1. NeededFrom(marked, index + 1)' = {}
      BY <1>1, <2>1 DEF NeededFrom
    <3> QED
      BY <3>1, FS_EmptySet DEF Count
  <2> QED
    BY <1>1, <1>2, <2>1, <2>3, <2>4 DEF HonestInv, Verifying, Completeness
<1> QED
  BY <1>1, <1>5, <1>6

\* Each node that needs a sibling finds in the proof the one prove() put there for it.
LEMMA PlaceHonest ==
    ASSUME HonestInv, SoundnessInv, place_proof
    PROVE  HonestInv'
<1> SUFFICES ASSUME requested' # <<>> PROVE HonestInv'
  BY DEF HonestInv, place_proof
<1>1. /\ pc = "verify_place" /\ requested' = requested /\ requested # <<>> /\ TypeOK
      /\ index \in 0..(leaf_count - 1) /\ leaf_count \in Nat \ {0} /\ Verifying
      /\ UNCHANGED <<leaf_count, digests, marked, proof, included, indices>>
  BY LeafCountsAssumption DEF place_proof, HonestInv, SoundnessInv, LoopRange, TypeOK, Verifying
<1>2. /\ LeavesMarked(marked) /\ ParentsMarked(marked, 0) /\ Lists(marked, 1)
      /\ cursor = Count(marked, index + 1) /\ indices = requested
      /\ included = [k \in DOMAIN requested |-> digests[leaf_count + requested[k]]]
      /\ \A i \in DOMAIN partial_tree : partial_tree[i] = None \/ partial_tree[i] = Some(digests[i])
  BY <1>1 DEF HonestInv
<1>3. /\ LeavesMarked(marked)' /\ ParentsMarked(marked, 0)' /\ Lists(marked, 1)'
      /\ \A i : NeededFrom(marked, i)' = NeededFrom(marked, i)
  <2>1. LeavesMarked(marked)' /\ ParentsMarked(marked, 0)'
    BY <1>1, <1>2 DEF LeavesMarked, ParentsMarked, tree_size, InnerNodes, left_child_index,
                      right_child_index
  <2>2. \A i : NeededFrom(marked, i)' = NeededFrom(marked, i)
    BY <1>1 DEF NeededFrom, SiblingIn, left_child_index, right_child_index
  <2>3. Lists(marked, 1)'
    BY <1>1, <1>2, <2>2 DEF Lists, Count, SiblingIn, left_child_index, right_child_index
  <2> QED
    BY <2>1, <2>2, <2>3
<1>4. /\ NeedsSibling(index) /\ index > 0 <=> index \in NeededFrom(marked, index) /\ index > 0
      /\ Sibling(index) = SiblingIn(marked, index)
  BY <1>1 DEF NeedsSibling, Sibling, SiblingIn, NeededFrom
<1>5. /\ Count(marked, index) \in Nat /\ Count(marked, index + 1) \in Nat
      /\ index \in NeededFrom(marked, index) => Count(marked, index) = Count(marked, index + 1) + 1
      /\ index \notin NeededFrom(marked, index) => Count(marked, index) = Count(marked, index + 1)
  BY <1>1, CountStep DEF Count
<1>6. CASE index > 0 /\ NeedsSibling(index)
  <2>1. Count(marked, index) <= Len(proof) /\ index \in NeededFrom(marked, 1)
    BY <1>1, <1>2, <1>4, <1>6, CountMonotone DEF Lists
  <2>2. Len(proof) \in Nat /\ cursor < Len(proof) /\ cursor + 1 = Count(marked, index)
    BY <1>2, <1>4, <1>5, <1>6, <2>1 DEF Lists
  <2>3. proof[cursor + 1] = digests[Sibling(index)]
    BY <1>2, <1>4, <2>1, <2>2 DEF Lists
  <2>4. /\ partial_tree' = [partial_tree EXCEPT ![Sibling(index)] = Some(proof[cursor + 1])]
        /\ cursor' = cursor + 1 /\ index' = index - 1 /\ pc' = pc
    BY <1>1, <1>6, <2>2 DEF place_proof
  <2>5. cursor' = Count(marked, index + 1)'
    <3>1. index' + 1 = index
      BY <1>1, <2>4
    <3> QED
      BY <1>1, <1>3, <2>2, <2>4, <3>1 DEF Count
  <2>6. \A i \in DOMAIN partial_tree' :
          partial_tree'[i] = None \/ partial_tree'[i] = Some(digests[i])
    BY <1>2, <2>3, <2>4
  <2> QED
    BY <1>1, <1>2, <1>3, <2>4, <2>5, <2>6 DEF HonestInv, Verifying, Completeness
<1>7. CASE index > 0 /\ ~NeedsSibling(index)
  <2>1. /\ partial_tree' = partial_tree /\ cursor' = cursor /\ index' = index - 1 /\ pc' = pc
    BY <1>1, <1>7 DEF place_proof
  <2>2. cursor' = Count(marked, index + 1)'
    <3>1. index' + 1 = index
      BY <1>1, <2>1
    <3> QED
      BY <1>1, <1>2, <1>3, <1>4, <1>5, <1>7, <2>1, <3>1 DEF Count
  <2> QED
    BY <1>1, <1>2, <1>3, <2>1, <2>2 DEF HonestInv, Verifying, Completeness
<1>8. CASE index = 0
  <2>1. /\ partial_tree' = partial_tree /\ cursor' = cursor /\ pc' = "verify_fill"
    BY <1>1, <1>8 DEF place_proof
  <2>2. index + 1 = 1
    BY <1>8
  <2>3. cursor = Len(proof)
    BY <1>2, <2>2 DEF Lists
  <2> QED
    BY <1>1, <1>2, <1>3, <2>1, <2>3 DEF HonestInv, Verifying, Completeness
<1> QED
  BY <1>1, <1>6, <1>7, <1>8

\* The leaves that are filled in are those of the tree.
LEMMA FillHonest ==
    ASSUME HonestInv, SoundnessInv, fill_leaves
    PROVE  HonestInv'
<1> SUFFICES ASSUME requested' # <<>> PROVE HonestInv'
  BY DEF HonestInv, fill_leaves
<1>1. /\ pc = "verify_fill" /\ pc' = "verify_hash" /\ requested' = requested
      /\ requested # <<>> /\ TypeOK /\ leaf_count \in Nat \ {0} /\ Verifying
      /\ UNCHANGED <<leaf_count, digests, marked, proof, cursor, included, indices>>
  BY LeafCountsAssumption DEF fill_leaves, HonestInv, SoundnessInv, TypeOK, Verifying
<1>2. /\ LeavesMarked(marked) /\ ParentsMarked(marked, 0) /\ Lists(marked, 1)
      /\ cursor = Len(proof) /\ indices = requested
      /\ included = [k \in DOMAIN requested |-> digests[leaf_count + requested[k]]]
      /\ \A i \in DOMAIN partial_tree : partial_tree[i] = None \/ partial_tree[i] = Some(digests[i])
  BY <1>1 DEF HonestInv
<1>3. LeavesMarked(marked)' /\ ParentsMarked(marked, 0)' /\ Lists(marked, 1)'
  <2>1. LeavesMarked(marked)' /\ ParentsMarked(marked, 0)'
    BY <1>1, <1>2 DEF LeavesMarked, ParentsMarked, tree_size, InnerNodes, left_child_index,
                      right_child_index
  <2>2. \A i : NeededFrom(marked, i)' = NeededFrom(marked, i)
    BY <1>1 DEF NeededFrom, SiblingIn, left_child_index, right_child_index
  <2>3. Lists(marked, 1)'
    BY <1>1, <1>2, <2>2 DEF Lists, Count, SiblingIn, left_child_index, right_child_index
  <2> QED
    BY <2>1, <2>3
<1>4. ASSUME NEW i \in DOMAIN partial_tree
      PROVE  partial_tree'[i] = None \/ partial_tree'[i] = Some(digests[i])
  <2>1. partial_tree'[i] = IF IncludedAt(i) = {} THEN partial_tree[i]
                           ELSE Some(included[LastOf(IncludedAt(i))])
    BY DEF fill_leaves
  <2>2. CASE IncludedAt(i) = {}
    BY <1>2, <2>1, <2>2
  <2>3. CASE IncludedAt(i) # {}
    <3>1. PICK k \in IncludedAt(i) : TRUE
      BY <2>3
    <3>2. \A j \in IncludedAt(i) : j = k
      <4>1. \A j \in DOMAIN indices : indices[j] \in Nat /\ j \in Nat
        BY <1>1 DEF SoundnessInv, RequestOK
      <4> QED
        BY <1>1, <3>1, <4>1 DEF IncludedAt, SoundnessInv, RequestOK
    <3>3. IncludedAt(i) = {k} /\ k \in Nat
      BY <1>1, <3>1, <3>2 DEF IncludedAt, SoundnessInv, RequestOK
    <3>4. LastOf(IncludedAt(i)) = k
      BY <3>3 DEF LastOf
    <3>5. k \in DOMAIN requested /\ i = leaf_count + requested[k]
      BY <1>2, <3>1 DEF IncludedAt
    <3>6. included[k] = digests[i]
      BY <1>2, <3>5
    <3> QED
      BY <2>1, <2>3, <3>4, <3>6
  <2> QED
    BY <2>2, <2>3
<1>5. DOMAIN partial_tree' = DOMAIN partial_tree
  BY DEF fill_leaves
<1> QED
  BY <1>1, <1>2, <1>3, <1>4, <1>5 DEF HonestInv, Verifying, Completeness

\* A node computed from digests of the tree has the digest build() gave it.
LEMMA HashHonest ==
    ASSUME HonestInv, SoundnessInv, hash_partial
    PROVE  HonestInv'
<1> SUFFICES ASSUME requested' # <<>> PROVE HonestInv'
  BY DEF HonestInv, hash_partial
<1>1. /\ pc = "verify_hash" /\ pc' = pc /\ requested' = requested
      /\ requested # <<>> /\ TypeOK /\ leaf_count \in Nat \ {0} /\ Verifying
      /\ index \in InnerNodes
      /\ UNCHANGED <<leaf_count, digests, marked, proof, cursor, included, indices>>
  BY LeafCountsAssumption DEF hash_partial, HonestInv, SoundnessInv, LoopRange, TypeOK,
                              Verifying, InnerNodes
<1>2. /\ LeavesMarked(marked) /\ ParentsMarked(marked, 0) /\ Lists(marked, 1)
      /\ cursor = Len(proof) /\ indices = requested
      /\ included = [k \in DOMAIN requested |-> digests[leaf_count + requested[k]]]
      /\ \A i \in DOMAIN partial_tree : partial_tree[i] = None \/ partial_tree[i] = Some(digests[i])
  BY <1>1 DEF HonestInv
<1>3. LeavesMarked(marked)' /\ ParentsMarked(marked, 0)' /\ Lists(marked, 1)'
  <2>1. LeavesMarked(marked)' /\ ParentsMarked(marked, 0)'
    BY <1>1, <1>2 DEF LeavesMarked, ParentsMarked, tree_size, InnerNodes, left_child_index,
                      right_child_index
  <2>2. \A i : NeededFrom(marked, i)' = NeededFrom(marked, i)
    BY <1>1 DEF NeededFrom, SiblingIn, left_child_index, right_child_index
  <2>3. Lists(marked, 1)'
    BY <1>1, <1>2, <2>2 DEF Lists, Count, SiblingIn, left_child_index, right_child_index
  <2> QED
    BY <2>1, <2>3
<1> DEFINE l == left_child_index(index)
           r == right_child_index(index)
<1>4. l \in DOMAIN partial_tree /\ r \in DOMAIN partial_tree /\ index \in DOMAIN partial_tree
  BY <1>1 DEF TypeOK, tree_size, InnerNodes, left_child_index, right_child_index
<1>5. digests[index] = hash_children(digests[l], digests[r])
  BY <1>1 DEF SoundnessInv, Built, Done
<1> HIDE DEF l, r
<1>6. partial_tree' = IF partial_tree[l] # None /\ partial_tree[r] # None
                      THEN [partial_tree EXCEPT ![index] =
                              Some(hash_children(partial_tree[l][1], partial_tree[r][1]))]
                      ELSE partial_tree
  BY DEF hash_partial, l, r
<1>7. ASSUME partial_tree[l] # None, partial_tree[r] # None
      PROVE  Some(hash_children(partial_tree[l][1], partial_tree[r][1])) = Some(digests[index])
  <2>1. partial_tree[l] = Some(digests[l]) /\ partial_tree[r] = Some(digests[r])
    BY <1>2, <1>4, <1>7
  <2>2. partial_tree[l][1] = digests[l] /\ partial_tree[r][1] = digests[r]
    BY <2>1 DEF Some
  <2> QED
    BY <1>5, <2>2
<1>8. \A i \in DOMAIN partial_tree' :
        partial_tree'[i] = None \/ partial_tree'[i] = Some(digests[i])
  BY <1>2, <1>6, <1>7
<1> QED
  BY <1>1, <1>2, <1>3, <1>8 DEF HonestInv, Verifying, Completeness

\* In the end the root is known: it is marked, and so it was hashed, or is the only leaf.
LEMMA CompareHonest ==
    ASSUME HonestInv, SoundnessInv, compare_root
    PROVE  HonestInv'
<1> SUFFICES ASSUME requested' # <<>> PROVE HonestInv'
  BY DEF HonestInv, compare_root
<1>1. /\ pc = "verify_hash" /\ pc' = "done" /\ requested' = requested /\ index = 0
      /\ requested # <<>> /\ TypeOK /\ leaf_count \in Nat \ {0} /\ Verifying
      /\ verdict' = IF partial_tree[1] = Some(root) THEN "ok" ELSE "root_mismatch"
      /\ UNCHANGED <<proof, cursor>>
  BY LeafCountsAssumption DEF compare_root, HonestInv, SoundnessInv, TypeOK, Verifying
<1>2. /\ LeavesMarked(marked) /\ ParentsMarked(marked, 0)
      /\ cursor = Len(proof) /\ indices = requested
      /\ \A i \in DOMAIN partial_tree : partial_tree[i] = None \/ partial_tree[i] = Some(digests[i])
  BY <1>1 DEF HonestInv
<1>3. 1 \in marked /\ 1 \in DOMAIN partial_tree
  BY <1>1, <1>2, RootMarked DEF TypeOK, tree_size
<1>4. partial_tree[1] # None
  <2>1. CASE leaf_count = 1
    <3>1. PICK k \in DOMAIN requested : 1 = leaf_count + requested[k]
      BY <1>1, <1>2, <1>3, <2>1 DEF LeavesMarked, tree_size
    <3>2. partial_tree[1] = Some(included[k])
      BY <1>1, <1>2, <3>1 DEF SoundnessInv, Filled
    <3> QED
      BY <3>2 DEF Some, None
  <2>2. CASE leaf_count # 1
    <3>1. 1 \in InnerNodes /\ index < 1
      BY <1>1, <2>2 DEF InnerNodes
    <3>2. partial_tree[1] = Some(hash_children(partial_tree[left_child_index(1)][1],
                                               partial_tree[right_child_index(1)][1]))
      BY <1>1, <1>3, <3>1 DEF SoundnessInv, Hashed
    <3> QED
      BY <3>2 DEF Some, None
  <2> QED
    BY <2>1, <2>2
<1>5. verdict' = "ok"
  BY <1>1, <1>2, <1>3, <1>4 DEF root
<1> QED
  BY <1>1, <1>2, <1>5 DEF HonestInv, Verifying, Completeness

\* verify() accepts what prove() produced, for every tree and every list of distinct
\* leaves, in whatever order they are asked for, and uses up the proof.
THEOREM HonestAccepted == Spec => []Completeness
<1>1. Init => HonestInv
  BY DEF Init, HonestInv
<1>2. SoundnessInv /\ HonestInv /\ [Next]_vars => HonestInv'
  <2> SUFFICES ASSUME SoundnessInv, HonestInv, [Next]_vars PROVE HonestInv'
    OBVIOUS
  <2>1. CASE UNCHANGED vars
    <3>1. \A M, i : /\ NeededFrom(M, i)' = NeededFrom(M, i)
                    /\ LeavesMarked(M)' <=> LeavesMarked(M)
                    /\ ParentsMarked(M, i)' <=> ParentsMarked(M, i)
                    /\ Lists(M, i)' <=> Lists(M, i)
      BY <2>1 DEF vars, NeededFrom, SiblingIn, left_child_index, right_child_index,
                  LeavesMarked, ParentsMarked, Lists, Count, tree_size, InnerNodes
    <3> QED
      BY <2>1, <3>1 DEF vars, HonestInv, Verifying, Completeness, Count
  <2>2. CASE Next
    BY <2>2, NoRequest, StartProveHonest, ProveMarkHonest, ProveHonest, ReceiveHonest,
       VerifyMarkHonest, PlaceHonest, FillHonest, HashHonest, CompareHonest DEF Next
  <2> QED
    BY <2>1, <2>2
<1>3. HonestInv => Completeness
  BY DEF HonestInv, Completeness
<1> QED
  BY <1>1, <1>2, <1>3, LoopInvariants, PTL DEF Spec
=============================================================================
