---------------------------- MODULE SparseArray ----------------------------
(***************************************************************************)
(* SparseSumcheckArray of sumcheck/bind/sparse.rs: the non-zero elements   *)
(* of a layer's combined quad in an order that keeps the two elements      *)
(* bound together next to each other, first for the left wires, then for   *)
(* the right ones, and so on.  The actions are the calls run_protocol      *)
(* makes on the array, in its order.                                       *)
(***************************************************************************)
EXTENDS Field, FiniteSets, SequencesExt

CONSTANTS GateBits,     \* bits of a gate index
          WireBits,     \* bits of a wire index (logw of the layer)
          Coefficient,  \* coefficients of the quads
          Challenge,    \* elements the array is bound to
          Quads         \* sets of <<gate, left, right>> positions of the quads

VARIABLES
    contents,     \* contents of the array
    gates_bound,  \* whether bindv_gate was called
    rounds        \* number of calls of bind_hand made so far

vars == <<contents, gates_bound, rounds>>

Left == "left"
Right == "right"

Elem(gate, left, right, coefficient) ==
    [gate |-> gate, left |-> left, right |-> right, coefficient |-> coefficient]

-----------------------------------------------------------------------------
(* The order of the elements.                                              *)

\* Bit k of the result comes from bit k / 2 of left if k is even, of right if it is odd.
interleave(right, left) ==
    LET bit(n, k) == (n \div 2^k) % 2
        prefix[k \in 0..WireBits] ==
          IF k = 0 THEN 0
          ELSE prefix[k - 1] + (bit(left, k - 1) + 2 * bit(right, k - 1)) * 4^(k - 1)
    IN  prefix[WireBits]

\* Faulty variant of Before: the natural order of the indices.
Before_natural(a, b) ==
    \/ a.left < b.left
    \/ a.left = b.left /\ a.right < b.right
    \/ a.left = b.left /\ a.right = b.right /\ a.gate < b.gate

\* Ord::cmp of SparseQuadElement is Less.
Before(a, b) ==
    LET wires_a == interleave(a.right, a.left)
        wires_b == interleave(b.right, b.left)
    IN  wires_a < wires_b \/ (wires_a = wires_b /\ a.gate < b.gate)

-----------------------------------------------------------------------------
(* Binding the gate dimension.                                             *)

\* bindeq_inner: the array is doubled once for each binding, the last binding first.
bindeq_inner(input) ==
    LET n == Len(input)
        \* after[i] has 2^i elements
        after[i \in 0..n] ==
          IF i = 0 THEN [j \in {0} |-> ONE]
          ELSE LET x == input[n - i + 1]
                   t(j) == Times(x, after[i - 1][j])
               IN  [j \in 0..(2^i - 1) |->
                      IF j % 2 = 0 THEN Minus(after[i - 1][j \div 2], t(j \div 2))
                      ELSE t(j \div 2)]
    IN  after[n]

bindeq(bindings_0, bindings_1, scale) ==
    LET bindeq_0 == bindeq_inner(bindings_0)
        bindeq_1 == bindeq_inner(bindings_1)
    IN  [j \in DOMAIN bindeq_0 |-> Plus(bindeq_0[j], Times(scale, bindeq_1[j]))]

SameWires(a, b) == a.left = b.left /\ a.right = b.right

\* Add x to the last element of done if they have the same wires, else append it.
Compact(done, x) ==
    IF done # <<>> /\ SameWires(Last(done), x)
    THEN [done EXCEPT ![Len(done)].coefficient = Plus(@, x.coefficient)]
    ELSE Append(done, x)

\* The elements after bindv_gate.
GateBound(elements, bindings_0, bindings_1, alpha) ==
    LET eq == bindeq(bindings_0, bindings_1, alpha)
        scaled(e) == Elem(0, e.left, e.right, Times(e.coefficient, eq[e.gate]))
    IN  FoldLeft(LAMBDA done, e : Compact(done, scaled(e)), <<>>, elements)

-----------------------------------------------------------------------------
(* Binding one of the wire dimensions.                                     *)

hand_wire(e, hand) == IF hand = Left THEN e.left ELSE e.right
opposite(hand) == IF hand = Left THEN Right ELSE Left

\* SparseQuadElement::new
FromWires(hand, wire, opposite_wire, coefficient) ==
    IF hand = Left THEN Elem(0, wire, opposite_wire, coefficient)
    ELSE Elem(0, opposite_wire, wire, coefficient)

\* Faulty variant of is_next_wire: forgets to compare the opposite hand.
is_next_wire_any_opposite(hand, curr, next) ==
    /\ next.gate = curr.gate
    /\ hand_wire(next, hand) = hand_wire(curr, hand) + 1

is_next_wire(hand, curr, next) ==
    /\ next.gate = curr.gate
    /\ hand_wire(next, hand) = hand_wire(curr, hand) + 1
    /\ hand_wire(next, opposite(hand)) = hand_wire(curr, opposite(hand))

\* The elements after bind_hand, which reads one element or two and writes one each time
\* round its loop.
HandBound(elements, hand, x) ==
    LET n == Len(elements)
        from[read \in 1..(n + 2)] ==
          IF read > n THEN <<>>
          ELSE
            LET curr   == elements[read]
                wire   == hand_wire(curr, hand)
                even   == wire % 2 = 0
                paired == even /\ read < n /\ is_next_wire(hand, curr, elements[read + 1])
                coefficient ==
                  IF paired
                  THEN Plus(curr.coefficient,
                            Times(x, Minus(elements[read + 1].coefficient, curr.coefficient)))
                  ELSE IF even THEN Times(Minus(ONE, x), curr.coefficient)
                  ELSE Times(x, curr.coefficient)
            IN  <<FromWires(hand, wire \div 2, hand_wire(curr, opposite(hand)), coefficient)>>
                  \o from[read + (IF paired THEN 2 ELSE 1)]
    IN  from[1]

\* compute_a: A[i] = SUM of the quad's elements times the opposite wires.
compute_a(elements, hand, wires) ==
    LET into[n \in 0..Len(elements)] ==
          IF n = 0 THEN [k \in DOMAIN wires[hand] |-> ZERO]
          ELSE LET e == elements[n]
                   value == Times(e.coefficient,
                                  wires[opposite(hand)][hand_wire(e, opposite(hand))])
               IN  [into[n - 1] EXCEPT ![hand_wire(e, hand)] = Plus(@, value)]
    IN  into[Len(elements)]

-----------------------------------------------------------------------------
\* A circuit's quads have distinct indices and are sorted.
Init ==
    /\ \E positions \in Quads : \E c \in [positions -> Coefficient] :
         contents = SetToSortSeq({Elem(p[1], p[2], p[3], c[p]) : p \in positions}, Before)
    /\ gates_bound = FALSE
    /\ rounds = 0

bindv_gate ==
    /\ ~gates_bound
    /\ \E bindings_0, bindings_1 \in [1..GateBits -> Challenge], alpha \in Challenge :
         contents' = GateBound(contents, bindings_0, bindings_1, alpha)
    /\ gates_bound' = TRUE
    /\ UNCHANGED rounds

NextHand == IF rounds % 2 = 0 THEN Left ELSE Right

bind_hand ==
    /\ gates_bound
    /\ rounds < 2 * WireBits
    /\ \E x \in Challenge : contents' = HandBound(contents, NextHand, x)
    /\ rounds' = rounds + 1
    /\ UNCHANGED gates_bound

Next == bindv_gate \/ bind_hand

Spec == Init /\ [][Next]_vars

-----------------------------------------------------------------------------
\* The dense array the contents stand for.
DenseValue(g, l, r) ==
    LET here == SelectSeq(contents, LAMBDA e : e.gate = g /\ e.left = l /\ e.right = r)
    IN  SumFromTo([k \in DOMAIN here |-> here[k].coefficient], 1, Len(here))

Dense == INSTANCE DenseArray WITH
    array <- [k \in (0..(2^GateBits - 1)) \X (0..(2^WireBits - 1)) \X (0..(2^WireBits - 1)) |->
                DenseValue(k[1], k[2], k[3])]

\* Each call binds the dense array the contents stand for by the definition of bind.
RefinesDense == Dense!Spec

\* The order the comment in Ord::cmp describes: by gate index, then by the interleaving
\* of the wire indices.
SortedAsDocumented ==
    ~gates_bound =>
        \A j, k \in DOMAIN contents : j < k =>
            \/ contents[j].gate < contents[k].gate
            \/ /\ contents[j].gate = contents[k].gate
               /\ interleave(contents[j].right, contents[j].left)
                    < interleave(contents[k].right, contents[k].left)
=============================================================================
