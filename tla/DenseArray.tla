---------------------------- MODULE DenseArray ----------------------------
(***************************************************************************)
(* What SparseSumcheckArray promises: an array indexed by gate, left wire  *)
(* and right wire, zero where nothing is stored, which is bound to field   *)
(* elements one dimension at a time by                                     *)
(*     B[i] = (1 - x) * A[2 * i] + x * A[2 * i + 1].                       *)
(***************************************************************************)
EXTENDS Field

CONSTANTS GateBits,   \* bits of a gate index
          WireBits,   \* bits of a wire index
          Challenge   \* elements the array is bound to

VARIABLE array

Gate == 0..(2^GateBits - 1)
Wire == 0..(2^WireBits - 1)
Index == Gate \X Wire \X Wire
Array == [Index -> FE]

\* One element of a bound array from the two elements it comes from.
Interpolate(x, even, odd) == Plus(Times(Minus(ONE, x), even), Times(x, odd))

At(A, index) == IF index \in Index THEN A[index] ELSE ZERO

BoundOnGate(A, x) ==
    [k \in Index |-> Interpolate(x, At(A, <<2 * k[1], k[2], k[3]>>),
                                    At(A, <<2 * k[1] + 1, k[2], k[3]>>))]

BoundOnLeft(A, x) ==
    [k \in Index |-> Interpolate(x, At(A, <<k[1], 2 * k[2], k[3]>>),
                                    At(A, <<k[1], 2 * k[2] + 1, k[3]>>))]

BoundOnRight(A, x) ==
    [k \in Index |-> Interpolate(x, At(A, <<k[1], k[2], 2 * k[3]>>),
                                    At(A, <<k[1], k[2], 2 * k[3] + 1>>))]

\* bindv: bound on the gate dimension to every element of bindings in turn.
BoundOnGates(A, bindings) ==
    LET bound[n \in 0..Len(bindings)] ==
          IF n = 0 THEN A ELSE BoundOnGate(bound[n - 1], bindings[n])
    IN  bound[Len(bindings)]

\* bindv(A, bindings_0) + alpha * bindv(A, bindings_1)
BindGates(bindings_0, bindings_1, alpha) ==
    array' = LET zero == BoundOnGates(array, bindings_0)
                 one  == BoundOnGates(array, bindings_1)
             IN  [k \in Index |-> Plus(zero[k], Times(alpha, one[k]))]

Init == array \in Array

Next ==
    \/ \E x \in Challenge : array' = BoundOnLeft(array, x) \/ array' = BoundOnRight(array, x)
    \/ \E bindings_0, bindings_1 \in [1..GateBits -> Challenge], alpha \in Challenge :
         BindGates(bindings_0, bindings_1, alpha)

Spec == Init /\ [][Next]_array
=============================================================================
