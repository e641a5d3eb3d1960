------------------------------- MODULE Field -------------------------------
(***************************************************************************)
(* A finite field small enough to enumerate, with the operations of        *)
(* fields/mod.rs that the proof system uses.  Order is a prime, for the    *)
(* fields of large characteristic, or 4, for those of characteristic two.  *)
(* The elements of the field of order 4 are 0 and the powers of its        *)
(* generator: element e > 0 is the power e - 1.                            *)
(***************************************************************************)
EXTENDS Integers, Sequences

CONSTANT Order

ASSUME OrderAssumption ==
    /\ Order \in Nat \ {0, 1, 2}
    /\ Order # 4 => \A d \in 2..(Order - 1) : Order % d # 0

FE == 0..(Order - 1)

ZERO == 0
ONE == 1

\* FieldElement::large_characteristic
large_characteristic == Order # 4

Plus(a, b) ==
    IF large_characteristic THEN (a + b) % Order
    ELSE IF a = b THEN 0
    ELSE IF a = 0 \/ b = 0 THEN a + b
    ELSE 6 - a - b

Negate(a) == IF large_characteristic THEN (Order - a) % Order ELSE a

Minus(a, b) == Plus(a, Negate(b))

Times(a, b) ==
    IF large_characteristic THEN (a * b) % Order
    ELSE IF a = 0 \/ b = 0 THEN 0 ELSE ((a + b - 2) % 3) + 1

\* FieldElement::mul_inv of an element other than zero.
mul_inv(a) == CHOOSE b \in FE : Times(a, b) = ONE

\* The sum of value[lo] to value[hi].
SumFromTo(value, lo, hi) ==
    LET sum[n \in (lo - 1)..hi] == IF n < lo THEN ZERO ELSE Plus(sum[n - 1], value[n])
    IN  IF hi < lo THEN ZERO ELSE sum[hi]

-----------------------------------------------------------------------------
(* ProofFieldElement: polynomials of degree two, given at 0, 1 and P2.     *)

\* 2 in a field of large characteristic, the generator in characteristic two.
SUMCHECK_P2 == 2

lagrange_basis_polynomial_0(x) ==
    Times(Times(Minus(x, ONE), Minus(x, SUMCHECK_P2)), mul_inv(SUMCHECK_P2))

lagrange_basis_polynomial_1(x) ==
    Times(Times(x, Minus(x, SUMCHECK_P2)), mul_inv(Minus(ONE, SUMCHECK_P2)))

lagrange_basis_polynomial_2(x) ==
    Times(Times(x, Minus(x, ONE)),
          mul_inv(Minus(Times(SUMCHECK_P2, SUMCHECK_P2), SUMCHECK_P2)))
-----------------------------------------------------------------------------
(* What ProofFieldElement::extend promises: the polynomial of degree below *)
(* n through n values at the first n points, evaluated at more points.     *)

\* The product of value[0] to value[n - 1].
ProductOver(value, n) ==
    LET product[i \in -1..(n - 1)] ==
            IF i < 0 THEN ONE ELSE Times(product[i - 1], value[i])
    IN  product[n - 1]

\* The i-th Lagrange polynomial over the points 0 to n - 1, at point j < length.
LagrangeBasis(n, length) ==
    [i \in 0..(n - 1) |-> [j \in 0..(length - 1) |->
        ProductOver([k \in 0..(n - 1) |->
            IF k = i THEN ONE ELSE Times(Minus(j, k), mul_inv(Minus(i, k)))], n)]]

\* Element j of the extension of n nodes, given the basis for n.
ExtendElement(nodes, context, n, j) ==
    SumFromTo([i \in 0..(n - 1) |-> Times(nodes[i], context[i][j])], 0, n - 1)
=============================================================================
