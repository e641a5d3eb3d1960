------------------------- MODULE QuadraticExtension -------------------------
(***************************************************************************)
(* The quadratic extension of a prime field (fields/quadratic_extension.rs *)
(* and fields/fieldp256_2.rs), modulo x^2 + 1: where FieldP256 finds the   *)
(* roots of unity that its own multiplicative group does not have.         *)
(***************************************************************************)
EXTENDS Integers

CONSTANTS
    BaseOrder,   \* the order of the base field
    Generator2,  \* the generator of the largest subgroup of order a power of two
    LogOrder     \* that power

\* Minus one has no square root in the base field.
ASSUME BaseOrderAssumption ==
    /\ BaseOrder \in Nat /\ BaseOrder % 4 = 3
    /\ \A d \in 2..(BaseOrder - 1) : BaseOrder % d # 0

BaseField == 0..(BaseOrder - 1)

\* FieldP256::mul_inv, which the exponentiations of addition_chains compute.
base_mul_inv(a) == CHOOSE b \in BaseField : (a * b) % BaseOrder = 1

VARIABLES lhs, rhs    \* two elements, with the parts real and imag

quadratic_vars == <<lhs, rhs>>

FieldP256_2 == [real : BaseField, imag : BaseField]

\* The element of two integers, each reduced as the base field reduces.
Element(real, imag) == [real |-> real % BaseOrder, imag |-> imag % BaseOrder]

q_zero == Element(0, 0)
q_one == Element(1, 0)

q_add(p, q) == Element(p.real + q.real, p.imag + q.imag)
q_sub(p, q) == Element(p.real - q.real, p.imag - q.imag)
q_neg(p) == Element(-p.real, -p.imag)

\* Faulty variant of q_mul: x^2 is taken for one.
q_mul_unreduced(p, q) ==
    LET r1 == p.real * q.real
        r4 == p.imag * q.imag
        s == (p.real + p.imag) * (q.real + q.imag)
    IN  Element(r1 + r4, s - r1 - r4)

\* Three products: those of the parts, and that of the sums of the parts.
q_mul(p, q) ==
    LET r1 == p.real * q.real
        r4 == p.imag * q.imag
        s == (p.real + p.imag) * (q.real + q.imag)
    IN  Element(r1 - r4, s - r1 - r4)

q_square(p) ==
    LET cross == p.real * p.imag
    IN  Element(p.real * p.real - p.imag * p.imag, cross + cross)

\* The conjugate times the inverse of the norm.
q_mul_inv(p) ==
    LET norm == p.real * p.real + p.imag * p.imag
    IN  q_mul(Element(p.real, -p.imag), Element(base_mul_inv(norm % BaseOrder), 0))

\* Entry i generates the subgroup of order 2^i: squares, from the last down.
RootsFrom(start) ==
    LET root[i \in 0..LogOrder] == IF i = LogOrder THEN start ELSE q_square(root[i + 1])
    IN  root

FieldP256_2_ROOTS_OF_UNITY == RootsFrom(Generator2)
ROOTS_OF_UNITY_INVERSES == RootsFrom(q_mul_inv(Generator2))

QuadraticInit == lhs \in FieldP256_2 /\ rhs \in FieldP256_2

-----------------------------------------------------------------------------
(* Properties.                                                             *)

\* The three products of q_mul are the product of two polynomials modulo
\* x^2 + 1; squares and inverses agree with it, so that the operations are
\* those of a field; and the tables hold elements of exactly the orders that
\* the transform takes them to have, with their inverses.
ExtensionIsField ==
    LET product == q_mul(lhs, rhs)
    IN  /\ product.real = (lhs.real * rhs.real - lhs.imag * rhs.imag) % BaseOrder
        /\ product.imag = (lhs.real * rhs.imag + lhs.imag * rhs.real) % BaseOrder
        /\ q_add(q_sub(lhs, rhs), rhs) = lhs
        /\ q_add(lhs, q_neg(lhs)) = q_zero
        /\ q_square(lhs) = q_mul(lhs, lhs)
        /\ lhs # q_zero => q_mul(lhs, q_mul_inv(lhs)) = q_one
        /\ FieldP256_2_ROOTS_OF_UNITY[0] = q_one
        /\ LogOrder > 0 => FieldP256_2_ROOTS_OF_UNITY[1] = q_neg(q_one)
        /\ \A i \in 0..LogOrder :
               q_mul(FieldP256_2_ROOTS_OF_UNITY[i], ROOTS_OF_UNITY_INVERSES[i]) = q_one
=============================================================================
