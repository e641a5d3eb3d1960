---------------------------- MODULE BinaryField ----------------------------
(***************************************************************************)
(* The field of fields/field2_128 at a small degree.  An element is the    *)
(* set of powers of x whose coefficient is one, so that the exclusive or   *)
(* of the code is a symmetric difference.  A subfield is spanned by powers *)
(* of a generator; integers are injected into it bit by bit, and uninject  *)
(* finds the integer of an element, one iteration of its loop to a step,   *)
(* over the decomposition that the code keeps as a table.  An integer of   *)
(* SUBFIELD_BIT_LENGTH bits is here the set of its bits.                   *)
(***************************************************************************)
EXTENDS Integers, FiniteSets

CONSTANTS
    DEGREE,               \* 128 in the code
    Modulus,              \* the powers below DEGREE in the quotient polynomial
    SUBFIELD_BIT_LENGTH,  \* 16 in the code
    Generator             \* the element whose powers are the subfield's basis

Field2_128 == SUBSET (0..(DEGREE - 1))

Zero == {}
One == {0}

Add(a, b) == (a \ b) \cup (b \ a)

\* The sum of f[i] for i in S.
SumOver(f, S) == {e \in 0..(DEGREE - 1) : Cardinality({i \in S : e \in f[i]}) % 2 = 1}

carryless_product(x, y) ==
    {i \in 0..(2 * DEGREE - 2) : Cardinality({left \in x : i - left \in y}) % 2 = 1}

\* From the highest power down: a step may set a bit that a later one clears.
modular_reduction(product) ==
    LET reduced[i \in 0..(DEGREE - 1)] ==
            IF i = DEGREE - 1 THEN product
            ELSE IF i + DEGREE \in reduced[i + 1]
            THEN Add(reduced[i + 1], {i + DEGREE} \cup {i + m : m \in Modulus})
            ELSE reduced[i + 1]
    IN  reduced[0]

galois_multiply(x, y) == modular_reduction(carryless_product(x, y)) \cap 0..(DEGREE - 1)

MultiplicationTable == [x \in Field2_128, y \in Field2_128 |-> galois_multiply(x, y)]
Mul(x, y) == MultiplicationTable[x, y]

InverseTable == [x \in Field2_128 \ {Zero} |-> CHOOSE y \in Field2_128 : Mul(x, y) = One]
inverse(x) == InverseTable[x]

-----------------------------------------------------------------------------
(* The subfield.                                                           *)

subfield_basis ==
    LET power[i \in 0..(SUBFIELD_BIT_LENGTH - 1)] ==
            IF i = 0 THEN One ELSE galois_multiply(power[i - 1], Generator)
    IN  power

BitsOf(value) == {i \in 0..(SUBFIELD_BIT_LENGTH - 1) : (value \div 2^i) % 2 = 1}

inject(value) == SumOver(subfield_basis, BitsOf(value))

\* The twiddle factors of the additive transform.  Row i holds the values at
\* the basis of the polynomial that vanishes on the span of the first i basis
\* elements, divided by its value at the next one.
twiddle_array ==
    LET W[i \in 0..(SUBFIELD_BIT_LENGTH - 1)] ==
            IF i = 0 THEN subfield_basis
            ELSE [j \in 0..(SUBFIELD_BIT_LENGTH - 1) |->
                     Mul(W[i - 1][j], Add(W[i - 1][j], W[i - 1][i - 1]))]
    IN  [i \in 0..(SUBFIELD_BIT_LENGTH - 1) |->
            IF i = 0 THEN W[0]
            ELSE [j \in 0..(SUBFIELD_BIT_LENGTH - 1) |-> Mul(W[i][j], inverse(W[i][i]))]]
-----------------------------------------------------------------------------
(* Encoding of an element in the subfield.                                 *)

VARIABLES element, rank, remainder, encoding

uninject_vars == <<element, rank, remainder, encoding>>

Encodings == SUBSET (0..(SUBFIELD_BIT_LENGTH - 1))

inject_bits(bits) == SumOver(subfield_basis, bits)

-----------------------------------------------------------------------------
(* The decomposition: Gaussian elimination of the basis by column.         *)

Rows == 0..(SUBFIELD_BIT_LENGTH - 1)

Swapped(rows, i, k) == [rows EXCEPT ![i] = rows[k], ![k] = rows[i]]

\* Faulty variant of Eliminate: the coefficients do not follow a swap of rows.
Eliminate_unswapped(d, j) ==
    LET r == d.rank
        candidates == {i \in r..(SUBFIELD_BIT_LENGTH - 1) : j \in d.upper[i]}
    IN  IF candidates = {} THEN d
        ELSE LET pivot == CHOOSE i \in candidates : \A k \in candidates : i <= k
                 upper == Swapped(d.upper, pivot, r)
                 lower == d.lower_inverse
                 below == {i \in (r + 1)..(SUBFIELD_BIT_LENGTH - 1) : j \in upper[i]}
             IN  [rank |-> r + 1,
                  upper |-> [i \in Rows |-> IF i \in below THEN Add(upper[i], upper[r]) ELSE upper[i]],
                  lower_inverse |->
                      [i \in Rows |-> IF i \in below THEN Add(lower[i], lower[r]) ELSE lower[i]],
                  first_nonzero |-> [d.first_nonzero EXCEPT ![r] = j]]

\* Column j: find a pivot at or below the rank, clear the column below it.
Eliminate(d, j) ==
    LET r == d.rank
        candidates == {i \in r..(SUBFIELD_BIT_LENGTH - 1) : j \in d.upper[i]}
    IN  IF candidates = {} THEN d
        ELSE LET pivot == CHOOSE i \in candidates : \A k \in candidates : i <= k
                 upper == Swapped(d.upper, pivot, r)
                 lower == Swapped(d.lower_inverse, pivot, r)
                 below == {i \in (r + 1)..(SUBFIELD_BIT_LENGTH - 1) : j \in upper[i]}
             IN  [rank |-> r + 1,
                  upper |-> [i \in Rows |-> IF i \in below THEN Add(upper[i], upper[r]) ELSE upper[i]],
                  lower_inverse |->
                      [i \in Rows |-> IF i \in below THEN Add(lower[i], lower[r]) ELSE lower[i]],
                  first_nonzero |-> [d.first_nonzero EXCEPT ![r] = j]]

subfield_basis_lu_decomposition ==
    LET start == [rank |-> 0, upper |-> subfield_basis, lower_inverse |-> [i \in Rows |-> {i}],
                  first_nonzero |-> [i \in Rows |-> 0]]
        column[j \in -1..(DEGREE - 1)] == IF j = -1 THEN start ELSE Eliminate(column[j - 1], j)
    IN  column[DEGREE - 1]

-----------------------------------------------------------------------------

UninjectInit ==
    /\ element \in Field2_128
    /\ rank = 0
    /\ remainder = element
    /\ encoding = {}

\* An iteration of uninject: clear the leading bit of the row of this rank.
clear_rank ==
    /\ rank < SUBFIELD_BIT_LENGTH
    /\ LET d == subfield_basis_lu_decomposition
           bit == d.first_nonzero[rank] \in remainder
       IN  /\ remainder' = IF bit THEN Add(remainder, d.upper[rank]) ELSE remainder
           /\ encoding' = IF bit THEN (encoding \ d.lower_inverse[rank])
                                          \cup (d.lower_inverse[rank] \ encoding)
                          ELSE encoding
    /\ rank' = rank + 1
    /\ UNCHANGED element

-----------------------------------------------------------------------------
(* Properties.                                                             *)

\* uninject returns an encoding exactly for the elements of the subfield, and
\* it is the only encoding that inject maps to the element: what is written
\* as a subfield element is read back as itself.
UninjectInverts ==
    rank = SUBFIELD_BIT_LENGTH =>
        \A bits \in Encodings : inject_bits(bits) = element <=> remainder = {} /\ encoding = bits
=============================================================================
