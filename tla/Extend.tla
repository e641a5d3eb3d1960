------------------------------- MODULE Extend -------------------------------
(***************************************************************************)
(* ProofFieldElement::extend (fields/mod.rs): a context for two lengths,   *)
(* and calls that leave it alone.  Sequences are functions from 0.         *)
(*                                                                         *)
(* In the fields of large characteristic (fields/extend_p.rs) it is a      *)
(* convolution, and that a product in the domain of the number-theoretic   *)
(* transform of fields/ntt.rs.  In the binary field                        *)
(* (fields/field2_128/extend.rs) it is interpolation by a bidirectional    *)
(* additive transform over the first coset of points, and evaluation by a  *)
(* forward transform over each coset that follows; a slice is an array of  *)
(* its own.                                                                *)
(***************************************************************************)
EXTENDS Field, BinaryField, Integers, FiniteSets

VARIABLES context, nodes, output

extend_vars == <<context, nodes, output>>

None == [nodes_len |-> 0]

ExtendInit == context = None /\ nodes = <<>> /\ output = <<>>

Log2(n) == CHOOSE log \in 0..n : 2^log = n

next_power_of_two(n) ==
    CHOOSE p \in {2^log : log \in 0..n} : p >= n /\ (p = 1 \/ p \div 2 < n)

-----------------------------------------------------------------------------
(* Large characteristic.                                                   *)

CONSTANTS
    MaxNodes,          \* bound: nodes_len of a context
    MaxEvaluations,    \* bound: evaluations of a context
    NodeValues,        \* the elements nodes are made of
    ROOTS_OF_UNITY     \* ROOTS_OF_UNITY[i] generates the group of order 2^i

Power(base, exponent) == ProductOver([i \in 0..(exponent - 1) |-> base], exponent)

\* The elements of the field are the integers below Order: from_u128.
from_u128(value) == value % Order

HALF == mul_inv(2)

-----------------------------------------------------------------------------
(* NttFieldElement.                                                        *)

\* One pass of the decimation in frequency: element k of a block is combined
\* with the one stride further on.
forward_stage(values, stride, omega) ==
    [k \in DOMAIN values |->
        IF (k \div stride) % 2 = 0
        THEN Plus(values[k], values[k + stride])
        ELSE Times(Minus(values[k - stride], values[k]), Power(omega, k % stride))]

\* The strides fall from half the length to 1, the roots with them.
ntt_bit_reversed(values) ==
    LET log_n == Log2(Cardinality(DOMAIN values))
        pass[stage \in 0..log_n] ==
            IF stage = 0 THEN values
            ELSE forward_stage(pass[stage - 1], 2^(log_n - stage),
                               ROOTS_OF_UNITY[log_n - stage + 1])
    IN  pass[log_n]

inverse_stage(values, stride, omega_inv) ==
    [k \in DOMAIN values |->
        LET product(i) == Times(values[i], Power(omega_inv, i % stride))
        IN  IF (k \div stride) % 2 = 0
            THEN Plus(values[k], product(k + stride))
            ELSE Minus(values[k - stride], product(k))]

scaled_inverse_ntt_bit_reversed(values) ==
    LET log_n == Log2(Cardinality(DOMAIN values))
        pass[stage \in 0..log_n] ==
            IF stage = 0 THEN values
            ELSE inverse_stage(pass[stage - 1], 2^(stage - 1), mul_inv(ROOTS_OF_UNITY[stage]))
    IN  pass[log_n]

-----------------------------------------------------------------------------
(* extend_precompute.                                                      *)

\* Faulty variant of batched_inversion_sequence: one factor behind.
batched_inversion_sequence_behind(length) ==
    LET factorial[i \in 0..(length - 1)] ==
            IF i = 0 THEN ONE ELSE Times(factorial[i - 1], from_u128(i))
        unrolled[i \in 0..(length - 1)] ==
            IF i = length - 1 THEN mul_inv(factorial[i])
            ELSE Times(unrolled[i + 1], from_u128(i))
    IN  [i \in 0..(length - 1) |->
            IF i = 0 THEN ZERO ELSE Times(unrolled[i], factorial[i - 1])]

\* One inversion, of the last factorial, and two products for each reciprocal.
batched_inversion_sequence(length) ==
    LET factorial[i \in 0..(length - 1)] ==
            IF i = 0 THEN ONE ELSE Times(factorial[i - 1], from_u128(i))
        unrolled[i \in 0..(length - 1)] ==
            IF i = length - 1 THEN mul_inv(factorial[i])
            ELSE Times(unrolled[i + 1], from_u128(i + 1))
    IN  [i \in 0..(length - 1) |->
            IF i = 0 THEN ZERO ELSE Times(unrolled[i], factorial[i - 1])]

ntt_size(nodes_len, evaluations) == next_power_of_two(evaluations)

reciprocals_len(evaluations, size) ==
    IF evaluations + 1 > size THEN evaluations + 1 ELSE size

AlternatingSign(i, value) == IF i % 2 = 1 THEN Negate(value) ELSE value

\* (d choose i), by its recurrence.
binomial_coefficients(d, reciprocals) ==
    LET binomial[i \in 0..d] ==
            IF i = 0 THEN ONE
            ELSE Times(Times(binomial[i - 1], from_u128(d - i + 1)), reciprocals[i])
    IN  binomial

before_convolution_coeffs(d, reciprocals) ==
    LET binomial == binomial_coefficients(d, reciprocals)
    IN  [i \in 0..d |-> AlternatingSign(i, binomial[i])]

\* (-1)^d (k - d) (k choose d), the binomial again by its recurrence.
after_convolution_coeffs(d, evaluations, reciprocals) ==
    LET binomial_k_d[k \in d..(evaluations - 1)] ==
            IF k = d THEN ONE
            ELSE Times(Times(from_u128(k), binomial_k_d[k - 1]), reciprocals[k - d])
    IN  [k \in (d + 1)..(evaluations - 1) |->
            AlternatingSign(d, Times(from_u128(k), binomial_k_d[k - 1]))]

\* The kernel is scaled down by the factor the inverse transform scales up.
convolution_kernel(size, reciprocals) ==
    [i \in 0..(size - 1) |-> Times(reciprocals[i], Power(HALF, Log2(size)))]

PrecomputedContext(nodes_len, evaluations) ==
    LET size == ntt_size(nodes_len, evaluations)
        reciprocals == batched_inversion_sequence(reciprocals_len(evaluations, size))
        d == nodes_len - 1
    IN  [nodes_len |-> nodes_len,
         evaluations |-> evaluations,
         ntt_size |-> size,
         transformed_convolution_kernel |->
            ntt_bit_reversed(convolution_kernel(size, reciprocals)),
         before_convolution_coeffs |-> before_convolution_coeffs(d, reciprocals),
         after_convolution_coeffs |-> after_convolution_coeffs(d, evaluations, reciprocals)]

-----------------------------------------------------------------------------

\* extend of p in a context.
Extended(p, c) ==
    LET terms == [i \in 0..(c.ntt_size - 1) |->
                    IF i < c.nodes_len THEN Times(p[i], c.before_convolution_coeffs[i])
                    ELSE ZERO]
        transformed == ntt_bit_reversed(terms)
        convolution == scaled_inverse_ntt_bit_reversed(
                          [i \in DOMAIN terms |->
                              Times(transformed[i], c.transformed_convolution_kernel[i])])
    IN  [k \in 0..(c.evaluations - 1) |->
            IF k < c.nodes_len THEN p[k]
            ELSE Times(convolution[k], c.after_convolution_coeffs[k])]

\* More evaluations than nodes: extend asserts so in debug builds.
extend_p_precompute ==
    /\ context = None
    /\ \E nodes_len \in 1..MaxNodes, evaluations \in 2..MaxEvaluations :
          /\ evaluations > nodes_len
          /\ context' = PrecomputedContext(nodes_len, evaluations)
    /\ UNCHANGED <<nodes, output>>

\* A call reads nothing but its nodes and the context, which it leaves alone.
extend_p ==
    /\ context # None /\ nodes = <<>>
    /\ nodes' \in [0..(context.nodes_len - 1) -> NodeValues]
    /\ output' = Extended(nodes', context)
    /\ UNCHANGED context

-----------------------------------------------------------------------------
(* Properties.                                                             *)

\* extend returns the values of the polynomial through the nodes: the
\* transforms, both recurrences of binomials, the signs and the scaling agree,
\* and the circular convolution never wraps into an element that is used.
ExtendIsInterpolation_p ==
    nodes # <<>> =>
        LET basis == LagrangeBasis(context.nodes_len, context.evaluations)
        IN  \A j \in 0..(context.evaluations - 1) :
                output[j] = ExtendElement(nodes, basis, context.nodes_len, j)

\* The kernel kept in a context is the transform of the reciprocals, each
\* scaled by as much as the inverse transform scales it back: transformed
\* back, element i times i is one.
KernelHoldsReciprocals ==
    context # None =>
        LET kernel == scaled_inverse_ntt_bit_reversed(context.transformed_convolution_kernel)
        IN  /\ kernel[0] = ZERO
            /\ \A i \in 1..(context.ntt_size - 1) : Times(kernel[i], from_u128(i)) = ONE

-----------------------------------------------------------------------------
(* The binary field.                                                       *)

CONSTANT Scales    \* elements that the nodes of a call are multiples of

PointCount == 2^SUBFIELD_BIT_LENGTH

Slice(array, from, length) == [i \in 0..(length - 1) |-> array[from + i]]

\* Two halves of equal length, put back together.
Join(low, high, stride) ==
    [i \in 0..(2 * stride - 1) |-> IF i < stride THEN low[i] ELSE high[i - stride]]

-----------------------------------------------------------------------------
(* Twiddle factors.                                                        *)

twiddle(power, coset) == SumOver(twiddle_array[power], BitsOf(coset))

\* The factors for every 2^(curr_power + 1)-th point of a coset: each doubling
\* of the array adds one entry of the table to the half that is there.
twiddles(curr_power, power, coset) ==
    LET twiddled[n \in 0..(2^(power - curr_power - 1) - 1)] ==
            IF n = 0 THEN twiddle(curr_power, coset)
            ELSE LET k == CHOOSE k \in 0..power : 2^k <= n /\ n < 2^(k + 1)
                 IN  Add(twiddled[n - 2^k], twiddle_array[curr_power][k + curr_power + 1])
    IN  twiddled

-----------------------------------------------------------------------------
(* Butterflies, on a pair of elements.                                     *)

fft_butterfly_forward(pair, factor) ==
    LET low == Add(pair[1], Mul(factor, pair[2])) IN <<low, Add(pair[2], low)>>

fft_butterfly_backward(pair, factor) ==
    LET high == Add(pair[2], pair[1]) IN <<Add(pair[1], Mul(factor, high)), high>>

fft_butterfly_diagonal(pair, factor) ==
    <<Add(pair[1], Mul(factor, pair[2])), Add(pair[2], pair[1])>>

Butterfly(kind, pair, factor) ==
    CASE kind = "Forward"  -> fft_butterfly_forward(pair, factor)
      [] kind = "Backward" -> fft_butterfly_backward(pair, factor)
      [] kind = "Diagonal" -> fft_butterfly_diagonal(pair, factor)

\* Butterflies of one kind between the halves of an array, at the positions
\* of a set.
Butterflies(kind, array, stride, positions, factor) ==
    [i \in DOMAIN array |->
        IF i % stride \in positions
        THEN Butterfly(kind, <<array[i % stride], array[stride + (i % stride)]>>, factor)
                [1 + (i \div stride)]
        ELSE array[i]]

\* All butterflies of one stride, over the whole array.
FftStage(direction, array, stride, twiddled) ==
    [i \in DOMAIN array |->
        LET block == i \div (2 * stride)
            low == 2 * stride * block + (i % stride)
        IN  Butterfly(direction, <<array[low], array[low + stride]>>, twiddled[block])
                [1 + ((i \div stride) % 2)]]

fft(direction, power, coset, array) ==
    LET pass[n \in 0..power] ==
            IF n = 0 THEN array
            ELSE LET curr_power == IF direction = "Forward" THEN power - n ELSE n - 1
                 IN  FftStage(direction, pass[n - 1], 2^curr_power,
                              twiddles(curr_power, power, coset))
    IN  pass[power]

-----------------------------------------------------------------------------

\* In: values at the first nodes_count points and coefficients behind them.
\* Out: coefficients first and values behind them.
RECURSIVE bidirectional_fft(_, _, _, _)
bidirectional_fft(power, coset, nodes_count, array) ==
    IF power = 0 THEN array
    ELSE
    LET stride == 2^(power - 1)
        factor == twiddle(power - 1, coset)
    IN  IF nodes_count < stride
        THEN LET a == Butterflies("Forward", array, stride, nodes_count..(stride - 1), factor)
                 low == bidirectional_fft(power - 1, coset, nodes_count, Slice(a, 0, stride))
                 b == Butterflies("Diagonal", Join(low, Slice(a, stride, stride), stride),
                                  stride, 0..(nodes_count - 1), factor)
             IN  Join(Slice(b, 0, stride),
                      fft("Forward", power - 1, coset + stride, Slice(b, stride, stride)),
                      stride)
        ELSE LET rest == nodes_count - stride
                 low == fft("Backward", power - 1, coset, Slice(array, 0, stride))
                 a == Butterflies("Diagonal", Join(low, Slice(array, stride, stride), stride),
                                  stride, rest..(stride - 1), factor)
                 high == bidirectional_fft(power - 1, coset + stride, rest,
                                           Slice(a, stride, stride))
             IN  Butterflies("Backward", Join(Slice(a, 0, stride), high, stride),
                             stride, 0..(rest - 1), factor)

\* Faulty variant of Coefficients: the values behind the coefficients stay.
Coefficients_with_values(transformed, nodes_len, requested) == transformed

\* What is left in the buffer for the cosets that follow: the values that
\* were copied out are zeroed.
Coefficients(transformed, nodes_len, requested) ==
    [i \in DOMAIN transformed |->
        IF i >= nodes_len /\ i < requested THEN Zero ELSE transformed[i]]

interpolate(p, nodes_len, requested) ==
    LET fft_size == next_power_of_two(nodes_len)
        power == Log2(fft_size)
        transformed == bidirectional_fft(power, 0, nodes_len,
                          [i \in 0..(fft_size - 1) |-> IF i < nodes_len THEN p[i] ELSE Zero])
        coefficients == Coefficients(transformed, nodes_len, requested)
        coset_values == [coset \in 1..((requested - 1) \div fft_size) |->
                            fft("Forward", power, coset * fft_size, coefficients)]
    IN  [i \in 0..(requested - 1) |->
            CASE i < nodes_len -> p[i]
              [] i >= nodes_len /\ i < fft_size -> transformed[i]
              [] OTHER -> coset_values[i \div fft_size][i % fft_size]]

-----------------------------------------------------------------------------

\* Multiples of the unit vectors and of the vector of ones: extend is linear.
NodeVectors(n) ==
    {[i \in 0..(n - 1) |-> IF i = u THEN s ELSE Zero] : u \in 0..(n - 1), s \in Scales}
        \cup {[i \in 0..(n - 1) |-> s] : s \in Scales}

\* As many evaluations as nodes are one coset of points.
extend_2_128_precompute ==
    /\ context = None
    /\ \E nodes_len \in 1..PointCount, evaluations \in 1..PointCount :
          /\ evaluations >= nodes_len
          /\ context' = [nodes_len |-> nodes_len, evaluations |-> evaluations]
    /\ UNCHANGED <<nodes, output>>

extend_2_128 ==
    /\ context # None /\ nodes = <<>>
    /\ nodes' \in NodeVectors(context.nodes_len)
    /\ output' = interpolate(nodes', context.nodes_len, context.evaluations)
    /\ UNCHANGED context

-----------------------------------------------------------------------------
(* Properties.                                                             *)

BinaryPoints == [j \in 0..(PointCount - 1) |-> inject(j)]

Product(f, n) ==
    LET product[k \in 0..n] == IF k = 0 THEN One ELSE Mul(product[k - 1], f[k - 1])
    IN  product[n]

\* The Lagrange polynomials of the first n points, at every point.
BinaryLagrangeBasis ==
    [n \in 1..PointCount |-> [i \in 0..(n - 1) |-> [j \in 0..(PointCount - 1) |->
        Product([k \in 0..(n - 1) |->
                    IF k = i THEN One
                    ELSE Mul(Add(BinaryPoints[j], BinaryPoints[k]), inverse(Add(BinaryPoints[i], BinaryPoints[k])))],
                n)]]]

\* extend returns the values of the polynomial through the nodes at the
\* injected points, wherever nodes and evaluations end between powers of two.
ExtendIsInterpolation_2_128 ==
    output # <<>> =>
        \A j \in 0..(context.evaluations - 1) :
            output[j] = SumOver([i \in DOMAIN nodes |->
                                    Mul(nodes[i], BinaryLagrangeBasis[context.nodes_len][i][j])],
                                DOMAIN nodes)
=============================================================================
