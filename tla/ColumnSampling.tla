--------------------------- MODULE ColumnSampling ---------------------------
(***************************************************************************)
(* generate_naturals_without_replacement of transcript.rs: the verifier's  *)
(* choice of the tableau columns to open.  Numbers are read from the       *)
(* challenge stream by rejection sampling and shuffle the front of a list. *)
(* Several samplers run the same call on different streams, so that their  *)
(* results can be compared.                                                *)
(***************************************************************************)
EXTENDS Integers, Sequences, FiniteSets

CONSTANTS Sampler,    \* the calls being compared
          Requests,   \* pairs <<max, count>> the function is called with
          ByteBits    \* bits of a byte of the stream (8 in the code)

ASSUME RequestsAssumption ==
    /\ \A r \in Requests : r[1] \in Nat /\ r[2] \in Nat /\ r[1] > r[2]
    /\ ByteBits \in Nat \ {0}

VARIABLES
    max, count, \* the arguments
    list,       \* the values not yet drawn, after those drawn
    i,          \* loop variable of each sampler
    draws       \* history: the naturals each sampler took from its stream

sampling_vars == <<max, count, list, i, draws>>

-----------------------------------------------------------------------------
(* generate_natural                                                        *)

ilog2(m) == CHOOSE e \in 0..m : 2^e <= m /\ m < 2^(e + 1)

\* Faulty variant of num_bits: rounds the logarithm down.
num_bits_floor(m) == ilog2(m)

\* Bits of the numbers below m: one more than the logarithm unless m is a power of two.
num_bits(m) == IF m = 2^ilog2(m) THEN ilog2(m) ELSE ilog2(m) + 1

num_sampled_bytes(m) == (num_bits(m) + ByteBits - 1) \div ByteBits

\* The little-endian value of the sampled bytes, once the excess bits of the last one
\* are masked off.
MaskedValue(bytes, m) ==
    LET last  == num_sampled_bytes(m)
        value[k \in 0..last] ==
          IF k = 0 THEN 0 ELSE value[k - 1] + bytes[k] * 2^(ByteBits * (k - 1))
    IN  value[last] % 2^num_bits(m)

SampledBytes(m) == [1..num_sampled_bytes(m) -> 0..(2^ByteBits - 1)]

\* What generate_natural may return: the loop goes round until the value is below m.
Naturals(m) ==
    {n \in 0..(m - 1) : \E bytes \in SampledBytes(m) : MaskedValue(bytes, m) = n}

-----------------------------------------------------------------------------
SamplingInit ==
    /\ \E r \in Requests : max = r[1] /\ count = r[2]
    /\ list = [s \in Sampler |-> [k \in 0..(max - 1) |-> k]]
    /\ i = [s \in Sampler |-> 0]
    /\ draws = [s \in Sampler |-> <<>>]

\* Faulty variant of Swap: forgets to keep the value it displaces.
Swap_losing(l, a, b) == [l EXCEPT ![a] = l[b]]

Swap(l, a, b) == [l EXCEPT ![a] = l[b], ![b] = l[a]]

\* Faulty variant of DrawNatural: draws from the whole list, as a naive shuffle does.
DrawNatural_whole(s) ==
    /\ i[s] < count
    /\ \E natural \in Naturals(max) :
         /\ list' = [list EXCEPT ![s] = Swap(list[s], i[s], natural)]
         /\ draws' = [draws EXCEPT ![s] = Append(@, natural)]
    /\ i' = [i EXCEPT ![s] = @ + 1]
    /\ UNCHANGED <<max, count>>

\* One iteration: j = i + generate_natural(max - i), list.swap(i, j).
DrawNatural(s) ==
    /\ i[s] < count
    /\ \E natural \in Naturals(max - i[s]) :
         /\ list' = [list EXCEPT ![s] = Swap(list[s], i[s], i[s] + natural)]
         /\ draws' = [draws EXCEPT ![s] = Append(@, natural)]
    /\ i' = [i EXCEPT ![s] = @ + 1]
    /\ UNCHANGED <<max, count>>

SamplingNext == \E s \in Sampler : DrawNatural(s)

SamplingSpec == SamplingInit /\ [][SamplingNext]_sampling_vars

-----------------------------------------------------------------------------
\* list.truncate(count)
Result(s) == [k \in 0..(count - 1) |-> list[s][k]]

\* Type invariant of the samplers.
SamplingTypeOK ==
    /\ max \in Nat /\ count \in Nat /\ max > count
    /\ list \in [Sampler -> [0..(max - 1) -> 0..(max - 1)]]
    /\ i \in [Sampler -> 0..count]
    /\ DOMAIN draws = Sampler

\* No value is lost or repeated by the shuffle: the columns drawn are distinct, which
\* is what the Merkle proof and the column checks of the Ligero verifier rely on.
ColumnsDistinct ==
    \A s \in Sampler : \A a, b \in 0..(max - 1) : list[s][a] = list[s][b] => a = b

\* The result determines the naturals it was made from.
ResultDeterminesDraws ==
    \A s, t \in Sampler :
        i[s] = count /\ i[t] = count /\ Result(s) = Result(t) => draws[s] = draws[t]

\* Every natural below the bound is the value of equally many byte strings, at least one.
NaturalsUniform ==
    \A s \in Sampler : i[s] < count =>
        LET m == max - i[s]
            strings(n) == {bytes \in SampledBytes(m) : MaskedValue(bytes, m) = n}
        IN  \A n \in 0..(m - 1) :
              Cardinality(strings(n)) > 0 /\ Cardinality(strings(n)) = Cardinality(strings(0))

\* Every list of distinct columns is chosen with the same probability: naturals are drawn
\* uniformly, by rejection, and as many lists of them give one choice as another.
SamplingUnbiased == ResultDeterminesDraws /\ NaturalsUniform
=============================================================================
