------------------------------ MODULE FiatOps ------------------------------
(***************************************************************************)
(* The generated arithmetic of the prime fields, fields/fieldp256/ops.rs,  *)
(* fields/fieldp128/ops.rs and fields/fieldp256_scalar/ops.rs: word-by-    *)
(* word Montgomery multiplication with explicit carries and borrows.  A    *)
(* field F is a record: bits, the width of a word; byte_bits, that of a    *)
(* byte; limbs, the modulus as words from the lowest.  An element is a     *)
(* function from the indexes of its words.                                 *)
(***************************************************************************)
EXTENDS Integers, FiniteSets

CONSTANTS
    P256, P128, P256Scalar,   \* the three fields
    Operands(_)               \* bound: second factors and terms, as integers

Base(F) == 2^F.bits
Size(F) == Cardinality(DOMAIN F.limbs)
Indexes(F) == 0..(Size(F) - 1)

\* The integer that words stand for: eval of the comments.
Eval(F, words) ==
    LET sum[i \in 0..Cardinality(DOMAIN words)] ==
            IF i = 0 THEN 0 ELSE sum[i - 1] + words[i - 1] * Base(F)^(i - 1)
    IN  sum[Cardinality(DOMAIN words)]

Prime(F) == Eval(F, F.limbs)

\* What the code takes from its moduli: the third word of p256 is skipped
\* because it is zero, the lowest words of p256 and of p128 make the quotient of
\* a reduction a word itself or its negation, and a digest is reduced by one
\* subtraction, which the scalar modulus is large enough for.
ASSUME ModuliAssumption ==
    /\ DOMAIN P256.limbs = 0..3 /\ P256.limbs[2] = 0 /\ P256.limbs[0] = 2^P256.bits - 1
    /\ DOMAIN P128.limbs = 0..1 /\ P128.limbs[0] = 1
    /\ 2 * Prime(P256Scalar) > Base(P256Scalar)^Size(P256Scalar)

Words(F, value) == [i \in Indexes(F) |-> (value \div Base(F)^i) % Base(F)]

-----------------------------------------------------------------------------
(* Words.                                                                  *)

\* The two words of a double one.
Low(F, double) == double % Base(F)
High(F, double) == double \div Base(F)

addcarryx(carry, x, y) == carry + x + y
mulx(x, y) == x * y

\* A negative difference keeps its low word; its borrow is minus its high word.
subborrowx(borrow, x, y) == x - borrow - y
Borrow(F, double) == -High(F, double)

cmovznz(c, x, y) == IF c = 0 THEN x ELSE y

-----------------------------------------------------------------------------
(* Chains of words.                                                        *)

\* The sum of equally many words, with the last carry as one word more.
AddWords(F, x, y) ==
    LET n == Cardinality(DOMAIN x)
        carry[i \in 0..n] == IF i = 0 THEN 0 ELSE High(F, addcarryx(carry[i - 1], x[i - 1], y[i - 1]))
    IN  [i \in 0..n |-> IF i = n THEN carry[n] ELSE Low(F, addcarryx(carry[i], x[i], y[i]))]

\* The difference, with the last borrow as one word more.
SubtractWords(F, x, y) ==
    LET n == Cardinality(DOMAIN x)
        borrow[i \in 0..n] ==
            IF i = 0 THEN 0 ELSE Borrow(F, subborrowx(borrow[i - 1], x[i - 1], y[i - 1]))
    IN  [i \in 0..n |-> IF i = n THEN borrow[n] ELSE Low(F, subborrowx(borrow[i], x[i], y[i]))]

\* A word times the words of y: the high part of a product is added to the
\* low part of the next, and the last carry to the last high part.
Row(F, word, y) ==
    LET n == Cardinality(DOMAIN y)
        highs == [i \in 0..n |-> IF i = 0 THEN 0 ELSE High(F, mulx(word, y[i - 1]))]
        lows == [i \in 0..n |-> IF i = n THEN 0 ELSE Low(F, mulx(word, y[i]))]
        sum == AddWords(F, highs, lows)
    IN  [i \in 0..n |-> sum[i]]

Padded(words, n) == [i \in 0..n |-> IF i \in DOMAIN words THEN words[i] ELSE 0]

\* Faulty variant of ReducedOnce: the carry out of the words is not compared.
ReducedOnce_without_top(F, words) ==
    LET n == Size(F)
        difference == SubtractWords(F, [i \in Indexes(F) |-> words[i]], F.limbs)
    IN  [i \in Indexes(F) |-> cmovznz(difference[n], difference[i], words[i])]

\* The end of every sum and product: subtract the modulus from the words and
\* the carry above them, and keep the words if that borrows.
ReducedOnce(F, words) ==
    LET n == Size(F)
        difference == SubtractWords(F, [i \in 0..n |-> words[i]], Padded(F.limbs, n))
    IN  [i \in Indexes(F) |-> cmovznz(difference[n + 1], difference[i], words[i])]

\* The sum of an accumulator and a multiple of the modulus that clears its
\* lowest word, without that word; the accumulator's top word takes the carry.
Shifted(F, accumulator, multiple) ==
    LET n == Size(F)
        low == [i \in 0..n |-> accumulator[i]]
        sum == AddWords(F, low, multiple)
        top == IF n + 1 \in DOMAIN accumulator THEN accumulator[n + 1] ELSE 0
    IN  [i \in 0..n |-> IF i < n THEN sum[i + 1] ELSE (sum[n + 1] + top) % Base(F)]

-----------------------------------------------------------------------------
(* Reduction by a word, as each modulus allows.                            *)

\* The lowest word is the quotient; the third word of the modulus is zero.
p256_reduction(accumulator) ==
    LET quotient == accumulator[0]
        product(i) == mulx(quotient, P256.limbs[i])
        second == addcarryx(0, High(P256, product(0)), Low(P256, product(1)))
        multiple == [i \in 0..4 |->
            CASE i = 0 -> Low(P256, product(0))
              [] i = 1 -> Low(P256, second)
              [] i = 2 -> (High(P256, second) + High(P256, product(1))) % Base(P256)
              [] i = 3 -> Low(P256, product(3))
              [] i = 4 -> High(P256, product(3))]
    IN  Shifted(P256, accumulator, multiple)

\* The quotient is the negated lowest word, and is the lowest word of the
\* multiple too, the modulus being one above a multiple of the base.
p128_reduction(accumulator) ==
    LET quotient == Low(P128, mulx(accumulator[0], Base(P128) - 1))
        product == mulx(quotient, P128.limbs[1])
        multiple == [i \in 0..2 |->
            CASE i = 0 -> quotient [] i = 1 -> Low(P128, product) [] i = 2 -> High(P128, product)]
    IN  Shifted(P128, accumulator, multiple)

\* The constant of the scalar field: minus the inverse of its lowest word.
p256_scalar_inverse ==
    CHOOSE w \in 0..(Base(P256Scalar) - 1) : (w * P256Scalar.limbs[0] + 1) % Base(P256Scalar) = 0

p256_scalar_reduction(accumulator) ==
    LET quotient == Low(P256Scalar, mulx(accumulator[0], p256_scalar_inverse))
    IN  Shifted(P256Scalar, accumulator, Row(P256Scalar, quotient, P256Scalar.limbs))

-----------------------------------------------------------------------------
(* Calls.                                                                  *)

VARIABLES
    request,       \* the call made: field, function, and operands x and y
    call,          \* the generated function that runs for it
    phase,         \* "row", "reduction", "subtraction", or "returned"
    round,         \* the word of the first factor
    accumulator,   \* words of the sum of products, one above an element's
    result         \* what the function wrote to out1

fiat_vars == <<request, call, phase, round, accumulator, result>>

\* No request: of a behaviour that is of another operation.
FiatNothing == [field |-> P256, function |-> "none", x |-> <<>>, y |-> <<>>]

\* What a decoder returns of bytes that are not less than the modulus.
Invalid == <<>>

Zeros(F) == [i \in Indexes(F) |-> 0]

\* The factor of to_montgomery, a constant: the square of the words' range.
RSquared(F) ==
    LET r == (Base(F)^Size(F)) % Prime(F) IN Words(F, (r * r) % Prime(F))

\* A round begins with a row, which is added to the accumulator.
Round(F, function, row) ==
    /\ phase = "row"
    /\ call.field = F /\ call.function = function
    /\ accumulator' = IF round = 0 THEN row ELSE AddWords(F, accumulator, row)
    /\ phase' = "reduction"
    /\ UNCHANGED <<request, call, round, result>>

RowOfProduct(F) == Row(F, call.x[round], call.y)

\* The row of a value that is only reduced, and only shrinks: its next word.
Digit(F) == [k \in 0..Size(F) |-> IF k = 0 THEN call.x[round] ELSE 0]

p256_mul == Round(P256, "mul", RowOfProduct(P256))
p256_square == Round(P256, "square", RowOfProduct(P256))
p256_to_montgomery == Round(P256, "to_montgomery", RowOfProduct(P256))
p256_from_montgomery == Round(P256, "from_montgomery", Digit(P256))

p128_mul == Round(P128, "mul", RowOfProduct(P128))
p128_square == Round(P128, "square", RowOfProduct(P128))
p128_to_montgomery == Round(P128, "to_montgomery", RowOfProduct(P128))
p128_from_montgomery == Round(P128, "from_montgomery", Digit(P128))

p256_scalar_mul == Round(P256Scalar, "mul", RowOfProduct(P256Scalar))
p256_scalar_square == Round(P256Scalar, "square", RowOfProduct(P256Scalar))
p256_scalar_to_montgomery == Round(P256Scalar, "to_montgomery", RowOfProduct(P256Scalar))
p256_scalar_from_montgomery == Round(P256Scalar, "from_montgomery", Digit(P256Scalar))

\* It ends with the reduction by a word; the last one is followed by the
\* subtraction of the modulus.
Reduce(F, reduced) ==
    /\ phase = "reduction"
    /\ call.field = F
    /\ accumulator' = reduced
    /\ round' = round + 1
    /\ phase' = IF round + 1 = Size(F) THEN "subtraction" ELSE "row"
    /\ UNCHANGED <<request, call, result>>

p256_reduce == Reduce(P256, p256_reduction(accumulator))
p128_reduce == Reduce(P128, p128_reduction(accumulator))
p256_scalar_reduce == Reduce(P256Scalar, p256_scalar_reduction(accumulator))

\* A function writes its result and returns.
Returns(F, value) ==
    /\ call.field = F
    /\ result' = value
    /\ phase' = "returned"
    /\ UNCHANGED <<request, call, round, accumulator>>

SubtractModulus(F) == phase = "subtraction" /\ Returns(F, ReducedOnce(F, accumulator))

p256_subtract == SubtractModulus(P256)
p128_subtract == SubtractModulus(P128)
p256_scalar_subtract == SubtractModulus(P256Scalar)

-----------------------------------------------------------------------------
(* The functions without rounds.                                           *)

Calls(function) == phase = "call" /\ call.function = function

Total(F) == ReducedOnce(F, AddWords(F, call.x, call.y))

\* A difference that borrows gets the modulus added, words masked by all ones.
Difference(F, x, y) ==
    LET n == Size(F)
        difference == SubtractWords(F, x, y)
        mask == cmovznz(difference[n], 0, Base(F) - 1)
        modulus == [i \in Indexes(F) |-> IF mask = 0 THEN 0 ELSE F.limbs[i]]
        sum == AddWords(F, [i \in Indexes(F) |-> difference[i]], modulus)
    IN  [i \in Indexes(F) |-> sum[i]]

p256_add == Calls("add") /\ Returns(P256, Total(P256))
p256_sub == Calls("sub") /\ Returns(P256, Difference(P256, call.x, call.y))
p256_opp == Calls("opp") /\ Returns(P256, Difference(P256, Zeros(P256), call.x))

p128_add == Calls("add") /\ Returns(P128, Total(P128))
p128_sub == Calls("sub") /\ Returns(P128, Difference(P128, call.x, call.y))
p128_opp == Calls("opp") /\ Returns(P128, Difference(P128, Zeros(P128), call.x))

p256_scalar_add == Calls("add") /\ Returns(P256Scalar, Total(P256Scalar))
p256_scalar_sub == Calls("sub") /\ Returns(P256Scalar, Difference(P256Scalar, call.x, call.y))
p256_scalar_opp ==
    Calls("opp") /\ Returns(P256Scalar, Difference(P256Scalar, Zeros(P256Scalar), call.x))

-----------------------------------------------------------------------------
(* Bytes, from the lowest, and the encodings of the fields.                *)

BytesOfWord(F) == F.bits \div F.byte_bits
ByteIndexes(F) == 0..(Size(F) * BytesOfWord(F) - 1)

\* Each word is shifted out byte by byte.
to_bytes(F, words) ==
    [k \in ByteIndexes(F) |->
        (words[k \div BytesOfWord(F)] \div 2^(F.byte_bits * (k % BytesOfWord(F)))) % 2^F.byte_bits]

\* Each word is the sum of its bytes, shifted.
from_bytes(F, bytes) ==
    LET sum[k \in ByteIndexes(F)] ==
            bytes[k] * 2^(F.byte_bits * (k % BytesOfWord(F)))
                + (IF k % BytesOfWord(F) = 0 THEN 0 ELSE sum[k - 1])
    IN  [i \in Indexes(F) |-> sum[(i + 1) * BytesOfWord(F) - 1]]

\* Bytes compare with those of the modulus from the highest on.
LessThanModulus(F, bytes) ==
    LET modulus == to_bytes(F, F.limbs)
    IN  \E k \in ByteIndexes(F) :
            /\ bytes[k] < modulus[k]
            /\ \A above \in ByteIndexes(F) : above > k => bytes[above] = modulus[above]

\* A wrapper calls a generated function and returns what it returns.
ThenCalls(F, function, x, y) ==
    /\ call.field = F
    /\ call' = [field |-> F, function |-> function, x |-> x, y |-> y]
    /\ phase' = IF function = "to_montgomery" THEN "row" ELSE "call"
    /\ UNCHANGED <<request, round, accumulator, result>>

Decode(F, words) ==
    /\ Calls("try_from") /\ call.field = F
    /\ IF LessThanModulus(F, call.x)
       THEN ThenCalls(F, "to_montgomery", words, RSquared(F))
       ELSE Returns(F, Invalid)

p256_from_bytes == Decode(P256, from_bytes(P256, call.x))
p128_from_bytes == Decode(P128, from_bytes(P128, call.x))
p256_scalar_from_bytes == Decode(P256Scalar, from_bytes(P256Scalar, call.x))

\* An element is encoded as the bytes of its residue.
Encode(F, bytes) ==
    /\ phase = "returned"
    /\ request.function = "encode"
    /\ call.field = F
    /\ phase' = "encoded"
    /\ result' = bytes
    /\ UNCHANGED <<request, call, round, accumulator>>

p256_to_bytes == Encode(P256, to_bytes(P256, result))
p128_to_bytes == Encode(P128, to_bytes(P128, result))
p256_scalar_to_bytes == Encode(P256Scalar, to_bytes(P256Scalar, result))

\* An integer of half the words of p256 or of a scalar is below the modulus;
\* one as long as an element of p128 is reduced first.
Half(F, words) == [i \in Indexes(F) |-> IF 2 * i < Size(F) THEN words[i] ELSE 0]

FromInteger(F, words) == Calls("from_u128") /\ ThenCalls(F, "to_montgomery", words, RSquared(F))

p256_from_u128 == FromInteger(P256, Half(P256, call.x))
p128_from_u128 == FromInteger(P128, Words(P128, Eval(P128, call.x) % Prime(P128)))
p256_scalar_from_u128 == FromInteger(P256Scalar, Half(P256Scalar, call.x))

\* A digest is an integer as long as a scalar: subtract the modulus, keep the
\* digest if that borrows, and decode what was selected.
from_hash ==
    LET F == P256Scalar
        difference == SubtractWords(F, call.x, F.limbs)
        selected == [i \in Indexes(F) |-> cmovznz(difference[Size(F)], difference[i], call.x[i])]
    IN  /\ Calls("from_hash")
        /\ ThenCalls(F, "try_from", to_bytes(F, selected), Zeros(F))

-----------------------------------------------------------------------------

PrimeFields == {P256, P128, P256Scalar}
Residues(F) == {Words(F, value) : value \in 0..(Prime(F) - 1)}
Values(F) == 0..(Base(F)^Size(F) - 1)

Requests(F) ==
    [field : {F}, function : {"mul", "add", "sub"}, x : Residues(F), y : {Words(F, v) : v \in Operands(F)}]
    \cup [field : {F}, function : {"square", "to_montgomery", "from_montgomery", "opp", "encode"},
          x : Residues(F), y : {Zeros(F)}]
    \cup [field : {F}, function : {"try_from"}, x : {to_bytes(F, Words(F, v)) : v \in Values(F)},
          y : {Zeros(F)}]
    \cup [field : {F}, function : {"from_u128"}, y : {Zeros(F)},
          x : {Words(F, v) : v \in {v \in Values(F) : F # P128 => v < Base(F)^(Size(F) \div 2)}}]
    \cup [field : {F}, function : IF F = P256Scalar THEN {"from_hash"} ELSE {}, y : {Zeros(F)},
          x : {Words(F, v) : v \in Values(F)}]

HasRounds(function) == function \in {"mul", "square", "to_montgomery", "from_montgomery"}

\* The first function that a request runs.
FirstCall(r) ==
    LET function == IF r.function = "encode" THEN "from_montgomery" ELSE r.function
    IN  [field |-> r.field, function |-> function, x |-> r.x,
         y |-> CASE function = "square" -> r.x
                 [] function = "to_montgomery" -> RSquared(r.field)
                 [] OTHER -> r.y]

FiatInit ==
    /\ request \in UNION {Requests(F) : F \in PrimeFields}
    /\ call = FirstCall(request)
    /\ phase = IF HasRounds(call.function) THEN "row" ELSE "call"
    /\ round = 0
    /\ accumulator = Zeros(request.field)
    /\ result = Zeros(request.field)

FiatNext ==
    \/ p256_mul \/ p256_square \/ p256_to_montgomery \/ p256_from_montgomery
    \/ p128_mul \/ p128_square \/ p128_to_montgomery \/ p128_from_montgomery
    \/ p256_scalar_mul \/ p256_scalar_square
    \/ p256_scalar_to_montgomery \/ p256_scalar_from_montgomery
    \/ p256_reduce \/ p128_reduce \/ p256_scalar_reduce
    \/ p256_subtract \/ p128_subtract \/ p256_scalar_subtract
    \/ p256_add \/ p256_sub \/ p256_opp
    \/ p128_add \/ p128_sub \/ p128_opp
    \/ p256_scalar_add \/ p256_scalar_sub \/ p256_scalar_opp
    \/ p256_from_bytes \/ p128_from_bytes \/ p256_scalar_from_bytes
    \/ p256_to_bytes \/ p128_to_bytes \/ p256_scalar_to_bytes
    \/ p256_from_u128 \/ p128_from_u128 \/ p256_scalar_from_u128 \/ from_hash

-----------------------------------------------------------------------------
(* Properties.                                                             *)

EvalBytes(F, bytes) ==
    LET sum[k \in ByteIndexes(F)] ==
            bytes[k] * 2^(F.byte_bits * k) + (IF k = 0 THEN 0 ELSE sum[k - 1])
    IN  sum[Cardinality(ByteIndexes(F)) - 1]

\* Every function of the generated arithmetic, and every wrapper that encodes,
\* decodes or reduces, computes what it stands for modulo the prime, and what
\* it returns is below the prime: comparisons and all further calls rely on it.
FieldOperationsAreModular ==
    LET F == request.field
        R == Base(F)^Size(F)
        Congruent(a, b) == (a - b) % Prime(F) = 0
        x == Eval(F, request.x)
        y == Eval(F, request.y)
        out == Eval(F, result)
    IN  CASE phase \notin {"returned", "encoded"} -> TRUE
          [] request.function = "encode" /\ phase = "returned" -> TRUE
          [] phase = "encoded" ->
                /\ EvalBytes(F, result) < Prime(F)
                /\ Congruent(EvalBytes(F, result) * R, x)
          [] request.function = "try_from" ->
                LET value == EvalBytes(F, request.x)
                IN  IF value >= Prime(F) THEN result = Invalid
                    ELSE out < Prime(F) /\ Congruent(out, value * R)
          [] request.function = "from_u128" -> out < Prime(F) /\ Congruent(out, x * R)
          [] OTHER ->
                /\ out < Prime(F)
                /\ request.function \in {"mul", "square"} =>
                       Congruent(out * R, x * (IF request.function = "mul" THEN y ELSE x))
                /\ request.function \in {"to_montgomery", "from_hash"} => Congruent(out, x * R)
                /\ request.function = "from_montgomery" => Congruent(out * R, x)
                /\ request.function = "add" => Congruent(out, x + y)
                /\ request.function = "sub" => Congruent(out, x - y)
                /\ request.function = "opp" => Congruent(out, -x)
=============================================================================
