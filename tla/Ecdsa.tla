------------------------------- MODULE Ecdsa -------------------------------
(***************************************************************************)
(* mdoc_zk/ec.rs and nymauth/ecdsa.rs.  The curve y^2 = x^3 - 3x + b, over *)
(* a prime field small enough to enumerate: affine and projective points,  *)
(* the complete formulas that add and double them, and multiplication by a *)
(* scalar, one bit after another.  An affine point is a pair of            *)
(* coordinates, or nothing at infinity; a projective one has x, y and z.   *)
(*                                                                         *)
(* Both applications check a signature by adding up G*e + Q*r - R*s one    *)
(* bit after another, and each partial sum is recorded for the signature   *)
(* circuit.  They have formulas, and checks on the way, of their own.  A   *)
(* behaviour is one credential whose key, signature and hash are read and  *)
(* then checked by one of them.                                            *)
(***************************************************************************)
EXTENDS Integers, Sequences

CONSTANTS
    BasePrime,       \* the prime of the coordinates, 3 modulo 4
    CurveB,          \* b
    Generator,       \* G, an affine point
    GroupOrder,      \* how many points the curve has: a prime
    ScalarBits       \* bits of a scalar, and of a hash

ASSUME CurveAssumption ==
    /\ BasePrime \in Nat /\ BasePrime % 4 = 3 /\ BasePrime > 3
    /\ \A d \in 2..(BasePrime - 1) : BasePrime % d # 0
    /\ GroupOrder \in Nat /\ 3 < GroupOrder /\ GroupOrder < BasePrime
    /\ \A d \in 2..(GroupOrder - 1) : GroupOrder % d # 0
    /\ ScalarBits \in Nat /\ BasePrime < 2^ScalarBits /\ 2^ScalarBits < 2 * GroupOrder

CONSTANTS
    EncodedKeys,     \* how keys are written: who holds it, the prefix byte, the rest
    Scalars,         \* values of 32 bytes of a signature
    Digests          \* hashes that are signed

ASSUME InputsAssumption ==
    Scalars \cup Digests \subseteq 0..(2^ScalarBits - 1)

-----------------------------------------------------------------------------
(* The curve.                                                              *)

Coordinates == 0..(BasePrime - 1)

m(a) == a % BasePrime

Power(a, n) == LET power[k \in 0..n] == IF k = 0 THEN 1 ELSE m(power[k - 1] * a) IN power[n]

\* FieldP256::mul_inv, of zero too: an exponentiation.
mul_inv_p(a) == Power(a, BasePrime - 2)

\* FieldP256Scalar::mul_inv
mul_inv_n(a) ==
    LET power[k \in 0..(GroupOrder - 2)] == IF k = 0 THEN 1 ELSE (power[k - 1] * a) % GroupOrder
    IN  power[GroupOrder - 2]

CurveAt(x) == m(x * m(x * x) - 3 * x + CurveB)
OnCurve(point) == m(point[2] * point[2]) = CurveAt(point[1])

infinity == <<>>
IDENTITY == [x |-> 0, y |-> 1, z |-> 0]

Points == {infinity} \cup {point \in Coordinates \X Coordinates : OnCurve(point)}

ASSUME GeneratorAssumption == Generator \in Points \ {infinity}

-----------------------------------------------------------------------------
(* ProjectivePoint.                                                        *)

FromAffine(a) == IF a = infinity THEN IDENTITY ELSE [x |-> a[1], y |-> a[2], z |-> 1]

FromProjective(u) ==
    IF u.z = 0 THEN infinity ELSE <<m(u.x * mul_inv_p(u.z)), m(u.y * mul_inv_p(u.z))>>

\* Faulty variant of AddPoints: step 22 is left out, and x3 is doubled, not tripled.
AddPoints_doubled(u, v) ==
    LET xx == m(u.x * v.x)   yy == m(u.y * v.y)   zz == m(u.z * v.z)
        xy == m((u.x + u.y) * (v.x + v.y) - xx - yy)
        yz == m((u.y + u.z) * (v.y + v.z) - yy - zz)
        xz == m((u.x + u.z) * (v.x + v.z) - xx - zz)
        s  == m(2 * (xz - CurveB * zz))
        w  == m(3 * (CurveB * xz - 3 * zz - xx))
        q  == m(3 * xx - 3 * zz)
    IN  [x |-> m(xy * (yy + s) - yz * w), y |-> m((yy + s) * (yy - s) + q * w),
         z |-> m(yz * (yy - s) + xy * q)]

\* Algorithm 4 of Renes, Costello and Batina: u and v may be equal, opposite or the identity.
AddPoints(u, v) ==
    LET xx == m(u.x * v.x)   yy == m(u.y * v.y)   zz == m(u.z * v.z)
        xy == m((u.x + u.y) * (v.x + v.y) - xx - yy)
        yz == m((u.y + u.z) * (v.y + v.z) - yy - zz)
        xz == m((u.x + u.z) * (v.x + v.z) - xx - zz)
        s  == m(3 * (xz - CurveB * zz))
        w  == m(3 * (CurveB * xz - 3 * zz - xx))
        q  == m(3 * xx - 3 * zz)
    IN  [x |-> m(xy * (yy + s) - yz * w), y |-> m((yy + s) * (yy - s) + q * w),
         z |-> m(yz * (yy - s) + xy * q)]

\* Algorithm 5: v is affine, and nothing is done for the point at infinity.
AddAffine(u, v) ==
    IF v = infinity THEN u
    ELSE LET xx == m(u.x * v[1])   yy == m(u.y * v[2])
             xy == m((v[1] + v[2]) * (u.x + u.y) - xx - yy)
             yz == m(v[2] * u.z + u.y)
             xz == m(v[1] * u.z + u.x)
             s  == m(3 * (xz - CurveB * u.z))
             w  == m(3 * (CurveB * xz - 3 * u.z - xx))
             q  == m(3 * xx - 3 * u.z)
         IN  [x |-> m(xy * (yy + s) - yz * w), y |-> m((yy + s) * (yy - s) + q * w),
              z |-> m(yz * (yy - s) + xy * q)]

\* Algorithm 6.
double(u) ==
    LET yy  == m(u.y * u.y)   zz == m(u.z * u.z)
        xy2 == m(2 * u.x * u.y)   xz2 == m(2 * u.x * u.z)   yz2 == m(2 * u.y * u.z)
        s   == m(3 * (CurveB * zz - xz2))
        w   == m(3 * (CurveB * xz2 - 3 * zz - u.x * u.x))
        q   == m(3 * u.x * u.x - 3 * zz)
    IN  [x |-> m((yy - s) * xy2 - yz2 * w), y |-> m((yy - s) * (yy + s) + q * w),
         z |-> m(4 * m(yz2 * yy))]

\* dbl of nymauth/ecdsa.rs, with a = -3.
dbl(u) ==
    LET xx == m(u.x * u.x)   yy == m(u.y * u.y)   zz == m(u.z * u.z)
        xy2 == m(2 * u.x * u.y)   xz2 == m(2 * u.x * u.z)   yz2 == m(2 * u.y * u.z)
        s   == m(3 * CurveB * zz - 3 * xz2)
        w   == m(3 * CurveB * xz2 - 3 * xx - 9 * zz)
        q   == m(3 * xx - 3 * zz)
    IN  [x |-> m(xy2 * (yy - s) - yz2 * w), y |-> m((yy - s) * (yy + s) + q * w),
         z |-> m(4 * m(yz2 * yy))]

\* add of nymauth/ecdsa.rs, with a = -3.
add_p3(u, v) ==
    LET xx == m(u.x * v.x)   yy == m(u.y * v.y)   zz == m(u.z * v.z)
        xy == m((u.x + u.y) * (v.x + v.y) - xx - yy)
        xz == m((u.x + u.z) * (v.x + v.z) - xx - zz)
        yz == m((u.y + u.z) * (v.y + v.z) - yy - zz)
        s  == m(3 * CurveB * zz - 3 * xz)
        w  == m(3 * CurveB * xz - 3 * (xx + 3 * zz))
        q  == m(3 * xx - 3 * zz)
    IN  [x |-> m(xy * (yy - s) - yz * w), y |-> m((yy - s) * (yy + s) + q * w),
         z |-> m(yz * (yy + s) + xy * q)]

\* Scalar::bits, the most significant first.
bits(scalar) == [k \in 1..ScalarBits |-> (scalar \div 2^(ScalarBits - k)) % 2]

MultiplyBy(u, scalar, Double(_), Add(_, _)) ==
    LET after[k \in 0..ScalarBits] ==
          IF k = 0 THEN IDENTITY
          ELSE LET twice == Double(after[k - 1])
               IN  IF bits(scalar)[k] = 1 THEN Add(twice, u) ELSE twice
    IN  after[ScalarBits]

scalar_mult(u, scalar) == MultiplyBy(u, scalar, double, AddPoints)
scalar_mul(u, scalar) == MultiplyBy(u, scalar, dbl, add_p3)

-----------------------------------------------------------------------------
(* AffinePoint::decode.                                                    *)

\* FieldP256::sqrt: p is 3 modulo 4.
sqrt(a) == LET candidate == Power(a, (BasePrime + 1) \div 4)
           IN  IF m(candidate * candidate) = a THEN {candidate} ELSE {}

\* What a point is written as: the prefix byte, and each 32 bytes that follow as a number.
\* The set is empty if the point is refused.
decode_point(prefix, rest) ==
    IF Len(rest) = 0 THEN IF prefix = 0 THEN {infinity} ELSE {}
    ELSE IF \E k \in DOMAIN rest : rest[k] \notin Coordinates THEN {}
    ELSE IF Len(rest) = 1
         THEN IF prefix \notin {2, 3} THEN {}
              ELSE {<<rest[1], IF beta % 2 = prefix % 2 THEN beta ELSE m(-beta)>> :
                       beta \in sqrt(CurveAt(rest[1]))}
         ELSE IF prefix = 4 /\ OnCurve(rest) THEN {rest} ELSE {}

-----------------------------------------------------------------------------
(* The group, by chord and tangent.                                        *)

Reflected(a) == IF a = infinity THEN a ELSE <<a[1], m(-a[2])>>

Chord(a, b) ==
    IF a = infinity THEN b ELSE IF b = infinity THEN a
    ELSE IF a = Reflected(b) THEN infinity
    ELSE LET slope == IF a = b THEN m(m(3 * a[1] * a[1] - 3) * mul_inv_p(m(2 * a[2])))
                      ELSE m(m(a[2] - b[2]) * mul_inv_p(m(a[1] - b[1])))
             x == m(slope * slope - a[1] - b[1])
         IN  <<x, m(slope * (a[1] - x) - a[2])>>

\* The multiples 0G to (n-1)G of a point.
Multiples(a) ==
    LET multiple[k \in 0..(GroupOrder - 1)] ==
          IF k = 0 THEN infinity ELSE Chord(multiple[k - 1], a)
    IN  multiple

-----------------------------------------------------------------------------
(* The check of a signature.                                               *)

VARIABLES
    application,     \* which of the two checks it
    stage,           \* where the check is
    key,             \* the public key, once read
    signature,       \* r, s and the hash e that is signed
    r_point,         \* R, as it is computed from the signature
    table,           \* the points to add, by the bits of e, r and -s
    trace,           \* what iter_msm yields: an index, and the accumulator
    accumulator

ecdsa_vars == <<application, stage, key, signature, r_point, table, trace, accumulator>>

none_signed == [r |-> 0, s |-> 0, e |-> 0]

EcdsaInit ==
    /\ application \in {"mdoc_zk", "nymauth"}
    /\ stage = "key" /\ key = infinity /\ signature = none_signed
    /\ r_point = infinity /\ table = <<>> /\ trace = <<>> /\ accumulator = IDENTITY

\* The key of a certificate is read by AffinePoint::decode and that of a device as it stands,
\* two coordinates that nothing compares with the curve; neither may be the point at infinity.
read_key ==
    /\ stage = "key" /\ application = "mdoc_zk"
    /\ \E written \in EncodedKeys :
         LET read == IF written.of = "issuer" THEN decode_point(written.prefix, written.rest)
                     ELSE {written.rest} \cap (Coordinates \X Coordinates)
         IN  IF read \subseteq {infinity} THEN stage' = "refused" /\ UNCHANGED key
             ELSE stage' = "signature" /\ key' \in read
    /\ UNCHANGED <<application, signature, r_point, table, trace, accumulator>>

\* validate_public_key, and verification itself for the device's key.
validate_public_key ==
    /\ stage = "key" /\ application = "nymauth"
    /\ \E written \in EncodedKeys :
         /\ Len(written.rest) = 2
         /\ IF written.rest \in Points
            THEN stage' = "signature" /\ key' = written.rest
            ELSE stage' = "refused" /\ UNCHANGED key
    /\ UNCHANGED <<application, signature, r_point, table, trace, accumulator>>

\* Signature::decode, and the first check of verification: neither number may be zero, nor reach the order.
read_signature ==
    /\ stage = "signature"
    /\ \E r \in Scalars, s \in Scalars, e \in Digests :
         /\ signature' = [r |-> r, s |-> s, e |-> e]
         /\ stage' = IF r \in 1..(GroupOrder - 1) /\ s \in 1..(GroupOrder - 1)
                     THEN "decoded" ELSE "refused"
    /\ UNCHANGED <<application, key, r_point, table, trace, accumulator>>

\* FieldP256Scalar::from_hash: the order is subtracted once.
from_hash(digest) == IF digest >= GroupOrder THEN digest - GroupOrder ELSE digest

\* hash_to_field_element: the order of the coordinates is not, and a hash beyond it has no
\* field element.
hash_to_field_element(digest) == {digest} \cap Coordinates

\* The sum of what the bits select, converted to affine coordinates and back.
TableOf(g, q, r) ==
    LET g_q == AddAffine(FromAffine(g), q)
        sums == [g_q |-> g_q, g_r |-> AddAffine(FromAffine(g), r),
                 q_r |-> AddAffine(FromAffine(q), r), g_q_r |-> AddAffine(g_q, r)]
    IN  <<g, q, FromProjective(sums.g_q), r, FromProjective(sums.g_r),
          FromProjective(sums.q_r), FromProjective(sums.g_q_r)>>

\* Faulty variant of recover: the x-coordinate is not compared.
recover_unchecked ==
    /\ stage = "decoded" /\ application = "mdoc_zk"
    /\ LET s_inv == mul_inv_n(signature.s)
           u1 == (from_hash(signature.e) * s_inv) % GroupOrder
           u2 == (signature.r * s_inv) % GroupOrder
           sum == AddPoints(scalar_mult(FromAffine(Generator), u1), scalar_mult(FromAffine(key), u2))
       IN  /\ r_point' = FromProjective(sum)
           /\ IF hash_to_field_element(signature.e) = {} \/ r_point' = infinity
              THEN stage' = "refused" /\ UNCHANGED table
              ELSE /\ table' = TableOf(Generator, key, r_point')
                   /\ stage' = IF \E k \in DOMAIN table' : table'[k] = infinity
                               THEN "refused" ELSE "adding"
    /\ UNCHANGED <<application, key, signature, trace, accumulator>>

\* Up to the loop: R is computed and compared with r, and the table is made, in which no
\* point may be at infinity.
recover ==
    /\ stage = "decoded" /\ application = "mdoc_zk"
    /\ LET s_inv == mul_inv_n(signature.s)
           u1 == (from_hash(signature.e) * s_inv) % GroupOrder
           u2 == (signature.r * s_inv) % GroupOrder
           sum == AddPoints(scalar_mult(FromAffine(Generator), u1), scalar_mult(FromAffine(key), u2))
       IN  /\ r_point' = FromProjective(sum)
           /\ IF hash_to_field_element(signature.e) = {} \/ r_point' = infinity
              THEN stage' = "refused" /\ UNCHANGED table
              ELSE /\ table' = TableOf(Generator, key, r_point')
                   /\ stage' = IF \/ r_point'[1] # signature.r
                                  \/ \E k \in DOMAIN table' : table'[k] = infinity
                               THEN "refused" ELSE "adding"
    /\ UNCHANGED <<application, key, signature, trace, accumulator>>

\* The scalars of the sum: the hash is not reduced, and s is negated.
Summed(sig) == [e |-> sig.e, r |-> sig.r, neg_s |-> GroupOrder - sig.s]

\* One step of the loop, for the next bit of each scalar: G is selected by the bit of e, Q
\* by that of r, R by that of -s.  The last has no accumulator to write but compares it.
add ==
    /\ stage = "adding" /\ application = "mdoc_zk"
    /\ LET k == Len(trace) + 1
           scalars == Summed(signature)
           selected == bits(scalars.e)[k] + 2 * bits(scalars.r)[k] + 4 * bits(scalars.neg_s)[k]
           point == IF selected = 0 THEN IDENTITY ELSE FromAffine(table[selected])
       IN  /\ accumulator' = AddPoints(double(accumulator), point)
           /\ trace' = Append(trace, [index |-> 2 * selected - 7,
                                      accumulator |-> IF k < ScalarBits THEN accumulator' ELSE IDENTITY])
           /\ stage' = IF k < ScalarBits THEN "adding"
                       ELSE IF accumulator'.z = 0 THEN "witnessed" ELSE "refused"
    /\ UNCHANGED <<application, key, signature, r_point, table>>

-----------------------------------------------------------------------------
(* verification of nymauth/ecdsa.rs.                                       *)

\* The sums of the points, by the bits that select them.
SumsOf(g, q, r) ==
    LET g_q == FromProjective(add_p3(FromAffine(g), FromAffine(q)))
        g_r == FromProjective(add_p3(FromAffine(g), FromAffine(r)))
        r_q == FromProjective(add_p3(FromAffine(r), FromAffine(q)))
    IN  <<g, q, g_q, r, g_r, r_q, FromProjective(add_p3(FromAffine(g), FromAffine(r_q)))>>

\* Faulty variant of verification: the x-coordinate is compared as it is.
verification_unreduced ==
    /\ stage = "decoded" /\ application = "nymauth"
    /\ LET e == signature.e % GroupOrder
           w == mul_inv_n(signature.s)
           sum == add_p3(scalar_mul(FromAffine(Generator), (e * w) % GroupOrder),
                         scalar_mul(FromAffine(key), (signature.r * w) % GroupOrder))
       IN  /\ r_point' = FromProjective(sum)
           /\ IF r_point' = infinity
              THEN stage' = "refused" /\ UNCHANGED table
              ELSE /\ table' = SumsOf(Generator, key, r_point')
                   /\ stage' = IF \/ r_point'[1] # signature.r
                                  \/ infinity \in {table'[k] : k \in DOMAIN table'}
                                  \/ r_point'[1] = 0 \/ key[1] = 0
                               THEN "refused" ELSE "adding"
    /\ UNCHANGED <<application, key, signature, trace, accumulator>>

\* Up to the loop: the hash is reduced and so is the x-coordinate of R; no sum of points may
\* be the identity, and of the numbers that are inverted none may be zero.
verification ==
    /\ stage = "decoded" /\ application = "nymauth"
    /\ LET e == signature.e % GroupOrder
           w == mul_inv_n(signature.s)
           sum == add_p3(scalar_mul(FromAffine(Generator), (e * w) % GroupOrder),
                         scalar_mul(FromAffine(key), (signature.r * w) % GroupOrder))
       IN  /\ r_point' = FromProjective(sum)
           /\ IF r_point' = infinity
              THEN stage' = "refused" /\ UNCHANGED table
              ELSE /\ table' = SumsOf(Generator, key, r_point')
                   /\ stage' = IF \/ r_point'[1] % GroupOrder # signature.r
                                  \/ infinity \in {table'[k] : k \in DOMAIN table'}
                                  \/ r_point'[1] = 0 \/ key[1] = 0
                               THEN "refused" ELSE "adding"
    /\ UNCHANGED <<application, key, signature, trace, accumulator>>

\* The scalars of the ladder: the hash is reduced, and R's x-coordinate is not.
Laddered(sig, r) ==
    [e |-> sig.e % GroupOrder, r |-> r[1], neg_s |-> GroupOrder - sig.s]

\* One step of the ladder.  The first takes a point times its y; every accumulator is written,
\* and the last must have no x either.
ladder ==
    /\ stage = "adding" /\ application = "nymauth"
    /\ LET k == Len(trace) + 1
           scalars == Laddered(signature, r_point)
           idx == bits(scalars.e)[k] + 2 * bits(scalars.r)[k] + 4 * bits(scalars.neg_s)[k]
           point == IF idx = 0 THEN IDENTITY ELSE FromAffine(table[idx])
           acc == IF k = 1 THEN [x |-> m(point.x * point.y), y |-> m(point.y * point.y),
                                 z |-> m(point.y * point.z)]
                  ELSE add_p3(dbl(accumulator), point)
       IN  /\ accumulator' = acc
           /\ trace' = Append(trace, [index |-> 2 * idx - 7, accumulator |-> acc])
           /\ stage' = IF k < ScalarBits THEN "adding"
                       ELSE IF acc.x = 0 /\ acc.z = 0 THEN "witnessed" ELSE "refused"
    /\ UNCHANGED <<application, key, signature, r_point, table>>

EcdsaNext ==
    \/ read_key \/ read_signature \/ recover \/ add
    \/ validate_public_key \/ verification \/ ladder

-----------------------------------------------------------------------------
(* Properties.                                                             *)

\* R = u1 G + u2 Q, by the group law.
TrueR(q, sig) ==
    LET s_inv == CHOOSE t \in 1..(GroupOrder - 1) : (t * sig.s) % GroupOrder = 1
    IN  Chord(Multiples(Generator)[(sig.e * s_inv) % GroupOrder],
              Multiples(q)[(sig.r * s_inv) % GroupOrder])

\* ECDSA: r is the x-coordinate of R modulo the order.
Verifies(q, sig) ==
    /\ {sig.r, sig.s} \subseteq 1..(GroupOrder - 1)
    /\ TrueR(q, sig) # infinity /\ TrueR(q, sig)[1] % GroupOrder = sig.r

\* What the code refuses though the signature verifies: points that cancel in the table; in
\* mdoc_zk a hash beyond the field and an x-coordinate beyond the order, and in nymauth a
\* point whose x-coordinate is zero.
OutOfReach(q, sig) ==
    LET r == TrueR(q, sig)
    IN  \/ infinity \in {Chord(Generator, q), Chord(Generator, r), Chord(q, r),
                         Chord(Chord(Generator, q), r)}
        \/ application = "mdoc_zk" /\ (hash_to_field_element(sig.e) = {} \/ r[1] # sig.r)
        \/ application = "nymauth" /\ 0 \in {q[1], r[1]}

\* The loop records what the circuit repeats: after k steps the accumulator is the sum for
\* the first k bits of the three scalars.
TraceIsPartialSum ==
    LET part(scalar) == scalar \div 2^(ScalarBits - Len(trace))
        scalars == IF application = "mdoc_zk" THEN Summed(signature)
                   ELSE Laddered(signature, r_point)
        times(scalar, point) == Multiples(point)[part(scalar) % GroupOrder]
    IN  FromProjective(accumulator) =
          Chord(Chord(times(scalars.e, Generator), times(scalars.r, key)),
                times(scalars.neg_s, r_point))

\* fill_ecdsa_witness, and verification of nymauth, accept a signature by a key on the curve
\* exactly if it verifies, but for what they know to be out of their reach: the last sum of
\* the loop never decides, for each of the sums it records is what the bits read so far say.
SignaturesAreVerified ==
    key # infinity /\ OnCurve(key) =>
        /\ stage \in {"witnessed", "refused"} =>
             (stage = "witnessed") =
                 (Verifies(key, signature) /\ ~OutOfReach(key, signature))
        /\ trace # <<>> => TraceIsPartialSum
=============================================================================
