--------------------------- MODULE AdditionChains ---------------------------
(***************************************************************************)
(* The generated exponentiations of fields/addition_chains, which compute  *)
(* inverses and square roots.  A register holds a power of x, and stands   *)
(* here for its exponent, the set of the bits that are ones; a squaring    *)
(* doubles the exponent and a product adds two of them.  A chain is the    *)
(* sequence of its steps, and a behaviour carries one of them out.         *)
(***************************************************************************)
EXTENDS Integers, Sequences

\* Faulty variant of square: the squarings are not repeated.
square_once(target, source, times) ==
    [operation |-> "square", target |-> target, source |-> source, times |-> 1]

\* A register squared a number of times, and the product of two.
square(target, source, times) ==
    [operation |-> "square", target |-> target, source |-> source, times |-> times]
multiply(target, left, right) ==
    [operation |-> "multiply", target |-> target, left |-> left, right |-> right]

\* p - 2 of the base field of P-256.
p256m2 ==
    << square("t0", "x", 1), multiply("t0", "x", "t0"), square("t0", "t0", 1),
       multiply("t0", "x", "t0"), square("t1", "t0", 3), multiply("t1", "t0", "t1"),
       square("t2", "t1", 6), multiply("t1", "t1", "t2"), square("t1", "t1", 3),
       multiply("t0", "t0", "t1"), square("t1", "t0", 1), multiply("t1", "x", "t1"),
       square("t2", "t1", 16), multiply("t1", "t1", "t2"), square("t1", "t1", 15),
       multiply("t0", "t0", "t1"), square("t1", "t1", 17), multiply("t1", "x", "t1"),
       square("t1", "t1", 143), multiply("t1", "t0", "t1"), square("t1", "t1", 47),
       multiply("t0", "t0", "t1"), square("t0", "t0", 2), multiply("z", "x", "t0") >>

\* (p + 1) / 4 of the same field.
p256sqrt ==
    << square("t0", "x", 1), multiply("t0", "x", "t0"), square("t1", "t0", 2),
       multiply("t0", "t0", "t1"), square("t1", "t0", 4), multiply("t0", "t0", "t1"),
       square("t1", "t0", 8), multiply("t0", "t0", "t1"), square("t1", "t0", 16),
       multiply("t0", "t0", "t1"), square("t0", "t0", 32), multiply("t0", "x", "t0"),
       square("t0", "t0", 96), multiply("z", "x", "t0"), square("z", "z", 94) >>

\* p - 2 of the field of 128 bits.
p128m2 ==
    << square("t0", "x", 1), multiply("t0", "x", "t0"), square("t0", "t0", 1),
       multiply("t0", "x", "t0"), square("t1", "t0", 3), multiply("t0", "t0", "t1"),
       square("t1", "t0", 1), square("t2", "t1", 6), multiply("t1", "t1", "t2"),
       multiply("z", "x", "t1"), square("t1", "z", 6), multiply("t0", "t0", "t1"),
       square("t0", "t0", 6), square("t1", "t0", 7), square("t2", "t1", 19),
       multiply("t1", "t1", "t2"), square("t2", "t2", 20), multiply("t2", "t1", "t2"),
       square("t2", "t2", 12), multiply("t0", "t0", "t2"), square("t0", "t0", 45),
       multiply("t1", "t1", "t0"), multiply("z", "z", "t1") >>

\* 2^128 - 2, of the binary field.
gf_2_128_m2 ==
    << square("t0", "x", 1), multiply("t0", "x", "t0"), square("t0", "t0", 1),
       multiply("t0", "x", "t0"), square("t1", "t0", 3), multiply("t0", "t0", "t1"),
       square("t1", "t0", 1), multiply("z", "x", "t1"), square("t1", "t1", 5),
       multiply("t0", "t0", "t1"), square("t1", "t0", 12), multiply("t0", "t0", "t1"),
       square("t1", "t0", 7), multiply("z", "z", "t1"), square("t1", "t1", 17),
       multiply("t0", "t0", "t1"), square("t1", "t0", 48), multiply("t0", "t0", "t1"),
       square("t0", "t0", 31), multiply("z", "z", "t0"), square("z", "z", 1) >>

\* n - 2 of the scalars of P-256: first the small powers that its windows need.
p256_scalar_powers ==
    << square("t0", "x", 1), square("t1", "t0", 1), multiply("t2", "x", "t1"),
       multiply("t3", "x", "t2"), multiply("t4", "t1", "t2"), multiply("z", "t3", "t4"),
       square("t5", "t4", 1), multiply("t6", "t3", "z"), multiply("t7", "t3", "t5"),
       multiply("t8", "t0", "t7"), multiply("t6", "t6", "t8"),
       multiply("t4", "t4", "t6"), multiply("t2", "t2", "t4"),
       multiply("t9", "t0", "t2"), multiply("t10", "t5", "t2"),
       multiply("t11", "t5", "t10"), multiply("t0", "t0", "t11"),
       multiply("t12", "t5", "t11"), multiply("t1", "t1", "t12"),
       multiply("t13", "t3", "t1"), multiply("t7", "t7", "t13"),
       multiply("t5", "t5", "t7"), multiply("t3", "t3", "t5"),
       multiply("t4", "t4", "t3"), multiply("t8", "t8", "t4") >>

\* Then the windows, from the highest bits down.
p256_scalar_windows ==
    << square("t14", "t8", 8), multiply("t8", "t8", "t14"), square("t14", "t8", 16),
       multiply("t14", "t8", "t14"), square("t14", "t14", 48),
       multiply("t14", "t8", "t14"), square("t14", "t14", 16),
       multiply("t14", "t8", "t14"), square("t14", "t14", 16),
       multiply("t14", "t8", "t14"), square("t14", "t14", 16),
       multiply("t8", "t8", "t14"), square("t8", "t8", 6), multiply("t8", "t6", "t8"),
       square("t8", "t8", 9), multiply("t12", "t12", "t8"), square("t12", "t12", 8),
       multiply("t13", "t13", "t12"), square("t13", "t13", 9),
       multiply("t3", "t3", "t13"), square("t3", "t3", 8), multiply("t5", "t5", "t3"),
       square("t5", "t5", 9), multiply("t6", "t6", "t5"), square("t6", "t6", 8),
       multiply("t2", "t2", "t6"), square("t2", "t2", 11), multiply("t10", "t10", "t2"),
       square("t10", "t10", 9), multiply("t1", "t1", "t10"), square("t1", "t1", 10),
       multiply("t4", "t4", "t1"), square("t4", "t4", 8), multiply("t11", "t11", "t4"),
       square("t11", "t11", 7), multiply("t9", "t9", "t11"), square("t9", "t9", 10),
       multiply("t0", "t0", "t9"), square("t0", "t0", 10), multiply("t7", "t7", "t0"),
       square("t7", "t7", 6), multiply("z", "z", "t7") >>

p256_scalar_m2 == p256_scalar_powers \o p256_scalar_windows

Chain ==
    [p256m2 |-> p256m2, p256sqrt |-> p256sqrt, p128m2 |-> p128m2,
     gf_2_128_m2 |-> gf_2_128_m2, p256_scalar_m2 |-> p256_scalar_m2]

-----------------------------------------------------------------------------
(* Exponents as sets of bits.                                              *)

Shift(bits, by) == {b + by : b \in bits}

\* The bits that differ, and the carries, until there is no carry.
RECURSIVE Sum(_, _)
Sum(a, b) ==
    IF b = {} THEN a ELSE Sum((a \cup b) \ (a \cap b), Shift(a \cap b, 1))

-----------------------------------------------------------------------------

VARIABLES chain, step, registers

chain_vars == <<chain, step, registers>>

Registers == {s.target : s \in UNION {{Chain[c][i] : i \in DOMAIN Chain[c]} : c \in DOMAIN Chain}}

ChainInit ==
    /\ chain \in DOMAIN Chain
    /\ step = 1
    /\ registers = [r \in Registers \cup {"x"} |-> IF r = "x" THEN {0} ELSE {}]

\* The next step of the chain.
exp ==
    /\ step <= Len(Chain[chain])
    /\ LET s == Chain[chain][step]
           power == IF s.operation = "square" THEN Shift(registers[s.source], s.times)
                    ELSE Sum(registers[s.left], registers[s.right])
       IN  registers' = [registers EXCEPT ![s.target] = power]
    /\ step' = step + 1
    /\ UNCHANGED chain

-----------------------------------------------------------------------------
(* Properties.                                                             *)

\* The moduli: 2^256 - 2^224 + 2^192 + 2^96 - 1, the order of the curve P-256
\* by its four words, 2^128 - 2^108 + 1, and the order 2^128.
P256Prime == (0..95) \cup {192} \cup (224..255)
P128Prime == {0} \cup (108..127)
P256Order ==
    LET halves == << 9553, 64611, 51906, 62393, 40580, 42775, 64173, 48358 >>
    IN  {b \in 0..127 : (halves[(b \div 16) + 1] \div 2^(b % 16)) % 2 = 1}
            \cup (128..191) \cup (224..255)

\* Every chain computes the power that its comment promises: two below the
\* order of its field, which inverts, and a quarter of one above it, which
\* takes square roots, although registers are overwritten on the way.
ChainsReachTheirExponents ==
    step > Len(Chain[chain]) =>
        LET z == registers["z"]
        IN  CASE chain = "p256m2" -> Sum(z, {1}) = P256Prime
              [] chain = "p256sqrt" -> Shift(z, 2) = Sum(P256Prime, {0})
              [] chain = "p128m2" -> Sum(z, {1}) = P128Prime
              [] chain = "gf_2_128_m2" -> Sum(z, {1}) = {128}
              [] chain = "p256_scalar_m2" -> Sum(z, {1}) = P256Order
=============================================================================
