------------------------------- MODULE Fields -------------------------------
(***************************************************************************)
(* The operations of the fields that take more than one step of arithmetic *)
(* behind the traits FieldElement, ProofFieldElement and CodecFieldElement:*)
(* extend of the prime fields and of the binary field, uninject of the     *)
(* binary field, which decides how an element is written, the generated    *)
(* arithmetic of the prime fields, the exponentiations that invert, and    *)
(* the quadratic extension.  They share the traits and nothing else, so    *)
(* that a behaviour is of one of them.                                     *)
(***************************************************************************)
EXTENDS Extend, FiatOps, AdditionChains, QuadraticExtension

VARIABLE operation    \* the one that the behaviour is of

vars == <<operation, extend_vars, uninject_vars, fiat_vars, chain_vars, quadratic_vars>>

\* The variables of an operation that the behaviour is not of.
FiatIdle ==
    /\ request = FiatNothing /\ call = FiatNothing
    /\ phase = "idle" /\ round = 0 /\ accumulator = <<>> /\ result = <<>>
ChainIdle == chain = "p256m2" /\ step = 0 /\ registers = <<>>
QuadraticIdle == lhs = q_zero /\ rhs = q_zero

Init ==
    /\ operation \in {"extend_p", "extend_2_128", "uninject", "prime", "chain", "quadratic"}
    /\ ExtendInit
    /\ UninjectInit /\ (operation # "uninject" => element = Zero)
    /\ IF operation = "prime" THEN FiatInit ELSE FiatIdle
    /\ IF operation = "chain" THEN ChainInit ELSE ChainIdle
    /\ IF operation = "quadratic" THEN QuadraticInit ELSE QuadraticIdle

LargeCharacteristic ==
    /\ operation = "extend_p"
    /\ extend_p_precompute \/ extend_p
    /\ UNCHANGED <<operation, uninject_vars, fiat_vars, chain_vars, quadratic_vars>>

BinaryExtension ==
    /\ operation = "extend_2_128"
    /\ extend_2_128_precompute \/ extend_2_128
    /\ UNCHANGED <<operation, uninject_vars, fiat_vars, chain_vars, quadratic_vars>>

EncodeInSubfield ==
    /\ operation = "uninject"
    /\ clear_rank
    /\ UNCHANGED <<operation, extend_vars, fiat_vars, chain_vars, quadratic_vars>>

PrimeArithmetic ==
    /\ operation = "prime"
    /\ FiatNext
    /\ UNCHANGED <<operation, extend_vars, uninject_vars, chain_vars, quadratic_vars>>

Exponentiation ==
    /\ operation = "chain"
    /\ exp
    /\ UNCHANGED <<operation, extend_vars, uninject_vars, fiat_vars, quadratic_vars>>

Next ==
    \/ LargeCharacteristic \/ BinaryExtension \/ EncodeInSubfield
    \/ PrimeArithmetic \/ Exponentiation

Spec == Init /\ [][Next]_vars

-----------------------------------------------------------------------------
(* Properties, from the modules of the operations.                         *)

\* extend returns the values of the polynomial through the nodes, in a field
\* of large characteristic by a convolution and in the binary field by two
\* transforms, for every pair of lengths.
ExtendIsInterpolation ==
    /\ operation = "extend_p" => ExtendIsInterpolation_p
    /\ operation = "extend_2_128" => ExtendIsInterpolation_2_128

\* Arithmetic modulo the primes and in the quadratic extension is that of a
\* field, by every function of the generated code and of the extension, and the
\* exponentiations that invert reach their exponents.
ArithmeticIsOfAField ==
    /\ operation = "prime" => FieldOperationsAreModular
    /\ operation = "quadratic" => ExtensionIsField
    /\ operation = "chain" => ChainsReachTheirExponents
=============================================================================
