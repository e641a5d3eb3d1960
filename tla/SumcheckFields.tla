--------------------------- MODULE SumcheckFields ---------------------------
(***************************************************************************)
(* The sumcheck prover over a field of large characteristic and over one   *)
(* of characteristic two.  The two differ in signs, which only the first   *)
(* shows, and in the third evaluation point, which only in the first is    *)
(* two.  A behaviour is over one of them.                                  *)
(***************************************************************************)
EXTENDS Integers, Sequences

CONSTANTS CircuitsOver(_), \* the circuits proved, by the order of the field
          PadStreamsOver(_),
          Challenge,     \* elements of both fields
          GateBits, WireBits

VARIABLES
    order,        \* of the field
    pc, circuit, inputs, wires, witness, layer, round, hand, quad, hands, bindings,
    new_bindings, claims, layer_claim, constraints, proof, pads, unpadded

Prime == INSTANCE Sumcheck WITH
    Order <- 5, Circuits <- CircuitsOver(5), PadStreams <- PadStreamsOver(5)

Binary == INSTANCE Sumcheck WITH
    Order <- 4, Circuits <- CircuitsOver(4), PadStreams <- PadStreamsOver(4)

\* What the circuit tests check of every circuit (check_invariants), and decode does not:
\* wires exist, and quads are sorted.
ASSUME CircuitsAssumption ==
    \A c \in CircuitsOver(4) \cup CircuitsOver(5) : \A k \in DOMAIN c.layers :
        LET quads == c.layers[k].quads
        IN  /\ \A n \in DOMAIN quads : /\ quads[n].gate < Binary!wires_after(c, k)
                                      /\ quads[n].left < c.layers[k].wires
                                      /\ quads[n].right < c.layers[k].wires
            /\ \A n \in 1..(Len(quads) - 1) : Binary!Sparse!Before(quads[n], quads[n + 1])

PrimeInit == order = 5 /\ Prime!Init
BinaryInit == order = 4 /\ Binary!Init
PrimeNext == order = 5 /\ Prime!Next /\ UNCHANGED order
BinaryNext == order = 4 /\ Binary!Next /\ UNCHANGED order

Spec == (PrimeInit \/ BinaryInit)
          /\ [][PrimeNext \/ BinaryNext]_<<order, Prime!vars>>

-----------------------------------------------------------------------------
(* The properties of Sumcheck, in the field of the behaviour.              *)

\* The invariant of run_protocol's rounds: the symbolic claim, with the witness filled in,
\* is the sum of the bound quad over the bound wires, and a false one is found out by all but
\* two challenges.
OnlyTrueClaimsSurvive ==
    IF order = 5 THEN Prime!OnlyTrueClaimsSurvive ELSE Binary!OnlyTrueClaimsSurvive

\* Completeness of run_protocol: the prover's witness satisfies each constraint it outputs,
\* and the quadratic constraints on the products of pads.
WitnessSatisfiesConstraints ==
    IF order = 5 THEN Prime!WitnessSatisfiesConstraints ELSE Binary!WitnessSatisfiesConstraints

\* Each element of the proof is hidden by a pad of its own, as fill_witness drew them.
PadsUsedOnce == IF order = 5 THEN Prime!PadsUsedOnce ELSE Binary!PadsUsedOnce

\* The wires of Circuit::evaluate satisfy the combined quad of every layer for every beta, and
\* those it finds an assertion to fail on do not.
EvaluationSatisfiesQuads ==
    IF order = 5 THEN Prime!EvaluationSatisfiesQuads ELSE Binary!EvaluationSatisfiesQuads
=============================================================================
