------------------------------ MODULE Sumcheck ------------------------------
(***************************************************************************)
(* The prover's side of sumcheck/mod.rs: a circuit is evaluated, a witness *)
(* of private inputs and pads is drawn, and run_protocol binds one layer   *)
(* after another to the transcript's challenges, writing padded            *)
(* polynomials to the proof and one linear constraint on the witness for   *)
(* each layer and one for the inputs.                                      *)
(*                                                                         *)
(* A challenge is any element of Challenge (Transcript models the order of *)
(* messages and challenges).  A linear constraint is the vector of its     *)
(* factors, terms of one witness index added up.  The verifier builds its  *)
(* constraints with the same code from the same proof and challenges.      *)
(***************************************************************************)
EXTENDS Circuit, Integers, SequencesExt

CONSTANTS Circuits,   \* circuits proved
          Challenge,  \* challenges of the transcript
          PadStreams, \* what the pad generator yields, one call after another
          GateBits,   \* bits enough for every gate index
          WireBits    \* bits enough for every wire index

-----------------------------------------------------------------------------
(* WitnessLayout of witness.rs: where the private inputs and the pads of   *)
(* each layer are in the witness vector.  A layout is the number of        *)
(* private inputs and the sequence of the layers' logw; layers and witness *)
(* indices count from zero, as in the code.                                *)

\* The sum of the first n elements of logw.
SumOfFirst(logw, n) ==
    LET sum[k \in 0..n] == IF k = 0 THEN 0 ELSE sum[k - 1] + logw[k]
    IN  sum[n]

private_input_witness_indices(num_private, logw) == 0..(num_private - 1)

\* Faulty variant of wire_witness_start: skips one layer's polynomials too few.
wire_witness_start_early(num_private, logw, layer) ==
    num_private + 3 * layer + 4 * SumOfFirst(logw, layer)

\* Index of the pad of vl; those of vr and vl * vr follow it.
wire_witness_start(num_private, logw, layer) ==
    num_private + 3 * layer + 4 * SumOfFirst(logw, layer + 1)

\* Faulty variant of polynomial_witness_start: gives both hands the same pads.
polynomial_witness_start_shared(num_private, logw, layer, round, hand) ==
    num_private + 3 * layer + 4 * SumOfFirst(logw, layer) + 4 * round

\* Index of the pad of p0; that of p2 follows it.
polynomial_witness_start(num_private, logw, layer, round, hand) ==
    num_private + 3 * layer + 4 * SumOfFirst(logw, layer) + 4 * round + 2 * hand

length(num_private, logw) ==
    num_private + 3 * Len(logw) + 4 * SumOfFirst(logw, Len(logw))

-----------------------------------------------------------------------------
(* The prover's state.                                                     *)

VARIABLES
    pc,           \* where the prover is
    circuit, inputs,
    wires,        \* Evaluation::wires, by layer; layer 0 holds the outputs
    witness,      \* the witness vector
    layer,        \* the layer run_protocol works on, from 1
    round, hand,  \* its loop variables
    quad,         \* the bound combined quad
    hands,        \* the wires entering the layer, one copy for each hand
    bindings,     \* the bindings the previous layer ended with, for each hand
    new_bindings, \* those of this layer so far
    claims,       \* vl and vr of the previous layer's proof
    layer_claim,  \* SymbolicExpression: known part and factors
    constraints,  \* the linear constraints output so far
    proof,        \* the elements written to the proof so far
    pads,         \* history: what the pad generator yielded
    unpadded      \* history: the elements of the proof before a pad was subtracted

vars == <<pc, circuit, inputs, wires, witness, layer, round, hand, quad, hands, bindings,
          new_bindings, claims, layer_claim, constraints, proof, pads, unpadded>>

Left == "left"
Right == "right"
Hands == {Left, Right}
HandIndex(h) == IF h = Left THEN 0 ELSE 1

Sparse == INSTANCE SparseArray WITH
    Coefficient <- FE, Quads <- {},
    contents <- quad, gates_bound <- TRUE, rounds <- 2 * round + HandIndex(hand)

NumPrivate == num_private_inputs(circuit)
Logw == layer_logw(circuit)
WitnessLength == length(NumPrivate, Logw)
ThisLayer == circuit.layers[layer]
InputWires == num_layers(circuit)

\* The protocol counts layers from zero.
PolynomialPad == polynomial_witness_start(NumPrivate, Logw, layer - 1, round, HandIndex(hand))
WirePad(k) == wire_witness_start(NumPrivate, Logw, k - 1)

-----------------------------------------------------------------------------
(* Dense arrays, sumcheck/bind/mod.rs.                                     *)

element(array, k) == IF k \in DOMAIN array THEN array[k] ELSE ZERO

\* bound_element_at, for each kind of Binding.
BoundAt(array, x, k) ==
    Plus(element(array, 2 * k),
         Times(x, Minus(element(array, 2 * k + 1), element(array, 2 * k))))

BoundAtZero(array, k) == element(array, 2 * k)

\* Faulty variant of BoundAtP2: doubles in every field.
BoundAtP2_doubling(array, k) ==
    Minus(Plus(element(array, 2 * k + 1), element(array, 2 * k + 1)), element(array, 2 * k))

\* No multiplication is needed where P2 is two.
BoundAtP2(array, k) ==
    IF large_characteristic
    THEN Minus(Plus(element(array, 2 * k + 1), element(array, 2 * k + 1)), element(array, 2 * k))
    ELSE BoundAt(array, SUMCHECK_P2, k)

HalfLength(array) == (Cardinality(DOMAIN array) + 1) \div 2

bind(array, x) == [k \in 0..(HalfLength(array) - 1) |-> BoundAt(array, x, k)]

-----------------------------------------------------------------------------
(* Symbolic expressions, sumcheck/constraints/mod.rs.                      *)

NoClaim == [known |-> ZERO, factor |-> [w \in 0..(WitnessLength - 1) |-> ZERO]]

Scaled(claim, x) ==
    [known |-> Times(claim.known, x),
     factor |-> [w \in DOMAIN claim.factor |-> Times(claim.factor[w], x)]]

\* claim += (W[index] + known) * x
AddTerm(claim, index, known, x) ==
    [known |-> Plus(claim.known, Times(known, x)),
     factor |-> [claim.factor EXCEPT ![index] = Plus(@, x)]]

AddKnown(claim, known) == [claim EXCEPT !.known = Plus(@, known)]

\* The left-hand side of a constraint for the witness w.
Product(factor, w) ==
    SumFromTo([k \in DOMAIN w |-> Times(factor[k], w[k])], 0, WitnessLength - 1)

-----------------------------------------------------------------------------
(* Circuit::evaluate and Witness::fill_witness.                            *)

\* The first input wire is the constant one.
Inputs(c) == {v \in [0..(c.inputs - 1) -> FE] : v[0] = ONE}

Init ==
    /\ circuit \in Circuits
    /\ inputs \in Inputs(circuit)
    /\ wires = [k \in 0..num_layers(circuit) |-> <<>>]
    /\ pc = "evaluate"
    /\ layer = num_layers(circuit)
    /\ witness = <<>>
    /\ round = 0 /\ hand = Left
    /\ quad = <<>> /\ hands = <<>> /\ bindings = <<>> /\ new_bindings = <<>>
    /\ claims = [h \in Hands |-> ZERO]
    /\ layer_claim = <<>> /\ constraints = <<>> /\ proof = <<>>
    /\ pads = <<>> /\ unpadded = <<>>

protocol_vars ==
    <<round, hand, quad, hands, bindings, new_bindings, claims, layer_claim, constraints, proof,
      unpadded>>

\* One layer of evaluate, which goes from the inputs to the outputs.  An assertion that
\* does not hold ends the evaluation with an error.
evaluate ==
    /\ pc = "evaluate" /\ layer > 0
    /\ LET entering == IF layer = num_layers(circuit) THEN inputs ELSE wires[layer]
           outputs  == gate_outputs(circuit, layer, entering)
           failed   == \E g \in z_gate_indexes(circuit, layer) : outputs[g] # ZERO
       IN  /\ wires' = [wires EXCEPT ![layer] = entering, ![layer - 1] = outputs]
           /\ pc' = IF failed THEN "error" ELSE pc
    /\ layer' = layer - 1
    /\ UNCHANGED <<circuit, inputs, witness, pads, protocol_vars>>

\* The witness: private inputs, then for each layer the pads of its polynomials and of
\* vl, vr and vl * vr.  The last one is not drawn but computed.
FilledWitness(stream) ==
    LET layer_pads(k, drawn) ==
          LET n  == 4 * circuit.layers[k].logw
              vl == stream[drawn + n + 1]
              vr == stream[drawn + n + 2]
          IN  SubSeq(stream, drawn + 1, drawn + n) \o <<vl, vr, Times(vl, vr)>>
        drawn_before(k) == 4 * SumOfFirst(Logw, k - 1) + 2 * (k - 1)
        values == [k \in 1..NumPrivate |-> inputs[circuit.public + k - 1]]
                    \o FlattenSeq([k \in 1..num_layers(circuit) |-> layer_pads(k, drawn_before(k))])
    IN  [w \in 0..(Len(values) - 1) |-> values[w + 1]]

\* prove() asserts that the outputs are zero; an evaluation may succeed without that.
fill_witness ==
    /\ pc = "evaluate" /\ layer = 0
    /\ IF \E g \in DOMAIN wires[0] : wires[0][g] # ZERO
       THEN pc' = "panic" /\ UNCHANGED <<witness, pads>>
       ELSE /\ pc' = "outputs"
            /\ pads' \in PadStreams
            /\ witness' = FilledWitness(pads')
    /\ UNCHANGED <<circuit, inputs, wires, layer, protocol_vars>>

-----------------------------------------------------------------------------
(* run_protocol                                                            *)

\* generate_output_wire_bindings: both hands start from the same bindings.
bind_outputs ==
    /\ pc = "outputs"
    /\ \E b \in [1..output_logw(circuit) -> Challenge] : bindings' = [h \in Hands |-> b]
    /\ layer' = 1
    /\ pc' = "layer"
    /\ UNCHANGED <<circuit, inputs, wires, witness, round, hand, quad, hands, new_bindings,
                   claims, layer_claim, constraints, proof, pads, unpadded>>

\* claims[0] + alpha * claims[1], padded on every layer but the first.
PreviousClaim(alpha) ==
    IF layer = 1
    THEN AddKnown(AddKnown(NoClaim, claims[Left]), Times(claims[Right], alpha))
    ELSE AddTerm(AddTerm(NoClaim, WirePad(layer - 1), claims[Left], ONE),
                 WirePad(layer - 1) + 1, claims[Right], alpha)

\* The head of the loop over the layers.
begin_layer ==
    /\ pc = "layer" /\ layer <= num_layers(circuit)
    /\ \E alpha, beta \in Challenge :
         /\ quad' = Sparse!GateBound(combined_quad(circuit, layer, beta),
                                     bindings[Left], bindings[Right], alpha)
         /\ layer_claim' = PreviousClaim(alpha)
    /\ hands' = [h \in Hands |-> wires[layer]]
    /\ new_bindings' = [h \in Hands |-> <<>>]
    /\ round' = 0 /\ hand' = Left
    /\ pc' = IF ThisLayer.logw = 0 THEN "wires" ELSE "round"
    /\ UNCHANGED <<circuit, inputs, wires, witness, layer, bindings, claims, constraints, proof,
                   pads, unpadded>>

\* The two points a polynomial is evaluated at, 0 and P2.
BoundAtPoint(array, point, k) ==
    IF point = "zero" THEN BoundAtZero(array, k) ELSE BoundAtP2(array, k)

\* p(x) = SUM_{l} bind(A, x)[l] * bind(VL, x)[l]
PolynomialAt(point) ==
    LET a    == Sparse!compute_a(quad, hand, hands)
        last == HalfLength(a) - 1
    IN  SumFromTo([k \in 0..last |-> Times(BoundAtPoint(a, point, k),
                                           BoundAtPoint(hands[hand], point, k))], 0, last)

\* Faulty variant of NextClaim: forgets the previous claim's part in p(1).
NextClaim_without_p1(claim, p0, p2, x) ==
    AddTerm(AddTerm(Scaled(claim, lagrange_basis_polynomial_1(x)),
                    PolynomialPad, p0, lagrange_basis_polynomial_0(x)),
            PolynomialPad + 1, p2, lagrange_basis_polynomial_2(x))

\* The claim p(x), where p(0) and p(P2) are padded and p(1) = claim - p(0).
NextClaim(claim, p0, p2, x) ==
    AddTerm(AddTerm(Scaled(claim, lagrange_basis_polynomial_1(x)),
                    PolynomialPad, p0,
                    Minus(lagrange_basis_polynomial_0(x), lagrange_basis_polynomial_1(x))),
            PolynomialPad + 1, p2, lagrange_basis_polynomial_2(x))

\* One hand of one round: polynomial, challenge, binding of wires and quad, claim.
do_round ==
    /\ pc = "round"
    /\ LET at_0 == PolynomialAt("zero")
           at_2 == PolynomialAt("P2")
           p0 == Minus(at_0, witness[PolynomialPad])
           p2 == Minus(at_2, witness[PolynomialPad + 1])
       IN  \E x \in Challenge :
             /\ layer_claim' = NextClaim(layer_claim, p0, p2, x)
             /\ hands' = [hands EXCEPT ![hand] = bind(@, x)]
             /\ quad' = Sparse!HandBound(quad, hand, x)
             /\ new_bindings' = [new_bindings EXCEPT ![hand] = Append(@, x)]
             /\ proof' = proof \o <<p0, p2>>
             /\ unpadded' = unpadded \o <<at_0, at_2>>
    /\ hand' = IF hand = Left THEN Right ELSE Left
    /\ round' = IF hand = Left THEN round ELSE round + 1
    /\ pc' = IF hand = Right /\ round + 1 = ThisLayer.logw THEN "wires" ELSE pc
    /\ UNCHANGED <<circuit, inputs, wires, witness, layer, bindings, claims, constraints,
                   pads>>

\* Faulty variant of LayerConstraint: drops the product of the two pads.
LayerConstraint_without_product(claim, q, vl, vr) ==
    [factor |-> AddTerm(AddTerm(claim, WirePad(layer), ZERO, Times(Negate(q), vr)),
                        WirePad(layer) + 1, ZERO, Times(Negate(q), vl)).factor,
     rhs    |-> Minus(Times(q, Times(vl, vr)), claim.known)]

\* claim = q * (vl + pad) * (vr + pad), with the products of unknowns on the left.
LayerConstraint(claim, q, vl, vr) ==
    [factor |-> AddTerm(AddTerm(AddTerm(claim, WirePad(layer), ZERO, Times(Negate(q), vr)),
                                WirePad(layer) + 1, ZERO, Times(Negate(q), vl)),
                        WirePad(layer) + 2, ZERO, Negate(q)).factor,
     rhs    |-> Minus(Times(q, Times(vl, vr)), claim.known)]

\* The tail of the loop over the layers.
end_layer ==
    /\ pc = "wires"
    /\ LET q  == quad[1].coefficient
           vl == Minus(element(hands[Left], 0), witness[WirePad(layer)])
           vr == Minus(element(hands[Right], 0), witness[WirePad(layer) + 1])
       IN  /\ constraints' = Append(constraints, LayerConstraint(layer_claim, q, vl, vr))
           /\ claims' = (Left :> vl @@ Right :> vr)
           /\ proof' = proof \o <<vl, vr>>
           /\ unpadded' = unpadded \o <<element(hands[Left], 0), element(hands[Right], 0)>>
    /\ bindings' = new_bindings
    /\ layer' = layer + 1
    /\ pc' = "layer"
    /\ UNCHANGED <<circuit, inputs, wires, witness, round, hand, quad, hands, new_bindings,
                   layer_claim, pads>>

\* The claims on the input layer equal the binding of the inputs, public and private.
InputConstraint(gamma) ==
    LET eq2 == Sparse!bindeq(bindings[Left], bindings[Right], gamma)
        private == [w \in 0..(WitnessLength - 1) |->
                      IF w < NumPrivate THEN eq2[w + circuit.public] ELSE ZERO]
        last == WirePad(num_layers(circuit))
        known == SumFromTo([k \in 0..(circuit.public - 1) |-> Times(inputs[k], eq2[k])],
                           0, circuit.public - 1)
    IN  [factor |-> [private EXCEPT ![last] = Negate(ONE), ![last + 1] = Negate(gamma)],
         rhs    |-> Minus(Plus(claims[Left], Times(gamma, claims[Right])), known)]

bind_inputs ==
    /\ pc = "layer" /\ layer > num_layers(circuit)
    /\ \E gamma \in Challenge : constraints' = Append(constraints, InputConstraint(gamma))
    /\ pc' = "done"
    /\ UNCHANGED <<circuit, inputs, wires, witness, layer, round, hand, quad, hands, bindings,
                   new_bindings, claims, layer_claim, proof, pads, unpadded>>

Next == evaluate \/ fill_witness \/ bind_outputs \/ begin_layer \/ do_round \/ end_layer \/ bind_inputs

Spec == Init /\ [][Next]_vars

-----------------------------------------------------------------------------
\* SUM_{l, r} QUAD[l, r] * VL[l] * VR[r]
QuadSum ==
    SumFromTo([k \in DOMAIN quad |->
                 Times(quad[k].coefficient,
                       Times(element(hands[Left], quad[k].left),
                             element(hands[Right], quad[k].right)))], 1, Len(quad))

\* In every round the symbolic claim, with the witness filled in, is the sum of the bound
\* quad over the bound wires.
ClaimIsSum == Plus(layer_claim.known, Product(layer_claim.factor, witness)) = QuadSum

\* Claims are linear in what is claimed and in p0 and p2: what the next claim is wrong by, if
\* this one is wrong by one and p0 and p2 by anything.
NextError(p0, p2, x) ==
    NextClaim([known |-> ONE, factor |-> [w \in {PolynomialPad, PolynomialPad + 1} |-> ZERO]],
              p0, p2, x).known

\* The invariant of run_protocol, for the prover and for whoever cheats: a claim is the sum,
\* and a claim that is not becomes the true one for at most two challenges, for whatever
\* polynomial is written to the proof.
OnlyTrueClaimsSurvive ==
    /\ pc \in {"round", "wires"} => ClaimIsSum
    /\ pc = "round" =>
         \A p0, p2 \in FE : Cardinality({x \in FE : NextError(p0, p2, x) = ZERO}) <= 2

\* Each element of the proof is hidden by a pad of its own: the n-th element by the n-th
\* pad the generator yielded.
PadsUsedOnce == \A n \in DOMAIN proof : Plus(proof[n], pads[n]) = unpadded[n]

\* Completeness: the prover's own witness satisfies each linear constraint it outputs and
\* the circuit's quadratic ones, on the products of pads.
WitnessSatisfiesConstraints ==
    /\ \A k \in DOMAIN constraints : Product(constraints[k].factor, witness) = constraints[k].rhs
    /\ witness # <<>> =>
         \A k \in 1..num_layers(circuit) :
            Times(witness[WirePad(k)], witness[WirePad(k) + 1]) = witness[WirePad(k) + 2]

\* The gates of layer k, given the wires entering it, by the quad that sumcheck proves.
ProvedOutput(k, beta, entering, gate) ==
    SumOfQuads(SelectSeq(combined_quad(circuit, k, beta), LAMBDA q : q.gate = gate),
               LAMBDA q : Times(q.coefficient, Times(entering[q.left], entering[q.right])))

\* The wires that evaluate returns satisfy every layer's combined quad for every beta, so
\* that no challenge can make an honest prover fail.  Where the prover panics over them, no
\* challenge makes zero of some output, and where evaluation found an assertion that does
\* not hold, no challenge but zero hides it from the verifier.
EvaluationSatisfiesQuads ==
    /\ pc \in {"outputs", "panic"} =>
         \A k \in 1..num_layers(circuit), beta \in FE : \A g \in DOMAIN wires[k - 1] :
            ProvedOutput(k, beta, wires[k], g) = wires[k - 1][g]
    /\ pc = "panic" =>
         \E g \in DOMAIN wires[0] : \A beta \in FE : ProvedOutput(1, beta, wires[1], g) # ZERO
    /\ pc = "error" =>
         \E g \in z_gate_indexes(circuit, layer + 1) : \A beta \in FE \ {ZERO} :
            ProvedOutput(layer + 1, beta, wires[layer + 1], g) # ZERO
=============================================================================
