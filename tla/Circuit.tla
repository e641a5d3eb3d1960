------------------------------ MODULE Circuit ------------------------------
(***************************************************************************)
(* Circuits and their evaluation, circuit.rs.  A circuit is a record of    *)
(*   outputs, inputs, public : numbers of wires,                           *)
(*   layers : the layers, from the output layer to the input layer,        *)
(* and a layer a record of logw, wires (the number of wires entering it)   *)
(* and quads, a sequence of records of gate, left, right and value, the    *)
(* constant the quad points to.  A value of zero marks an assertion.       *)
(***************************************************************************)
EXTENDS Field, FiniteSets

num_layers(c) == Len(c.layers)
num_private_inputs(c) == c.inputs - c.public
layer_logw(c) == [k \in DOMAIN c.layers |-> c.layers[k].logw]

\* Circuit::logw: the bits of an output wire.
output_logw(c) == CHOOSE n \in 0..c.outputs : 2^n >= c.outputs /\ (n = 0 \/ 2^(n - 1) < c.outputs)

\* The number of wires leaving a layer, which enter the one before it in the file.
wires_after(c, k) == IF k = 1 THEN c.outputs ELSE c.layers[k - 1].wires

SumOfQuads(quads, value(_)) ==
    SumFromTo([k \in DOMAIN quads |-> value(quads[k])], 1, Len(quads))

\* Faulty variant of quad_output: multiplies an assertion by its constant, zero.
quad_output_scaled(quad, wires) ==
    Times(quad.value, Times(wires[quad.left], wires[quad.right]))

\* An assertion contributes its product unscaled, so that it can be seen not to be zero.
quad_output(quad, wires) ==
    IF quad.value = ZERO THEN Times(wires[quad.left], wires[quad.right])
    ELSE Times(quad.value, Times(wires[quad.left], wires[quad.right]))

\* The values of the gates of layer k, given the wires entering it.
gate_outputs(c, k, wires) ==
    [g \in 0..(wires_after(c, k) - 1) |->
        SumOfQuads(SelectSeq(c.layers[k].quads, LAMBDA q : q.gate = g),
                   LAMBDA q : quad_output(q, wires))]

z_gate_indexes(c, k) ==
    {c.layers[k].quads[n].gate : n \in {m \in DOMAIN c.layers[k].quads :
                                            c.layers[k].quads[m].value = ZERO}}

\* The coefficients of the quads of layer k in QZ = Q + beta * Z.
combined_quad(c, k, beta) ==
    [n \in DOMAIN c.layers[k].quads |->
        LET q == c.layers[k].quads[n]
        IN  [gate |-> q.gate, left |-> q.left, right |-> q.right,
             coefficient |-> IF q.value = ZERO THEN beta ELSE q.value]]
=============================================================================
