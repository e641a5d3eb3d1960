----------------------------- MODULE MCSumcheck -----------------------------
EXTENDS SumcheckFields

q(gate, left, right, value) == [gate |-> gate, left |-> left, right |-> right, value |-> value]

\* Minus one in the field of the given order.
MinusOne(field) == IF field = 5 THEN 4 ELSE 1

\* Is the public input the square of the private one, plus two?  Wires of layer 2: one,
\* public, private; gates: one, private^2 + 2 - public; layer 1 asserts the second and
\* passes on a multiple of it, so that there is an output binding.  The gates of layer 2
\* share a pair of wires.
Square(field) == [outputs |-> 2, inputs |-> 3, public |-> 2, layers |-> <<
    [logw |-> 1, wires |-> 2, quads |-> <<q(1, 0, 1, 2), q(0, 1, 1, 0)>>],
    [logw |-> 2, wires |-> 3, quads |-> <<q(0, 0, 0, 1), q(1, 0, 0, 2),
                                          q(1, 0, 1, MinusOne(field)), q(1, 2, 2, 1)>>]
    >>]

\* Do two private inputs multiply to minus the third?  An assertion of two quads on one layer.
Inverses == [outputs |-> 1, inputs |-> 4, public |-> 1, layers |-> <<
    [logw |-> 2, wires |-> 4, quads |-> <<q(0, 1, 2, 0), q(0, 0, 3, 0)>>] >>]

\* A layer of one wire, which needs no rounds, and an output that no assertion checks.
Single == [outputs |-> 1, inputs |-> 2, public |-> 1, layers |-> <<
    [logw |-> 0, wires |-> 1, quads |-> <<q(0, 0, 0, 1)>>],
    [logw |-> 1, wires |-> 2, quads |-> <<q(0, 0, 1, 2)>>] >>]

MCCircuits(field) == {Square(field), Inverses, Single}

MCPadStreams(field) ==
    {[k \in 1..16 |-> 0], [k \in 1..16 |-> (k * k + 1) % field], [k \in 1..16 |-> (2 * k + 1) % field]}
=============================================================================
