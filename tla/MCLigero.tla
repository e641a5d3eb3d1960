----------------------------- MODULE MCLigero -----------------------------
(* Four witnesses in two rows, three products in one row of copies and an  *)
(* empty one, and two linear constraints, over the field of order 11.      *)
EXTENDS Ligero

\* w0 * w1 = w2, w1 * w1 = w1, w2 * w1 = w2.
MCQuadratics == <<<<0, 1, 2>>, <<1, 1, 1>>, <<2, 1, 2>>>>

\* w0 + 3 w1 - w2 + w3 = 10 and 2 w1 + 3 w1 = 5: with the products and w3 = 7, w1 = 1 and w0 = w2.
MCLinearTerms ==
    <<[constraint |-> 0, witness |-> 0, factor |-> 1],
      [constraint |-> 0, witness |-> 1, factor |-> 3],
      [constraint |-> 0, witness |-> 2, factor |-> 10],
      [constraint |-> 0, witness |-> 3, factor |-> 1],
      [constraint |-> 1, witness |-> 1, factor |-> 2],
      [constraint |-> 1, witness |-> 1, factor |-> 3]>>
MCRightHandSides == [k \in 0..1 |-> IF k = 0 THEN 10 ELSE 5]

\* Satisfying ones, ones that miss a product, and ones that miss a linear
\* constraint or both.
MCWitnesses ==
    {w \in [0..3 -> {0, 1, 3, 7}] :
        /\ w[0] # 7 /\ w[1] \in {0, 1} /\ w[2] # 7 /\ w[3] = 7
        /\ w[2] # 0 \/ w[1] = 0 \/ w[0] = 0}

\* Streams over the field: polynomials of the position.
Stream(a, b, c) == [k \in 0..63 |-> (a * k * k + b * k + c) % Order]

MCRandomStreams == {Stream(0, 0, 0), Stream(1, 3, 2)}
MCChallengeStreams == {Stream(0, 0, 0), Stream(0, 0, 1), Stream(3, 1, 4), Stream(2, 5, 7)}
=============================================================================
