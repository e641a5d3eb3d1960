------------------------------- MODULE Ligero -------------------------------
(***************************************************************************)
(* The Ligero commitment and proof of ligero/tableau.rs, ligero/prover.rs  *)
(* and ligero/verifier.rs over a small field.  The prover lays out its     *)
(* witness in a tableau of Reed-Solomon codewords, commits to the          *)
(* tableau's columns, answers random challenges with three combinations of *)
(* rows, and opens the columns that are asked for.  Rows, columns and      *)
(* witnesses are numbered from 0 as in the code.  The Merkle tree is       *)
(* abstracted to the leaves under its root (module MerkleTree shows an     *)
(* inclusion proof to pin them).                                           *)
(***************************************************************************)
EXTENDS Field, FiniteSets

CONSTANTS
    NREQ,              \* nreq: columns opened
    WR,                \* witnesses_per_row
    QR,                \* quadratic_constraints_per_row
    NCOL,              \* num_columns
    num_witnesses,     \* Witness::len
    Quadratics,        \* the quadratic constraints <<x, y, z>>: w[x] * w[y] = w[z]
    LinearTerms,       \* left-hand side terms [constraint, witness, factor]
    RightHandSides,    \* the right-hand side of each linear constraint, from 0
    Witnesses,         \* the witnesses to commit to, satisfying or not
    RandomStreams,     \* the outputs of the prover's random number generator
    ChallengeStreams,  \* the outputs of the transcript
    Alterations        \* the amounts by which an element of a proof is altered

block_size == NREQ + WR
dblock == 2 * block_size - 1

\* The rows of a tableau extend over distinct points of the field, and there
\* are enough columns to open.  QR <= WR: the constraints of a row triple are
\* laid out WR to a row whatever QR is.
ASSUME ParametersAssumption ==
    /\ NREQ \in Nat \ {0} /\ WR \in Nat \ {0} /\ QR \in 1..WR
    /\ NCOL \in (dblock + NREQ)..Order
    /\ num_witnesses \in Nat \ {0}
    /\ \A q \in 1..Len(Quadratics) : Quadratics[q] \in [1..3 -> 0..(num_witnesses - 1)]
    /\ \A t \in 1..Len(LinearTerms) :
          LinearTerms[t] \in [constraint : DOMAIN RightHandSides,
                              witness : 0..(num_witnesses - 1), factor : FE]
    /\ Witnesses \subseteq [0..(num_witnesses - 1) -> FE]

VARIABLES
    phase,       \* how far prover and verifier are
    witness,     \* the prover's witness
    tableau,     \* Tableau::contents
    challenges,  \* LigeroChallenges
    proof,       \* low_degree_test_proof, dot_proof and quadratic_proof as sent
    columns,     \* the requested column indices
    opened,      \* tableau_columns and merkle_tree_nonces as sent
    altered,     \* history: was the proof altered on its way?
    verdict      \* what verify returned

vars == <<phase, witness, tableau, challenges, proof, columns, opened, altered, verdict>>

-----------------------------------------------------------------------------
(* TableauLayout.                                                          *)

DivCeil(a, b) == (a + b - 1) \div b

first_witness_row == 3
num_quadratic_triples == DivCeil(Len(Quadratics), QR)
num_linear_constraint_rows == DivCeil(num_witnesses, WR)
num_constraint_rows == num_linear_constraint_rows + 3 * num_quadratic_triples
num_rows == first_witness_row + num_constraint_rows
first_quadratic_constraint_row == first_witness_row + num_linear_constraint_rows

num_linear_constraints == Cardinality(DOMAIN RightHandSides)

-----------------------------------------------------------------------------
(* FE::extend: the polynomial through the first n elements of a row, at    *)
(* the points up to NCOL.                                                  *)

extend_context_block == LagrangeBasis(block_size, NCOL)
extend_context_dblock == LagrangeBasis(dblock, NCOL)

extend_block(row, length) ==
    [j \in 0..(length - 1) |-> ExtendElement(row, extend_context_block, block_size, j)]
extend_dblock(row) ==
    [j \in 0..(NCOL - 1) |-> ExtendElement(row, extend_context_dblock, dblock, j)]

-----------------------------------------------------------------------------
(* Tableau::build.  random is the generator's output; each row takes up    *)
(* where the row before left off.                                          *)

dot_random == block_size
quadratic_random == dot_random + dblock - 1
witness_random == quadratic_random + NREQ + dblock - block_size

low_degree_test_row(random) == [i \in 0..(block_size - 1) |-> random[i]]

\* Faulty variant of linear_test_row: the sum is not made to vanish.
linear_test_row_unblinded(random) ==
    [i \in 0..(dblock - 1) |-> random[dot_random + (IF i < NREQ THEN i ELSE i - 1)]]

linear_test_row(random) ==
    LET drawn == [i \in 0..(dblock - 1) |-> random[dot_random + (IF i < NREQ THEN i ELSE i - 1)]]
    IN  [drawn EXCEPT ![NREQ] = Negate(SumFromTo(drawn, NREQ + 1, block_size - 1))]

quadratic_test_row(random) ==
    [i \in 0..(dblock - 1) |->
        CASE i < NREQ        -> random[quadratic_random + i]
          [] i >= block_size -> random[quadratic_random + i - WR]
          [] OTHER           -> ZERO]

\* Witness::elements pads with zeros.
PaddedWitness(w, index) == IF index < num_witnesses THEN w[index] ELSE ZERO

\* Faulty variant of QuadraticWitness: y and z rows are interleaved with x rows.
QuadraticWitness_interleaved(w, row, position) ==
    LET index == (row \div 3) * WR + position
        operand == row % 3
    IN  IF index < Len(Quadratics) THEN w[Quadratics[index + 1][operand + 1]] ELSE ZERO

\* All rows of xs, then all rows of ys, then all rows of zs.
QuadraticWitness(w, row, position) ==
    LET index == (row % num_quadratic_triples) * WR + position
        operand == row \div num_quadratic_triples
    IN  IF index < Len(Quadratics) THEN w[Quadratics[index + 1][operand + 1]] ELSE ZERO

ConstraintRow(w, random, row) ==
    [i \in 0..(block_size - 1) |->
        IF i < NREQ THEN random[witness_random + row * NREQ + i]
        ELSE IF row < num_linear_constraint_rows
        THEN PaddedWitness(w, row * WR + i - NREQ)
        ELSE QuadraticWitness(w, row - num_linear_constraint_rows, i - NREQ)]

build(w, random) ==
    [row \in 0..(num_rows - 1) |->
        CASE row = 0 -> extend_block(low_degree_test_row(random), NCOL)
          [] row = 1 -> extend_dblock(linear_test_row(random))
          [] row = 2 -> extend_dblock(quadratic_test_row(random))
          [] OTHER   -> extend_block(ConstraintRow(w, random, row - first_witness_row), NCOL)]

\* The leaf under a column: a fresh nonce, named by its column, and the column.
Leaf(t, column) ==
    [nonce |-> column, elements |-> [row \in 0..(num_rows - 1) |-> t[row][column + dblock]]]

-----------------------------------------------------------------------------
(* What prover and verifier compute alike.                                 *)

\* LigeroChallenges::generate takes the transcript's output in this order.
generate(stream) ==
    LET alphas == num_constraint_rows
        quadratic_alphas == alphas + num_linear_constraints
        quadratic_blinds == quadratic_alphas + 3 * Len(Quadratics)
    IN  [low_degree_test_blind |-> [i \in 0..(num_constraint_rows - 1) |-> stream[i]],
         linear_constraint_alphas |->
            [i \in 0..(num_linear_constraints - 1) |-> stream[alphas + i]],
         quadratic_constraint_alphas |->
            [i \in 0..(3 * Len(Quadratics) - 1) |-> stream[quadratic_alphas + i]],
         quadratic_proof_blind |->
            [i \in 0..(num_quadratic_triples - 1) |-> stream[quadratic_blinds + i]]]

\* The position of operand o of quadratic constraint q among the rows of copies.
CopyPosition(q, o) ==
    (num_linear_constraint_rows + o * num_quadratic_triples) * WR + q

\* inner_product_vector at a position: what the linear constraints and the
\* equality of every copy with its witness contribute.
InnerProductElement(c, index) ==
    LET linear == [t \in 1..Len(LinearTerms) |->
                     IF LinearTerms[t].witness = index
                     THEN Times(c.linear_constraint_alphas[LinearTerms[t].constraint],
                                LinearTerms[t].factor)
                     ELSE ZERO]
        copies == [k \in 0..(3 * Len(Quadratics) - 1) |->
                     LET alpha == c.quadratic_constraint_alphas[k]
                         q == k \div 3
                         o == k % 3
                     IN  Minus(IF CopyPosition(q, o) = index THEN alpha ELSE ZERO,
                               IF Quadratics[q + 1][o + 1] = index THEN alpha ELSE ZERO)]
    IN  Plus(SumFromTo(linear, 1, Len(LinearTerms)),
             SumFromTo(copies, 0, 3 * Len(Quadratics) - 1))

inner_product_vector(c) ==
    [index \in 0..(WR * num_constraint_rows - 1) |-> InnerProductElement(c, index)]

\* The elements of a vector that go with a constraint row, behind NREQ zeros.
InnerProductRow(vector, row) ==
    [i \in 0..(block_size - 1) |-> IF i < NREQ THEN ZERO ELSE vector[row * WR + i - NREQ]]

\* The three combinations of the elements of one column, given as a function
\* from rows.
LowDegreeElement(c, column) ==
    Plus(column[0],
         SumFromTo([row \in 0..(num_constraint_rows - 1) |->
                       Times(c.low_degree_test_blind[row], column[first_witness_row + row])],
                   0, num_constraint_rows - 1))

DotElement(products, column) ==
    Plus(column[1],
         SumFromTo([row \in 0..(num_constraint_rows - 1) |->
                       Times(products[row], column[first_witness_row + row])],
                   0, num_constraint_rows - 1))

QuadraticElement(c, column) ==
    LET x_row == first_quadratic_constraint_row
        y_row == x_row + num_quadratic_triples
        z_row == y_row + num_quadratic_triples
    IN  Plus(column[2],
             SumFromTo([i \in 0..(num_quadratic_triples - 1) |->
                           Times(c.quadratic_proof_blind[i],
                                 Minus(column[z_row + i],
                                       Times(column[x_row + i], column[y_row + i])))],
                       0, num_quadratic_triples - 1))

TableauColumn(t, j) == [row \in 0..(num_rows - 1) |-> t[row][j]]

-----------------------------------------------------------------------------
(* LigeroProver: commit and prove.                                         *)

NoProof == [low_degree |-> <<>>, dot |-> <<>>, quadratic |-> <<>>]
NoChallenges == [low_degree_test_blind |-> <<>>, linear_constraint_alphas |-> <<>>,
                 quadratic_constraint_alphas |-> <<>>, quadratic_proof_blind |-> <<>>]

Init ==
    /\ phase = "start"
    /\ witness \in Witnesses
    /\ tableau = <<>>
    /\ challenges = NoChallenges
    /\ proof = NoProof
    /\ columns = <<>>
    /\ opened = <<>>
    /\ altered = FALSE
    /\ verdict = "none"

commit ==
    /\ phase = "start"
    /\ phase' = "committed"
    /\ \E random \in RandomStreams : tableau' = build(witness, random)
    /\ UNCHANGED <<witness, challenges, proof, columns, opened, altered, verdict>>

\* The challenges come after the commitment: they do not depend on the
\* prover's choices but through the transcript.
challenge ==
    /\ phase = "committed"
    /\ phase' = "challenged"
    /\ \E stream \in ChallengeStreams : challenges' = generate(stream)
    /\ UNCHANGED <<witness, tableau, proof, columns, opened, altered, verdict>>

ProofOf(t, c) ==
    LET vector == inner_product_vector(c)
        extended == [row \in 0..(num_constraint_rows - 1) |->
                        extend_block(InnerProductRow(vector, row), dblock)]
    IN  [low_degree |-> [j \in 0..(block_size - 1) |-> LowDegreeElement(c, TableauColumn(t, j))],
         dot |-> [j \in 0..(dblock - 1) |->
                     DotElement([row \in DOMAIN extended |-> extended[row][j]],
                                TableauColumn(t, j))],
         quadratic |-> [j \in 0..(dblock - 1) |-> QuadraticElement(c, TableauColumn(t, j))]]

\* prove panics when the middle part of the quadratic proof is not zero: that
\* part is not sent.
prove ==
    /\ phase = "challenged"
    /\ LET p == ProofOf(tableau, challenges)
       IN  IF \A j \in NREQ..(block_size - 1) : p.quadratic[j] = ZERO
           THEN phase' = "proved" /\ proof' = p
           ELSE phase' = "panicked" /\ proof' = proof
    /\ UNCHANGED <<witness, tableau, challenges, columns, opened, altered, verdict>>

ColumnChoices ==
    {s \in [1..NREQ -> 0..(NCOL - dblock - 1)] :
        \A a, b \in 1..NREQ : s[a] = s[b] => a = b}

open_columns ==
    /\ phase = "proved"
    /\ phase' = "sent"
    /\ \E c \in ColumnChoices :
          /\ columns' = c
          /\ opened' = [i \in 1..NREQ |-> Leaf(tableau, c[i])]
    /\ UNCHANGED <<witness, tableau, challenges, proof, altered, verdict>>

-----------------------------------------------------------------------------
(* A proof may be altered on its way.  An alteration of a combination goes *)
(* into the verifier's transcript, which then asks for other columns.      *)

AlterProof(part, positions) ==
    /\ phase = "sent" /\ ~altered
    /\ altered' = TRUE
    /\ \E j \in positions, amount \in Alterations :
          proof' = [proof EXCEPT ![part][j] = Plus(@, amount)]
    /\ columns' \in ColumnChoices
    /\ UNCHANGED <<phase, witness, tableau, challenges, opened, verdict>>

alter_low_degree == AlterProof("low_degree", 0..(block_size - 1))
alter_dot == AlterProof("dot", 0..(dblock - 1))
alter_quadratic == AlterProof("quadratic", 0..(NREQ - 1) \cup block_size..(dblock - 1))

alter_opened ==
    /\ phase = "sent" /\ ~altered
    /\ altered' = TRUE
    /\ \E i \in 1..NREQ, row \in 0..(num_rows - 1), amount \in Alterations :
          opened' = [opened EXCEPT ![i].elements[row] = Plus(@, amount)]
    /\ UNCHANGED <<phase, witness, tableau, challenges, proof, columns, verdict>>

-----------------------------------------------------------------------------
(* LigeroVerifier::verify.                                                 *)

gather(row, i) == row[columns[i] + dblock]

low_degree_test_matches ==
    LET row == extend_block(proof.low_degree, NCOL)
    IN  \A i \in 1..NREQ : LowDegreeElement(challenges, opened[i].elements) = gather(row, i)

want_dot_product ==
    SumFromTo([k \in 0..(num_linear_constraints - 1) |->
                  Times(RightHandSides[k], challenges.linear_constraint_alphas[k])],
              0, num_linear_constraints - 1)

\* Faulty variant of dot_product_matches: the nreq random elements are summed too.
dot_product_matches_from_start ==
    want_dot_product = SumFromTo(proof.dot, 0, block_size - 1)

dot_product_matches ==
    want_dot_product = SumFromTo(proof.dot, NREQ, NREQ + WR - 1)

dot_proof_matches ==
    LET vector == inner_product_vector(challenges)
        extended == [row \in 0..(num_constraint_rows - 1) |->
                        extend_block(InnerProductRow(vector, row), NCOL)]
        row == extend_dblock(proof.dot)
    IN  \A i \in 1..NREQ :
            DotElement([r \in DOMAIN extended |-> gather(extended[r], i)], opened[i].elements)
                = gather(row, i)

\* LigeroProof::quadratic_proof puts zeros back in the middle.
quadratic_proof ==
    [j \in 0..(dblock - 1) |-> IF j \in NREQ..(block_size - 1) THEN ZERO ELSE proof.quadratic[j]]

quadratic_proof_matches ==
    LET row == extend_dblock(quadratic_proof)
    IN  \A i \in 1..NREQ : QuadraticElement(challenges, opened[i].elements) = gather(row, i)

\* Faulty variant of inclusion_proof_matches: only the nonces are compared.
inclusion_proof_matches_nonces ==
    \A i \in 1..NREQ : opened[i].nonce = Leaf(tableau, columns[i]).nonce

\* The leaves hashed from the opened columns are those under the root.
inclusion_proof_matches == \A i \in 1..NREQ : opened[i] = Leaf(tableau, columns[i])

verify ==
    /\ phase = "sent"
    /\ phase' = "verified"
    /\ verdict' = IF ~low_degree_test_matches THEN "low degree test proof mismatch"
                  ELSE IF ~dot_product_matches THEN "dot product mismatch"
                  ELSE IF ~dot_proof_matches THEN "dot proof mismatch"
                  ELSE IF ~quadratic_proof_matches THEN "quadratic proof mismatch"
                  ELSE IF ~inclusion_proof_matches THEN "inclusion proof failure"
                  ELSE "accepted"
    /\ UNCHANGED <<witness, tableau, challenges, proof, columns, opened, altered>>

Next ==
    \/ commit \/ challenge \/ prove \/ open_columns
    \/ alter_low_degree \/ alter_dot \/ alter_quadratic \/ alter_opened
    \/ verify

Spec == Init /\ [][Next]_vars

-----------------------------------------------------------------------------
(* Properties.                                                             *)

\* What a linear constraint lacks, and by how much a product misses.
LinearResidual(k) ==
    Minus(SumFromTo([t \in 1..Len(LinearTerms) |->
                        IF LinearTerms[t].constraint = k
                        THEN Times(LinearTerms[t].factor, witness[LinearTerms[t].witness])
                        ELSE ZERO],
                    1, Len(LinearTerms)),
          RightHandSides[k])

QuadraticResidual(q) ==
    LET c == Quadratics[q + 1] IN Minus(witness[c[3]], Times(witness[c[1]], witness[c[2]]))

\* The residuals of the constraints, combined with the challenges.
CombinedLinearResidual ==
    SumFromTo([k \in 0..(num_linear_constraints - 1) |->
                  Times(challenges.linear_constraint_alphas[k], LinearResidual(k))],
              0, num_linear_constraints - 1)

CombinedQuadraticResidual(position) ==
    SumFromTo([i \in 0..(num_quadratic_triples - 1) |->
                  IF i * WR + position < Len(Quadratics)
                  THEN Times(challenges.quadratic_proof_blind[i],
                             QuadraticResidual(i * WR + position))
                  ELSE ZERO],
              0, num_quadratic_triples - 1)

\* Completeness: a proof that prove made of a witness satisfying all
\* constraints, and that arrives as it was sent, passes all five checks of
\* verify, whatever the blinding, the challenges and the columns asked for.
HonestProofAccepted ==
    (/\ phase = "verified" /\ ~altered
     /\ \A k \in DOMAIN RightHandSides : LinearResidual(k) = ZERO
     /\ \A q \in 0..(Len(Quadratics) - 1) : QuadraticResidual(q) = ZERO)
    => verdict = "accepted"

\* verify looks at the witness through one number only: it accepts a proof
\* that prove made exactly when the challenges' combination of what the linear
\* constraints lack is zero.  No blinding element, copy of a witness or
\* padding adds to the dot product, and the other checks never fail.
VerdictIsLinearResidual ==
    (phase = "verified" /\ ~altered) =>
        verdict = IF CombinedLinearResidual = ZERO THEN "accepted" ELSE "dot product mismatch"

\* The assertion in prove fires exactly when the challenges' combination of
\* the products that miss is not zero at some position of the rows: each
\* quadratic constraint is at one position, and the padding misses nowhere.
PanicsOnMissedProduct ==
    phase \notin {"start", "committed", "challenged"} =>
        (phase = "panicked" <=>
            \E position \in 0..(WR - 1) : CombinedQuadraticResidual(position) # ZERO)

\* A proof with any one element altered is rejected, whatever columns the
\* verifier then asks for: two distinct codewords differ in every column that
\* can be opened, and an opened element is pinned by its leaf.
AlteredProofRejected == (phase = "verified" /\ altered) => verdict # "accepted"
=============================================================================
