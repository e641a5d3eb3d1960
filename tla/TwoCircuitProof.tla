-------------------------- MODULE TwoCircuitProof --------------------------
(***************************************************************************)
(* What the two-circuit proofs of modules NymAuth and MdocZk share.  A     *)
(* hash circuit shows what a credential says, a signature circuit that the *)
(* issuer and the device signed; tags, of a message authentication code    *)
(* over what the two have in common, tie them together.  The key of the    *)
(* code is the sum of shares a_p, which the holder commits to, and of a_v, *)
(* a challenge.                                                            *)
(*                                                                         *)
(* A Merkle root is named by what it commits to and a circuit's proof by   *)
(* the transcript it was made in (modules MerkleTree, Transcript, Sumcheck *)
(* and Ligero say why); the transcript's stream is a random oracle.        *)
(***************************************************************************)
EXTENDS Field, FiniteSets, TLC

CONSTANT
    Shares           \* bound on the challenges: the values a_v may have

\* Elements are two bits long, and what is drawn is an element.
ASSUME TwoCircuitAssumption ==
    /\ Order = 4
    /\ Shares \subseteq FE

VARIABLE
    oracle           \* the challenges drawn so far, by transcript

\* The messages the tags are for; the code has six.
Messages == {1, 2}
ZeroTags == [k \in Messages |-> ZERO]
None == "none"

\* Field elements are bits in the signature circuit, low bit first.
Bits == 0..1
ToBits(e) == [j \in Bits |-> (e \div 2^j) % 2]
FromBits(b) == b[0] + 2 * b[1]

MacTags(a_p, a_v, messages) == [k \in Messages |-> Times(Plus(a_p[k], a_v), messages[k])]

\* Faulty variant of initialize_transcript: only the circuit's id is written.
initialize_transcript_id_only(t, circuit, public) == Append(t, <<"id", circuit>>)

\* The circuit's id and its public inputs; the zeros that follow are of fixed number.
initialize_transcript(t, circuit, public) ==
    t \o << <<"id", circuit>>, <<"inputs", public>> >>

\* A circuit's sumcheck and Ligero proof, from a transcript as initialized.
ProofFrom(circuit, t, private) == [circuit |-> circuit, transcript |-> t, private |-> private]

\* The verifier follows the same transcript, and the opened columns are under the root.
CircuitProofVerifies(p, circuit, t, root, satisfied) ==
    /\ p.circuit = circuit /\ p.transcript = t /\ p.private = root
    /\ satisfied

\* Transcript::generate_challenge: any share for a new transcript, the same one for an old.
Challenges(t) == IF t \in DOMAIN oracle THEN {oracle[t]} ELSE Shares

Drawn(t, e) == oracle' = [u \in DOMAIN oracle \cup {t} |-> IF u = t THEN e ELSE oracle[u]]
=============================================================================
