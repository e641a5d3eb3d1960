------------------------------ MODULE NymAuth ------------------------------
(***************************************************************************)
(* The two-circuit proof of nymauth/mod.rs: the hash circuit shows what a  *)
(* credential says and that the pseudonym is of its holder's seed, the     *)
(* signature circuit that the issuer and the device signed.                *)
(*                                                                         *)
(* The holder makes proofs one call after another; then a verifier is      *)
(* given a pseudonym and a proof, the parts of which may come from         *)
(* different calls, and checks it for a request of its own.                *)
(***************************************************************************)
EXTENDS TwoCircuitProof

CONSTANTS
    Requests,        \* records of valid, key, dates, e2, vi and seed
    Credentials,     \* records of issuer, dates, seed and messages
    SecretSeeds,     \* what a holder may enter as its secret seed
    KeyShares,       \* what G::sample yields: values of a_p
    MaxProofs        \* bound on the proofs the holder makes

\* What is sampled or tagged is an element; a request has the fields of NymAuthRequest and no
\* others.
ASSUME NymAuthAssumption ==
    /\ KeyShares \subseteq [{1, 2} -> FE]
    /\ \A c \in Credentials : c.messages \in [{1, 2} -> FE]
    /\ \A r \in Requests :
         /\ r.valid \in BOOLEAN
         /\ r = [valid |-> r.valid, key |-> r.key, dates |-> r.dates, e2 |-> r.e2, vi |-> r.vi,
                 seed |-> r.seed]

VARIABLES
    pc,              \* where the current call is
    request, credential, secret_seed, signed,   \* the arguments of prove
    h, s,            \* the two input vectors, public and private
    transcript,      \* what was written to the transcript of the call
    proof,           \* the proof being made
    proofs,          \* the proofs made so far
    v_request, v_nym, v_proof,     \* the arguments of verify
    v_transcript, v_share,         \* its transcript and its a_v
    v_query          \* history: the transcript its a_v was drawn from

prover_vars == <<request, credential, secret_seed, signed, h, s, transcript, proof, proofs>>
verifier_vars == <<v_request, v_nym, v_proof, v_transcript, v_share, v_query>>
vars == <<pc, prover_vars, oracle, verifier_vars>>

-----------------------------------------------------------------------------
(* What both sides compute.                                                *)

\* SHA-256 of the nym message.
pseudonym(seed, vi) == <<seed, vi>>

hash_public_base(r) == [dates |-> r.dates, vi |-> r.vi, nym |-> None,
                        a_v |-> ZERO, tags |-> ZeroTags]

sig_public_base(r) == [key |-> r.key, e2 |-> r.e2,
                       a_v |-> ToBits(ZERO), tags |-> [k \in Messages |-> ToBits(ZERO)]]

\* set_mac_public, for either vector.
set_hash_mac(public, a_v, tags) == [public EXCEPT !.a_v = a_v, !.tags = tags]
set_sig_mac(public, a_v, tags) ==
    [public EXCEPT !.a_v = ToBits(a_v), !.tags = [k \in Messages |-> ToBits(tags[k])]]

\* The hash circuit: the credential is valid at the dates asked for, holds the seed's
\* digest, and the pseudonym is of that seed.
HashCircuitSatisfied(public, private) ==
    /\ public.dates \in private.credential.dates
    /\ private.credential.seed = private.seed
    /\ public.nym = pseudonym(private.seed, public.vi)
    /\ public.tags = MacTags(private.a_p, public.a_v, private.credential.messages)

\* The signature circuit: the issuer's key signed the digest, and the device's the challenge.
SigCircuitSatisfied(public, private) ==
    /\ private.issuer_trace = public.key
    /\ private.device_trace = public.e2
    /\ [k \in Messages |-> FromBits(public.tags[k])] =
         MacTags([k \in Messages |-> FromBits(private.a_p[k])], FromBits(public.a_v),
                 private.messages)

-----------------------------------------------------------------------------
(* prove.                                                                  *)

Init ==
    /\ pc = "idle"
    /\ request = None /\ credential = None /\ secret_seed = None /\ signed = None
    /\ h = None /\ s = None /\ transcript = <<>>
    /\ proof = None /\ proofs = <<>> /\ oracle = <<>>
    /\ v_request = None /\ v_nym = None /\ v_proof = None
    /\ v_transcript = <<>> /\ v_share = None /\ v_query = <<>>

\* The dates are calendar dates in order, the key a point, and the sizes right.
check(r) == r.valid

\* Host-side verification of the issuer's and of the device's signature.
SignaturesVerify(r, c, digest) == c.issuer = r.key /\ digest = r.e2

\* A call of prove: the request is checked, the signatures are verified, and both vectors
\* are filled in but for a_v and the tags.  Any error ends the call.
build_inputs ==
    /\ pc = "idle" /\ Len(proofs) < MaxProofs
    /\ \E r \in Requests, c \in Credentials, seed \in SecretSeeds, d \in {q.e2 : q \in Requests},
         a_p \in KeyShares :
         /\ request' = r /\ credential' = c /\ secret_seed' = seed /\ signed' = d
         /\ IF check(r) /\ SignaturesVerify(r, c, d)
            THEN /\ pc' = "built"
                 /\ h' = [public |-> [hash_public_base(r) EXCEPT !.nym = pseudonym(seed, r.vi)],
                          private |-> [credential |-> c, seed |-> seed, a_p |-> a_p]]
                 /\ s' = [public |-> sig_public_base(r),
                          private |-> [a_p |-> [k \in Messages |-> ToBits(a_p[k])],
                                       messages |-> c.messages,
                                       issuer_trace |-> c.issuer, device_trace |-> d]]
            ELSE pc' = "refused" /\ UNCHANGED <<h, s>>
    /\ UNCHANGED <<transcript, proof, proofs, oracle, verifier_vars>>

\* evaluate_satisfied
Satisfied(hash, sig) ==
    /\ HashCircuitSatisfied(hash.public, hash.private)
    /\ SigCircuitSatisfied(sig.public, sig.private)

\* The tags of the call for a_v, and both vectors with them.
Tags(a_v) == MacTags(h.private.a_p, a_v, h.private.credential.messages)
HashTagged(a_v) == [h EXCEPT !.public = set_hash_mac(@, a_v, Tags(a_v))]
SigTagged(a_v) == [s EXCEPT !.public = set_sig_mac(@, a_v, Tags(a_v))]

\* Faulty variant of refuse_false_statement: the hash circuit is not evaluated.
refuse_false_statement_signature_only ==
    /\ pc = "built"
    /\ h' = HashTagged(ZERO)
    /\ s' = SigTagged(ZERO)
    /\ pc' = IF SigCircuitSatisfied(s'.public, s'.private) THEN "satisfied" ELSE "refused"
    /\ UNCHANGED <<request, credential, secret_seed, signed, transcript, proof, proofs, oracle,
                   verifier_vars>>

\* Both circuits are evaluated with a placeholder a_v of zero before anything is committed to.
refuse_false_statement ==
    /\ pc = "built"
    /\ h' = HashTagged(ZERO)
    /\ s' = SigTagged(ZERO)
    /\ pc' = IF Satisfied(h', s') THEN "satisfied" ELSE "refused"
    /\ UNCHANGED <<request, credential, secret_seed, signed, transcript, proof, proofs, oracle,
                   verifier_vars>>

\* A new transcript, to which both commitments are written.
commit ==
    /\ pc = "satisfied"
    /\ transcript' = << <<"seed", request.seed>>, <<"root", h.private>>, <<"root", s.private>> >>
    /\ proof' = [hash_commitment |-> h.private, sig_commitment |-> s.private]
    /\ pc' = "committed"
    /\ UNCHANGED <<request, credential, secret_seed, signed, h, s, proofs, oracle, verifier_vars>>

\* a_v is drawn, the tags are made for it, and both circuits are evaluated again.
tag ==
    /\ pc = "committed"
    /\ \E a_v \in Challenges(transcript) :
         /\ Drawn(transcript, a_v)
         /\ h' = HashTagged(a_v)
         /\ s' = SigTagged(a_v)
    /\ pc' = IF Satisfied(h', s') THEN "tagged" ELSE "refused late"
    /\ UNCHANGED <<request, credential, secret_seed, signed, transcript, proof, proofs,
                   verifier_vars>>

\* A circuit's part: the transcript is initialized and the proof written to it.
HashPart == initialize_transcript(transcript, "hash", h.public)
SigPart == initialize_transcript(transcript, "sig", s.public)

prove_hash ==
    /\ pc = "tagged"
    /\ proof' = [hash_commitment |-> proof.hash_commitment, sig_commitment |-> proof.sig_commitment,
                 hash_proof |-> ProofFrom("hash", HashPart, h.private)]
    /\ transcript' = Append(HashPart, <<"proof", "hash">>)
    /\ pc' = "hash proved"
    /\ UNCHANGED <<request, credential, secret_seed, signed, h, s, proofs, oracle, verifier_vars>>

\* The signature circuit's part goes on in the same transcript; then the proof is encoded.
prove_sig ==
    /\ pc = "hash proved"
    /\ proofs' = Append(proofs,
         [request |-> request, pseudonym |-> h.public.nym, mac_tags |-> h.public.tags,
          hash_commitment |-> proof.hash_commitment, sig_commitment |-> proof.sig_commitment,
          hash_proof |-> proof.hash_proof, sig_proof |-> ProofFrom("sig", SigPart, s.private)])
    /\ transcript' = Append(SigPart, <<"proof", "sig">>)
    /\ pc' = "proved"
    /\ UNCHANGED <<request, credential, secret_seed, signed, h, s, proof, oracle, verifier_vars>>

\* prove returns, and drops what it made.
return ==
    /\ pc \in {"refused", "refused late", "proved"}
    /\ pc' = "idle"
    /\ request' = None /\ credential' = None /\ secret_seed' = None /\ signed' = None
    /\ h' = None /\ s' = None /\ transcript' = <<>> /\ proof' = None
    /\ UNCHANGED <<proofs, oracle, verifier_vars>>

-----------------------------------------------------------------------------
(* verify.                                                                 *)

Parts == {"mac_tags", "hash_commitment", "sig_commitment", "hash_proof", "sig_proof"}

PartsOf(p) == [part \in Parts |-> p[part]]

\* The verifier is given a proof, each part from some call of prove, and a pseudonym: one
\* that was returned, or that seed's for the verifier's own request.
receive ==
    /\ pc = "idle" /\ proofs # <<>>
    /\ \E from \in [Parts -> DOMAIN proofs], r \in Requests, n \in DOMAIN proofs :
         /\ v_proof' = [part \in Parts |-> proofs[from[part]][part]]
         /\ v_request' = r
         /\ v_nym' \in {proofs[n].pseudonym, pseudonym(proofs[n].pseudonym[1], r.vi)}
    /\ pc' = "received"
    /\ UNCHANGED <<prover_vars, oracle, v_transcript, v_share, v_query>>

\* verify_inner: the request is checked and a transcript begun.
verify_check ==
    /\ pc = "received"
    /\ IF check(v_request)
       THEN pc' = "checked" /\ v_transcript' = << <<"seed", v_request.seed>> >>
       ELSE pc' = "rejected" /\ UNCHANGED v_transcript
    /\ UNCHANGED <<prover_vars, oracle, v_request, v_nym, v_proof, v_share, v_query>>

\* Faulty variant of WithCommitments: the share is drawn between the commitments.
WithCommitments_first_only == Append(v_transcript, <<"root", v_proof.hash_commitment>>)

\* Faulty variant of WithCommitments: the order is that of the circuits in the artifact.
WithCommitments_swapped ==
    v_transcript \o << <<"root", v_proof.sig_commitment>>, <<"root", v_proof.hash_commitment>> >>

WithCommitments ==
    v_transcript \o << <<"root", v_proof.hash_commitment>>, <<"root", v_proof.sig_commitment>> >>

\* Both commitments are written and a_v is drawn.
verify_commitments ==
    /\ pc = "checked"
    /\ v_transcript' = WithCommitments
    /\ v_query' = WithCommitments
    /\ v_share' \in Challenges(WithCommitments)
    /\ Drawn(WithCommitments, v_share')
    /\ pc' = "challenged"
    /\ UNCHANGED <<prover_vars, v_request, v_nym, v_proof>>

HashStatement ==
    set_hash_mac([hash_public_base(v_request) EXCEPT !.nym = v_nym], v_share, v_proof.mac_tags)

SigStatement == set_sig_mac(sig_public_base(v_request), v_share, v_proof.mac_tags)

verify_hash ==
    /\ pc = "challenged"
    /\ LET t == initialize_transcript(v_transcript, "hash", HashStatement)
       IN  /\ v_transcript' = Append(t, <<"proof", "hash">>)
           /\ pc' = IF CircuitProofVerifies(v_proof.hash_proof, "hash", t, v_proof.hash_commitment,
                                            HashCircuitSatisfied(HashStatement, v_proof.hash_commitment))
                    THEN "hash verified" ELSE "rejected"
    /\ UNCHANGED <<prover_vars, oracle, v_request, v_nym, v_proof, v_share, v_query>>

verify_sig ==
    /\ pc = "hash verified"
    /\ LET t == initialize_transcript(v_transcript, "sig", SigStatement)
       IN  /\ v_transcript' = Append(t, <<"proof", "sig">>)
           /\ pc' = IF CircuitProofVerifies(v_proof.sig_proof, "sig", t, v_proof.sig_commitment,
                                            SigCircuitSatisfied(SigStatement, v_proof.sig_commitment))
                    THEN "accepted" ELSE "rejected"
    /\ UNCHANGED <<prover_vars, oracle, v_request, v_nym, v_proof, v_share, v_query>>

Next ==
    \/ build_inputs \/ refuse_false_statement \/ commit \/ tag \/ prove_hash \/ prove_sig \/ return
    \/ receive \/ verify_check \/ verify_commitments \/ verify_hash \/ verify_sig

Spec == Init /\ [][Next]_vars

-----------------------------------------------------------------------------
(* Properties.                                                             *)

\* What verify was given is what the n-th call of prove returned, for the same request.
IsProof(n) ==
    /\ v_proof = PartsOf(proofs[n])
    /\ v_request = proofs[n].request
    /\ v_nym = proofs[n].pseudonym

\* Completeness of prove_inner and verify_inner: a proof handed on whole, with its
\* pseudonym, is accepted for the request it was made for.
HolderAccepted == pc = "rejected" => ~\E n \in DOMAIN proofs : IsProof(n)

\* verify_inner accepts a proof only for the request and with the pseudonym it was made
\* for, and only whole: no part can be replaced by that of another proof.
AcceptedIsOneProof == pc = "accepted" => \E n \in DOMAIN proofs : IsProof(n)

\* A false statement is refused before anything is committed to: the evaluation that
\* prove_inner repeats with the true a_v never fails when that with a_v = 0 did not.
RefusedBeforeCommitment == pc # "refused late"

\* The private vectors of the signature circuit that a transcript leaves open.
SigWitnesses(t) ==
    IF \E n \in DOMAIN t : t[n] = <<"root", v_proof.sig_commitment>> THEN {v_proof.sig_commitment}
    ELSE {[a_p |-> [k \in Messages |-> ToBits(a_p[k])], messages |-> c.messages] :
            a_p \in KeyShares, c \in Credentials}

\* The shares for which one list of tags suits both circuits although their messages differ.
SharesThatHide(t) ==
    LET hash == v_proof.hash_commitment
    IN  {a_v \in FE : \E sig \in SigWitnesses(t) :
            /\ sig.messages # hash.credential.messages
            /\ MacTags(hash.a_p, a_v, hash.credential.messages)
                 = MacTags([k \in Messages |-> FromBits(sig.a_p[k])], a_v, sig.messages)}

\* What verify_inner wrote before it drew a_v leaves at most one value of a_v for which
\* circuits that speak of different credentials could pass with the same tags.
MacBindsCircuits == v_query # <<>> => Cardinality(SharesThatHide(v_query)) <= 1
=============================================================================
