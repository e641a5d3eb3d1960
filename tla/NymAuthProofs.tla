--------------------------- MODULE NymAuthProofs ---------------------------
(***************************************************************************)
(* Machine-checked proofs about prove_inner and verify_inner of            *)
(* nymauth/mod.rs, for every set of requests, credentials and key shares   *)
(* and any number of proofs: the holder never commits to a statement it    *)
(* will refuse, what it returns is accepted, and nothing is accepted but   *)
(* what one call of prove_inner returned.                                  *)
(***************************************************************************)
EXTENDS NymAuth, TwoCircuitLemmas

\* Where the two vectors are in use and nothing was refused.
Open == pc \in {"built", "satisfied", "committed"}

\* The parts of a vector that set_mac_public and the circuits refer to.
Shaped ==
    /\ h = [public |-> h.public, private |-> h.private]
    /\ s = [public |-> s.public, private |-> s.private]
    /\ h.public = [dates |-> h.public.dates, vi |-> h.public.vi, nym |-> h.public.nym,
                   a_v |-> h.public.a_v, tags |-> h.public.tags]
    /\ s.public = [key |-> s.public.key, e2 |-> s.public.e2,
                   a_v |-> s.public.a_v, tags |-> s.public.tags]

\* The signature circuit takes its bits from the elements the hash circuit takes: both
\* vectors are filled in from the same key shares and messages.
SameShares ==
    /\ h.private.a_p \in [Messages -> FE]
    /\ h.private.credential.messages \in [Messages -> FE]
    /\ s.private.a_p = [k \in Messages |-> ToBits(h.private.a_p[k])]
    /\ s.private.messages = h.private.credential.messages

\* What the evaluation with a_v = 0 has established, but for the tags.
StatementHolds ==
    /\ h.public.dates \in h.private.credential.dates
    /\ h.private.credential.seed = h.private.seed
    /\ h.public.nym = pseudonym(h.private.seed, h.public.vi)
    /\ s.private.issuer_trace = s.public.key
    /\ s.private.device_trace = s.public.e2

\* Every challenge drawn is one of the shares.
DrawnFromShares == \A t \in DOMAIN oracle : oracle[t] \in FE

IInv ==
    /\ Open => Shaped /\ SameShares
    /\ pc \in {"satisfied", "committed"} => StatementHolds
    /\ DrawnFromShares
    /\ RefusedBeforeCommitment

\* set_mac_public changes a_v and the tags of the public inputs, and nothing else.
LEMMA HashMacSet ==
    ASSUME NEW r, NEW a_v, NEW tags,
           r = [dates |-> r.dates, vi |-> r.vi, nym |-> r.nym, a_v |-> r.a_v, tags |-> r.tags]
    PROVE  set_hash_mac(r, a_v, tags) =
             [dates |-> r.dates, vi |-> r.vi, nym |-> r.nym, a_v |-> a_v, tags |-> tags]
<1> DEFINE q == [r EXCEPT !.a_v = a_v]
<1>1. q = [dates |-> r.dates, vi |-> r.vi, nym |-> r.nym, a_v |-> a_v, tags |-> r.tags]
  OBVIOUS
<1> HIDE DEF q
<1>2. [q EXCEPT !.tags = tags] =
        [dates |-> r.dates, vi |-> r.vi, nym |-> r.nym, a_v |-> a_v, tags |-> tags]
  BY <1>1
<1> QED
  BY <1>2 DEF q, set_hash_mac

\* The same for the signature circuit, whose a_v and tags are bits.
LEMMA SigMacSet ==
    ASSUME NEW r, NEW a_v, NEW tags,
           r = [key |-> r.key, e2 |-> r.e2, a_v |-> r.a_v, tags |-> r.tags]
    PROVE  set_sig_mac(r, a_v, tags) =
             [key |-> r.key, e2 |-> r.e2, a_v |-> ToBits(a_v),
              tags |-> [k \in Messages |-> ToBits(tags[k])]]
<1> DEFINE q == [r EXCEPT !.a_v = ToBits(a_v)]
           u == [k \in Messages |-> ToBits(tags[k])]
<1>1. q = [key |-> r.key, e2 |-> r.e2, a_v |-> ToBits(a_v), tags |-> r.tags]
  OBVIOUS
<1> HIDE DEF q, u
<1>2. [q EXCEPT !.tags = u] = [key |-> r.key, e2 |-> r.e2, a_v |-> ToBits(a_v), tags |-> u]
  BY <1>1
<1> QED
  BY <1>2 DEF q, u, set_sig_mac

\* Replacing the public inputs of a vector leaves the private ones.
LEMMA PublicSet ==
    ASSUME NEW r, NEW new, r = [public |-> r.public, private |-> r.private]
    PROVE  [r EXCEPT !.public = new] = [public |-> new, private |-> r.private]
OBVIOUS

\* Both vectors as set_mac_public leaves them.
LEMMA TaggedVectors ==
    ASSUME Shaped, NEW a_v
    PROVE  /\ HashTagged(a_v) =
                [public |-> [dates |-> h.public.dates, vi |-> h.public.vi, nym |-> h.public.nym,
                             a_v |-> a_v, tags |-> Tags(a_v)],
                 private |-> h.private]
           /\ SigTagged(a_v) =
                [public |-> [key |-> s.public.key, e2 |-> s.public.e2, a_v |-> ToBits(a_v),
                             tags |-> [k \in Messages |-> ToBits(Tags(a_v)[k])]],
                 private |-> s.private]
<1> DEFINE T == Tags(a_v)
           HT == set_hash_mac(h.public, a_v, T)
           ST == set_sig_mac(s.public, a_v, T)
<1>1. HT = [dates |-> h.public.dates, vi |-> h.public.vi, nym |-> h.public.nym,
            a_v |-> a_v, tags |-> T]
  BY HashMacSet DEF Shaped
<1>2. ST = [key |-> s.public.key, e2 |-> s.public.e2, a_v |-> ToBits(a_v),
            tags |-> [k \in Messages |-> ToBits(T[k])]]
  BY SigMacSet DEF Shaped
<1>3. [h EXCEPT !.public = HT] = [public |-> HT, private |-> h.private]
  <2> HIDE DEF HT
  <2> QED
    BY PublicSet DEF Shaped
<1>4. [s EXCEPT !.public = ST] = [public |-> ST, private |-> s.private]
  <2> HIDE DEF ST
  <2> QED
    BY PublicSet DEF Shaped
<1>5. HashTagged(a_v) = [h EXCEPT !.public = HT] /\ SigTagged(a_v) = [s EXCEPT !.public = ST]
  BY Zenon DEF HashTagged, SigTagged
<1> QED
  BY <1>1, <1>2, <1>3, <1>4, <1>5, Zenon

\* Tagged, the vectors keep their shape, their private parts and the statement.
LEMMA TaggedKeep ==
    ASSUME Shaped, SameShares, NEW a_v, h' = HashTagged(a_v), s' = SigTagged(a_v)
    PROVE  Shaped' /\ SameShares' /\ (StatementHolds' <=> StatementHolds)
<1>1. /\ h' = [public |-> [dates |-> h.public.dates, vi |-> h.public.vi, nym |-> h.public.nym,
                          a_v |-> a_v, tags |-> Tags(a_v)],
               private |-> h.private]
      /\ s' = [public |-> [key |-> s.public.key, e2 |-> s.public.e2, a_v |-> ToBits(a_v),
                          tags |-> [k \in Messages |-> ToBits(Tags(a_v)[k])]],
               private |-> s.private]
  BY TaggedVectors
<1>2. h'.private = h.private /\ s'.private = s.private
  BY <1>1
<1>3. /\ h'.public.dates = h.public.dates /\ h'.public.vi = h.public.vi
      /\ h'.public.nym = h.public.nym
      /\ s'.public.key = s.public.key /\ s'.public.e2 = s.public.e2
  BY <1>1
<1>4. Shaped'
  BY <1>1 DEF Shaped
<1>5. SameShares'
  BY <1>2 DEF SameShares
<1>6. StatementHolds' <=> StatementHolds
  BY <1>2, <1>3 DEF StatementHolds
<1> QED
  BY <1>4, <1>5, <1>6

\* The heart of the matter: for every a_v the tags made from the hash circuit's elements
\* are the ones the signature circuit computes from its bits.
LEMMA TaggedSatisfied ==
    ASSUME Shaped, SameShares, StatementHolds, NEW a_v \in FE
    PROVE  Satisfied(HashTagged(a_v), SigTagged(a_v))
<1> DEFINE T == Tags(a_v)
           H == HashTagged(a_v)
           S == SigTagged(a_v)
<1>1. /\ H = [public |-> [dates |-> h.public.dates, vi |-> h.public.vi, nym |-> h.public.nym,
                         a_v |-> a_v, tags |-> T],
              private |-> h.private]
      /\ S = [public |-> [key |-> s.public.key, e2 |-> s.public.e2, a_v |-> ToBits(a_v),
                         tags |-> [k \in Messages |-> ToBits(T[k])]],
              private |-> s.private]
  BY TaggedVectors
<1>2. T \in [Messages -> FE]
  BY TagsInField, Zenon DEF Tags, SameShares
<1> HIDE DEF T, H, S
<1>3. HashCircuitSatisfied(H.public, H.private)
  <2>1. /\ H.private = h.private /\ H.public.dates = h.public.dates /\ H.public.vi = h.public.vi
        /\ H.public.nym = h.public.nym /\ H.public.a_v = a_v /\ H.public.tags = T
    BY <1>1
  <2>2. T = MacTags(h.private.a_p, a_v, h.private.credential.messages)
    BY DEF T, Tags
  <2> QED
    BY <2>1, <2>2 DEF HashCircuitSatisfied, StatementHolds
<1>4. SigCircuitSatisfied(S.public, S.private)
  <2>1. /\ S.private = s.private /\ S.public.key = s.public.key /\ S.public.e2 = s.public.e2
        /\ S.public.a_v = ToBits(a_v) /\ S.public.tags = [k \in Messages |-> ToBits(T[k])]
    BY <1>1
  <2>2. [k \in Messages |-> FromBits(S.public.tags[k])] = T
    BY <1>2, <2>1, VectorRoundTrip, Zenon
  <2>3. [k \in Messages |-> FromBits(s.private.a_p[k])] = h.private.a_p
    BY VectorRoundTrip, Zenon DEF SameShares
  <2>4. FromBits(S.public.a_v) = a_v
    BY <2>1, BitsRoundTrip
  <2>5. T = MacTags(h.private.a_p, a_v, h.private.credential.messages)
    BY DEF T, Tags
  <2>6. s.private.messages = h.private.credential.messages
    BY DEF SameShares
  <2>7. [k \in Messages |-> FromBits(S.public.tags[k])] =
          MacTags([k \in Messages |-> FromBits(S.private.a_p[k])], FromBits(S.public.a_v),
                  S.private.messages)
    BY <2>1, <2>2, <2>3, <2>4, <2>5, <2>6, Zenon
  <2>8. S.private.issuer_trace = S.public.key /\ S.private.device_trace = S.public.e2
    BY <2>1, Zenon DEF StatementHolds
  <2> QED
    BY <2>7, <2>8, Zenon DEF SigCircuitSatisfied
<1> QED
  BY <1>3, <1>4, Zenon DEF Satisfied, H, S

-----------------------------------------------------------------------------
\* Each step preserves the invariant; a call is refused late only if tag refuses it.
LEMMA IInvInductive == IInv /\ [Next]_vars => IInv'
<1> SUFFICES ASSUME IInv, [Next]_vars PROVE IInv'
  OBVIOUS
<1> USE DEF Open
<1>1. CASE build_inputs
  <2>1. oracle' = oracle /\ pc' \in {"built", "refused"}
    BY <1>1 DEF build_inputs, verifier_vars
  <2>2. ASSUME pc' = "built" PROVE Shaped' /\ SameShares'
    <3>1. PICK r \in Requests, c \in Credentials, seed \in SecretSeeds,
               d \in {q.e2 : q \in Requests}, a_p \in KeyShares :
            /\ h' = [public |-> [hash_public_base(r) EXCEPT !.nym = pseudonym(seed, r.vi)],
                     private |-> [credential |-> c, seed |-> seed, a_p |-> a_p]]
            /\ s' = [public |-> sig_public_base(r),
                     private |-> [a_p |-> [k \in Messages |-> ToBits(a_p[k])],
                                  messages |-> c.messages,
                                  issuer_trace |-> c.issuer, device_trace |-> d]]
      BY <1>1, <2>2 DEF build_inputs
    <3> DEFINE base == hash_public_base(r)
    <3>2. base = [dates |-> r.dates, vi |-> r.vi, nym |-> None, a_v |-> ZERO, tags |-> ZeroTags]
      BY DEF hash_public_base
    <3> HIDE DEF base
    <3>3. [base EXCEPT !.nym = pseudonym(seed, r.vi)] =
            [dates |-> r.dates, vi |-> r.vi, nym |-> pseudonym(seed, r.vi),
             a_v |-> ZERO, tags |-> ZeroTags]
      BY <3>2
    <3>4. h' = [public |-> [dates |-> r.dates, vi |-> r.vi, nym |-> pseudonym(seed, r.vi),
                            a_v |-> ZERO, tags |-> ZeroTags],
                private |-> [credential |-> c, seed |-> seed, a_p |-> a_p]]
      BY <3>1, <3>3, Zenon DEF base
    <3>5. s' = [public |-> [key |-> r.key, e2 |-> r.e2, a_v |-> ToBits(ZERO),
                            tags |-> [k \in Messages |-> ToBits(ZERO)]],
                private |-> [a_p |-> [k \in Messages |-> ToBits(a_p[k])],
                             messages |-> c.messages,
                             issuer_trace |-> c.issuer, device_trace |-> d]]
      BY <3>1 DEF sig_public_base
    <3>6. Shaped'
      BY <3>4, <3>5 DEF Shaped
    <3>7. a_p \in [Messages -> FE] /\ c.messages \in [Messages -> FE]
      BY NymAuthAssumption DEF Messages
    <3>8. /\ h'.private.a_p = a_p /\ h'.private.credential = c
          /\ s'.private.a_p = [k \in Messages |-> ToBits(a_p[k])]
          /\ s'.private.messages = c.messages
      BY <3>4, <3>5
    <3>9. SameShares'
      BY <3>7, <3>8 DEF SameShares
    <3> QED
      BY <3>6, <3>9
  <2>3. DrawnFromShares'
    BY <2>1 DEF IInv, DrawnFromShares
  <2> QED
    BY <2>1, <2>2, <2>3 DEF IInv, RefusedBeforeCommitment
<1>2. CASE refuse_false_statement
  <2>1. /\ pc = "built" /\ h' = HashTagged(ZERO) /\ s' = SigTagged(ZERO) /\ oracle' = oracle
        /\ pc' = IF Satisfied(h', s') THEN "satisfied" ELSE "refused"
    BY <1>2 DEF refuse_false_statement
  <2>2. Shaped' /\ SameShares'
    BY <2>1, TaggedKeep DEF IInv
  <2>3. pc' = "satisfied" => StatementHolds'
    BY <2>1 DEF Satisfied, HashCircuitSatisfied, SigCircuitSatisfied, StatementHolds
  <2>4. DrawnFromShares'
    BY <2>1 DEF IInv, DrawnFromShares
  <2>5. pc' \in {"satisfied", "refused"}
    BY <2>1
  <2> QED
    BY <2>2, <2>3, <2>4, <2>5 DEF IInv, RefusedBeforeCommitment
<1>3. CASE commit
  <2>1. pc = "satisfied" /\ pc' = "committed" /\ h' = h /\ s' = s /\ oracle' = oracle
    BY <1>3 DEF commit
  <2>2. Shaped' /\ SameShares' /\ StatementHolds'
    BY <2>1 DEF IInv, Shaped, SameShares, StatementHolds
  <2>3. DrawnFromShares'
    BY <2>1 DEF IInv, DrawnFromShares
  <2> QED
    BY <2>1, <2>2, <2>3 DEF IInv, RefusedBeforeCommitment
<1>4. CASE tag
  <2>1. PICK a_v \in Challenges(transcript) :
          Drawn(transcript, a_v) /\ h' = HashTagged(a_v) /\ s' = SigTagged(a_v)
    BY <1>4 DEF tag
  <2>2. pc = "committed" /\ pc' = IF Satisfied(h', s') THEN "tagged" ELSE "refused late"
    BY <1>4 DEF tag
  <2>3. a_v \in FE
    BY TwoCircuitAssumption DEF Challenges, IInv, DrawnFromShares
  <2>4. Satisfied(h', s')
    BY <2>1, <2>2, <2>3, TaggedSatisfied DEF IInv
  <2>5. pc' = "tagged"
    BY <2>2, <2>4
  <2>6. DrawnFromShares'
    BY <2>1, <2>3 DEF Drawn, IInv, DrawnFromShares
  <2> QED
    BY <2>5, <2>6 DEF IInv, RefusedBeforeCommitment
<1>5. CASE verify_commitments
  <2>1. v_share' \in FE
    BY <1>5, TwoCircuitAssumption DEF verify_commitments, Challenges, IInv, DrawnFromShares
  <2>2. DrawnFromShares'
    BY <1>5, <2>1 DEF verify_commitments, Drawn, IInv, DrawnFromShares
  <2>3. pc' = "challenged"
    BY <1>5 DEF verify_commitments
  <2> QED
    BY <2>2, <2>3 DEF IInv, RefusedBeforeCommitment
<1>6. CASE prove_hash \/ prove_sig \/ return \/ receive \/ verify_check \/ verify_hash \/ verify_sig
  <2>1. oracle' = oracle
    BY <1>6 DEF prove_hash, prove_sig, return, receive, verify_check, verify_hash, verify_sig
  <2>2. pc' \in {"hash proved", "proved", "idle", "received", "checked", "rejected",
                 "hash verified", "accepted"}
    BY <1>6 DEF prove_hash, prove_sig, return, receive, verify_check, verify_hash, verify_sig
  <2>3. DrawnFromShares'
    BY <2>1 DEF IInv, DrawnFromShares
  <2> QED
    BY <2>2, <2>3 DEF IInv, RefusedBeforeCommitment
<1>7. CASE UNCHANGED vars
  <2>1. pc' = pc /\ h' = h /\ s' = s /\ oracle' = oracle
    BY <1>7 DEF vars, prover_vars
  <2> QED
    BY <2>1 DEF IInv, Shaped, SameShares, StatementHolds, DrawnFromShares, RefusedBeforeCommitment
<1> QED
  BY <1>1, <1>2, <1>3, <1>4, <1>5, <1>6, <1>7 DEF Next

\* prove_inner never refuses a statement after it has committed to it: what
\* evaluate_satisfied accepts with the placeholder a_v it accepts with the one drawn.
THEOREM RefusesInTime == Spec => []RefusedBeforeCommitment
<1>1. Init => IInv
  BY DEF Init, IInv, Open, DrawnFromShares, RefusedBeforeCommitment
<1>2. IInv => RefusedBeforeCommitment
  BY DEF IInv
<1> QED
  BY <1>1, IInvInductive, <1>2, PTL DEF Spec

-----------------------------------------------------------------------------
(* Transcripts say what was written to them.                               *)

HashTranscript(seed, hash, sig, public) == FirstTranscript("hash", seed, hash, sig, public)

SigTranscript(seed, hash, sig, public, sig_public) ==
    SecondTranscript("hash", "sig", seed, hash, sig, public, sig_public)

-----------------------------------------------------------------------------
(* Proofs, and what verify makes of them.                                  *)

HashPublic(r, nym, a_v, tags) ==
    [dates |-> r.dates, vi |-> r.vi, nym |-> nym, a_v |-> a_v, tags |-> tags]

SigPublic(r, a_v, tags) ==
    [key |-> r.key, e2 |-> r.e2, a_v |-> ToBits(a_v), tags |-> [k \in Messages |-> ToBits(tags[k])]]

HashProof(seed, hash, sig, public) ==
    ProofFrom("hash", HashTranscript(seed, hash, sig, public), hash)

SigProof(seed, hash, sig, public, sig_public) ==
    ProofFrom("sig", SigTranscript(seed, hash, sig, public, sig_public), sig)

\* A proof whose parts are all of one request, for commitments that yield a_v.
MadeWith(p, a_v) ==
    /\ p.request \in Requests /\ p.request.valid
    /\ p.hash_proof = HashProof(p.request.seed, p.hash_commitment, p.sig_commitment,
                                HashPublic(p.request, p.pseudonym, a_v, p.mac_tags))
    /\ p.sig_proof = SigProof(p.request.seed, p.hash_commitment, p.sig_commitment,
                              HashPublic(p.request, p.pseudonym, a_v, p.mac_tags),
                              SigPublic(p.request, a_v, p.mac_tags))
    /\ HashCircuitSatisfied(HashPublic(p.request, p.pseudonym, a_v, p.mac_tags), p.hash_commitment)
    /\ SigCircuitSatisfied(SigPublic(p.request, a_v, p.mac_tags), p.sig_commitment)

PrefixOf(p) == Prefix(p.request.seed, p.hash_commitment, p.sig_commitment)

Genuine(p) == PrefixOf(p) \in DOMAIN oracle /\ MadeWith(p, oracle[PrefixOf(p)])

ProofsInv ==
    /\ \E S : proofs \in Seq(S)
    /\ \A n \in DOMAIN proofs : Genuine(proofs[n])

\* The vectors of the call in progress are filled in for its request.
Filled ==
    /\ request \in Requests /\ request.valid
    /\ h.public = HashPublic(request, h.public.nym, h.public.a_v, h.public.tags)
    /\ s.public = SigPublic(request, h.public.a_v, h.public.tags)

CallPrefix == Prefix(request.seed, h.private, s.private)

CallChallenged == /\ CallPrefix \in DOMAIN oracle /\ h.public.a_v = oracle[CallPrefix]
                  /\ Satisfied(h, s)

CallInv ==
    /\ pc \in {"built", "satisfied", "committed", "tagged", "hash proved"} => Filled
    /\ pc \in {"committed", "tagged", "hash proved"} =>
         proof.hash_commitment = h.private /\ proof.sig_commitment = s.private
    /\ pc \in {"committed", "tagged"} => transcript = CallPrefix
    /\ pc \in {"tagged", "hash proved"} => CallChallenged
    /\ pc = "hash proved" =>
         /\ transcript = Append(HashTranscript(request.seed, h.private, s.private, h.public),
                                <<"proof", "hash">>)
         /\ proof.hash_proof = HashProof(request.seed, h.private, s.private, h.public)

VPrefix == Prefix(v_request.seed, v_proof.hash_commitment, v_proof.sig_commitment)
VHashPublic == HashPublic(v_request, v_nym, v_share, v_proof.mac_tags)
VSigPublic == SigPublic(v_request, v_share, v_proof.mac_tags)
VHashTranscript ==
    HashTranscript(v_request.seed, v_proof.hash_commitment, v_proof.sig_commitment, VHashPublic)
VSigTranscript ==
    SigTranscript(v_request.seed, v_proof.hash_commitment, v_proof.sig_commitment, VHashPublic,
                  VSigPublic)

\* What verify was given: each part is one of some proof.
Given ==
    /\ v_request \in Requests
    /\ v_proof = [part \in Parts |-> v_proof[part]]
    /\ \A part \in Parts : \E n \in DOMAIN proofs : v_proof[part] = proofs[n][part]

VerifierChallenged == VPrefix \in DOMAIN oracle /\ v_share = oracle[VPrefix]

VerifierInv ==
    /\ pc \in {"received", "checked", "challenged", "hash verified", "accepted"} => Given
    /\ pc \in {"checked", "challenged", "hash verified", "accepted"} => v_request.valid
    /\ pc = "checked" => v_transcript = << <<"seed", v_request.seed>> >>
    /\ pc \in {"challenged", "hash verified", "accepted"} => VerifierChallenged
    /\ pc = "challenged" => v_transcript = VPrefix
    /\ pc = "hash verified" => v_transcript = Append(VHashTranscript, <<"proof", "hash">>)
    /\ pc \in {"hash verified", "accepted"} =>
         v_proof.hash_proof = ProofFrom("hash", VHashTranscript, v_proof.hash_commitment)
    /\ pc = "accepted" =>
         v_proof.sig_proof = ProofFrom("sig", VSigTranscript, v_proof.sig_commitment)
    /\ HolderAccepted

\* The verifier's public inputs are those of the prover's vectors.
LEMMA StatementsAreFilled == HashStatement = VHashPublic /\ SigStatement = VSigPublic
<1> DEFINE base == hash_public_base(v_request)
           filled == [base EXCEPT !.nym = v_nym]
           sig == sig_public_base(v_request)
<1>1. base = [dates |-> v_request.dates, vi |-> v_request.vi, nym |-> None, a_v |-> ZERO,
              tags |-> ZeroTags]
  BY DEF hash_public_base
<1>2. filled = [dates |-> v_request.dates, vi |-> v_request.vi, nym |-> v_nym, a_v |-> ZERO,
                tags |-> ZeroTags]
  <2> HIDE DEF base
  <2> QED
    BY <1>1
<1>3. sig = [key |-> v_request.key, e2 |-> v_request.e2, a_v |-> ToBits(ZERO),
             tags |-> [k \in Messages |-> ToBits(ZERO)]]
  BY DEF sig_public_base
<1>4. HashStatement = set_hash_mac(filled, v_share, v_proof.mac_tags)
      /\ SigStatement = set_sig_mac(sig, v_share, v_proof.mac_tags)
  BY DEF HashStatement, SigStatement
<1> HIDE DEF filled, sig
<1>5. filled = [dates |-> filled.dates, vi |-> filled.vi, nym |-> filled.nym,
                a_v |-> filled.a_v, tags |-> filled.tags]
  BY <1>2
<1>6. sig = [key |-> sig.key, e2 |-> sig.e2, a_v |-> sig.a_v, tags |-> sig.tags]
  BY <1>3
<1>7. HashStatement = [dates |-> filled.dates, vi |-> filled.vi, nym |-> filled.nym,
                       a_v |-> v_share, tags |-> v_proof.mac_tags]
  BY <1>4, <1>5, HashMacSet
<1>8. SigStatement = [key |-> sig.key, e2 |-> sig.e2, a_v |-> ToBits(v_share),
                      tags |-> [k \in Messages |-> ToBits(v_proof.mac_tags[k])]]
  BY <1>4, <1>6, SigMacSet
<1> QED
  BY <1>2, <1>3, <1>7, <1>8 DEF VHashPublic, VSigPublic, HashPublic, SigPublic

\* set_mac_public leaves the request in both vectors.
LEMMA TaggedFilled ==
    ASSUME Shaped, Filled, NEW a_v, h' = HashTagged(a_v), s' = SigTagged(a_v), request' = request
    PROVE  /\ Filled'
           /\ h'.public.a_v = a_v /\ h'.private = h.private /\ s'.private = s.private
<1>1. /\ h' = [public |-> [dates |-> h.public.dates, vi |-> h.public.vi, nym |-> h.public.nym,
                          a_v |-> a_v, tags |-> Tags(a_v)],
               private |-> h.private]
      /\ s' = [public |-> [key |-> s.public.key, e2 |-> s.public.e2, a_v |-> ToBits(a_v),
                          tags |-> [k \in Messages |-> ToBits(Tags(a_v)[k])]],
               private |-> s.private]
  BY TaggedVectors
<1>2. h.public.dates = request.dates /\ h.public.vi = request.vi
  BY DEF Filled, HashPublic
<1>3. s.public.key = request.key /\ s.public.e2 = request.e2
  BY DEF Filled, SigPublic
<1>4. /\ h'.public = HashPublic(request, h.public.nym, a_v, Tags(a_v))
      /\ s'.public = SigPublic(request, a_v, Tags(a_v))
      /\ h'.private = h.private /\ s'.private = s.private
  BY <1>1, <1>2, <1>3 DEF HashPublic, SigPublic
<1>5. h'.public.nym = h.public.nym /\ h'.public.a_v = a_v /\ h'.public.tags = Tags(a_v)
  BY <1>4 DEF HashPublic
<1>6. request \in Requests /\ request.valid
  BY DEF Filled
<1> QED
  BY <1>4, <1>5, <1>6 DEF Filled

\* So proofs stay genuine.
LEMMA ProofsKept ==
    ASSUME ProofsInv, OracleKept, proofs' = proofs
    PROVE  ProofsInv'
BY DEF ProofsInv, Genuine, OracleKept

-----------------------------------------------------------------------------
(* The steps of prove.                                                     *)

Verifier == {"received", "checked", "challenged", "hash verified", "accepted", "rejected"}

\* Until a proof is received there is nothing to say of a verifier.
LEMMA VerifierIdle == ASSUME pc' \notin Verifier PROVE VerifierInv'
BY DEF VerifierInv, Verifier, HolderAccepted

\* build_inputs: the vectors are those of the request, and the request is valid.
LEMMA BuildStep ==
    ASSUME ProofsInv, build_inputs
    PROVE  ProofsInv' /\ CallInv' /\ VerifierInv'
<1>1. oracle' = oracle /\ proofs' = proofs /\ pc' \in {"built", "refused"}
  BY DEF build_inputs, verifier_vars
<1>2. ProofsInv'
  BY <1>1, ProofsKept DEF OracleKept
<1>3. ASSUME pc' = "built" PROVE Filled'
  <2>1. PICK r \in Requests, c \in Credentials, seed \in SecretSeeds,
             d \in {q.e2 : q \in Requests}, a_p \in KeyShares :
          /\ request' = r /\ check(r)
          /\ h' = [public |-> [hash_public_base(r) EXCEPT !.nym = pseudonym(seed, r.vi)],
                   private |-> [credential |-> c, seed |-> seed, a_p |-> a_p]]
          /\ s' = [public |-> sig_public_base(r),
                   private |-> [a_p |-> [k \in Messages |-> ToBits(a_p[k])],
                                messages |-> c.messages,
                                issuer_trace |-> c.issuer, device_trace |-> d]]
    BY <1>3 DEF build_inputs
  <2> DEFINE base == hash_public_base(r)
  <2>2. base = [dates |-> r.dates, vi |-> r.vi, nym |-> None, a_v |-> ZERO, tags |-> ZeroTags]
    BY DEF hash_public_base
  <2> HIDE DEF base
  <2>3. [base EXCEPT !.nym = pseudonym(seed, r.vi)] =
          HashPublic(r, pseudonym(seed, r.vi), ZERO, ZeroTags)
    BY <2>2 DEF HashPublic
  <2>4. h'.public = HashPublic(r, pseudonym(seed, r.vi), ZERO, ZeroTags)
    BY <2>1, <2>3 DEF base
  <2>5. s'.public = SigPublic(r, ZERO, ZeroTags)
    <3>1. [k \in Messages |-> ToBits(ZERO)] = [k \in Messages |-> ToBits(ZeroTags[k])]
      BY DEF ZeroTags
    <3>2. s'.public = sig_public_base(r)
      BY <2>1
    <3> QED
      BY <3>1, <3>2 DEF sig_public_base, SigPublic
  <2>6. /\ h'.public.nym = pseudonym(seed, r.vi) /\ h'.public.a_v = ZERO
        /\ h'.public.tags = ZeroTags
    BY <2>4 DEF HashPublic
  <2> QED
    BY <2>1, <2>4, <2>5, <2>6 DEF Filled, check
<1>4. CallInv'
  BY <1>1, <1>3 DEF CallInv
<1>5. VerifierInv'
  BY <1>1, VerifierIdle DEF Verifier
<1> QED
  BY <1>2, <1>4, <1>5

\* evaluate_satisfied with a_v = 0 leaves the request in the vectors.
LEMMA RefuseStep ==
    ASSUME IInv, ProofsInv, CallInv, refuse_false_statement
    PROVE  ProofsInv' /\ CallInv' /\ VerifierInv'
<1>1. /\ pc = "built" /\ pc' \in {"satisfied", "refused"} /\ request' = request
      /\ h' = HashTagged(ZERO) /\ s' = SigTagged(ZERO) /\ oracle' = oracle /\ proofs' = proofs
  BY DEF refuse_false_statement
<1>2. ProofsInv'
  BY <1>1, ProofsKept DEF OracleKept
<1>3. Shaped /\ Filled
  BY <1>1 DEF IInv, Open, CallInv
<1>4. Filled'
  BY <1>1, <1>3, TaggedFilled
<1>5. CallInv'
  BY <1>1, <1>4 DEF CallInv
<1>6. VerifierInv'
  BY <1>1, VerifierIdle DEF Verifier
<1> QED
  BY <1>2, <1>5, <1>6

\* The transcript begins with the session's seed and both commitments.
LEMMA CommitStep ==
    ASSUME ProofsInv, CallInv, commit
    PROVE  ProofsInv' /\ CallInv' /\ VerifierInv'
<1>1. /\ pc = "satisfied" /\ pc' = "committed" /\ request' = request /\ h' = h /\ s' = s
      /\ transcript' = CallPrefix /\ oracle' = oracle /\ proofs' = proofs
      /\ proof' = [hash_commitment |-> h.private, sig_commitment |-> s.private]
  BY DEF commit, CallPrefix, Prefix
<1>2. ProofsInv'
  BY <1>1, ProofsKept DEF OracleKept
<1>3. Filled' /\ CallPrefix' = CallPrefix
  BY <1>1 DEF CallInv, Filled, CallPrefix
<1>4. proof'.hash_commitment = h'.private /\ proof'.sig_commitment = s'.private
  BY <1>1
<1>5. CallInv'
  BY <1>1, <1>3, <1>4 DEF CallInv
<1>6. VerifierInv'
  BY <1>1, VerifierIdle DEF Verifier
<1> QED
  BY <1>2, <1>5, <1>6

\* The share drawn is the one of that prefix, now and later.
LEMMA TagStep ==
    ASSUME IInv, ProofsInv, CallInv, tag
    PROVE  ProofsInv' /\ CallInv' /\ VerifierInv'
<1>1. PICK a_v \in Challenges(transcript) :
        Drawn(transcript, a_v) /\ h' = HashTagged(a_v) /\ s' = SigTagged(a_v)
  BY DEF tag
<1>2. /\ pc = "committed" /\ pc' = (IF Satisfied(h', s') THEN "tagged" ELSE "refused late")
      /\ request' = request /\ transcript' = transcript /\ proof' = proof /\ proofs' = proofs
  BY DEF tag
<1>3. OracleKept /\ transcript \in DOMAIN oracle' /\ oracle'[transcript] = a_v
  BY <1>1, DrawingKeeps
<1>4. ProofsInv'
  BY <1>2, <1>3, ProofsKept
<1>5. Shaped /\ Filled /\ transcript = CallPrefix
  BY <1>2 DEF IInv, Open, CallInv
<1>6. Filled' /\ h'.public.a_v = a_v /\ h'.private = h.private /\ s'.private = s.private
  BY <1>1, <1>2, <1>5, TaggedFilled
<1>7. CallPrefix' = CallPrefix
  BY <1>2, <1>6 DEF CallPrefix
<1>8. pc' = "tagged" => CallChallenged'
  BY <1>2, <1>3, <1>5, <1>6, <1>7 DEF CallChallenged
<1>9. proof'.hash_commitment = h'.private /\ proof'.sig_commitment = s'.private
  BY <1>2, <1>6 DEF CallInv
<1>10. transcript' = CallPrefix'
  BY <1>2, <1>5, <1>7
<1>11. pc' \in {"tagged", "refused late"}
  BY <1>2
<1>12. CallInv'
  BY <1>6, <1>8, <1>9, <1>10, <1>11 DEF CallInv
<1>13. VerifierInv'
  BY <1>11, VerifierIdle DEF Verifier
<1> QED
  BY <1>4, <1>12, <1>13

\* The hash circuit's part is made in the transcript that the vectors say.
LEMMA HashStep ==
    ASSUME ProofsInv, CallInv, prove_hash
    PROVE  ProofsInv' /\ CallInv' /\ VerifierInv'
<1>1. /\ pc = "tagged" /\ pc' = "hash proved" /\ request' = request /\ h' = h /\ s' = s
      /\ transcript' = Append(HashPart, <<"proof", "hash">>) /\ oracle' = oracle
      /\ proofs' = proofs
      /\ proof' = [hash_commitment |-> proof.hash_commitment,
                   sig_commitment |-> proof.sig_commitment,
                   hash_proof |-> ProofFrom("hash", HashPart, h.private)]
  BY DEF prove_hash
<1>2. ProofsInv'
  BY <1>1, ProofsKept DEF OracleKept
<1>3. HashPart = HashTranscript(request.seed, h.private, s.private, h.public)
  BY <1>1 DEF CallInv, HashPart, HashTranscript, FirstTranscript, CallPrefix
<1>4. /\ proof'.hash_commitment = h.private /\ proof'.sig_commitment = s.private
      /\ proof'.hash_proof = HashProof(request.seed, h.private, s.private, h.public)
  BY <1>1, <1>3 DEF CallInv, HashProof
<1>5. Filled' /\ CallChallenged'
  BY <1>1 DEF CallInv, Filled, CallChallenged, CallPrefix
<1>6. CallInv'
  BY <1>1, <1>3, <1>4, <1>5 DEF CallInv
<1>7. VerifierInv'
  BY <1>1, VerifierIdle DEF Verifier
<1> QED
  BY <1>2, <1>6, <1>7

\* The signature circuit's part completes a proof, which is genuine.
LEMMA SigStep ==
    ASSUME ProofsInv, CallInv, prove_sig
    PROVE  ProofsInv' /\ CallInv' /\ VerifierInv'
<1> DEFINE p == [request |-> request, pseudonym |-> h.public.nym, mac_tags |-> h.public.tags,
                 hash_commitment |-> proof.hash_commitment, sig_commitment |-> proof.sig_commitment,
                 hash_proof |-> proof.hash_proof,
                 sig_proof |-> ProofFrom("sig", SigPart, s.private)]
<1>1. /\ pc = "hash proved" /\ pc' = "proved" /\ oracle' = oracle
      /\ proofs' = Append(proofs, p)
  BY DEF prove_sig
<1>2. SigPart = SigTranscript(request.seed, h.private, s.private, h.public, s.public)
  BY <1>1 DEF CallInv, SigPart, SigTranscript, SecondTranscript, HashTranscript
<1>3. /\ p.request = request /\ p.pseudonym = h.public.nym /\ p.mac_tags = h.public.tags
      /\ p.hash_commitment = h.private /\ p.sig_commitment = s.private
      /\ p.hash_proof = HashProof(request.seed, h.private, s.private, h.public)
      /\ p.sig_proof = SigProof(request.seed, h.private, s.private, h.public, s.public)
  BY <1>1, <1>2 DEF CallInv, SigProof
<1> HIDE DEF p
<1>4. Filled /\ CallChallenged
  BY <1>1 DEF CallInv
<1>5. PrefixOf(p) = CallPrefix
  BY <1>3 DEF PrefixOf, CallPrefix
<1>6. /\ h.public = HashPublic(request, p.pseudonym, oracle[PrefixOf(p)], p.mac_tags)
      /\ s.public = SigPublic(request, oracle[PrefixOf(p)], p.mac_tags)
  BY <1>3, <1>4, <1>5 DEF Filled, CallChallenged
<1>7. Genuine(p)
  BY <1>3, <1>4, <1>5, <1>6 DEF Genuine, MadeWith, Filled, CallChallenged, Satisfied
<1>8. PICK S : proofs \in Seq(S)
  BY DEF ProofsInv
<1> DEFINE R == S \cup {p}
<1>9. proofs \in Seq(R) /\ p \in R
  BY <1>8
<1>10. ProofsInv'
  <2> HIDE DEF R
  <2>0. /\ proofs' \in Seq(R) /\ Len(proofs') = Len(proofs) + 1
        /\ \A n \in 1..Len(proofs) : proofs'[n] = proofs[n]
        /\ proofs'[Len(proofs) + 1] = p
    <3>1. proofs' = Append(proofs, p)
      BY <1>1
    <3> QED
      BY ONLY <3>1, <1>9, AppendProperties
  <2>1. \A n \in DOMAIN proofs' :
          (n \in DOMAIN proofs /\ proofs'[n] = proofs[n]) \/ proofs'[n] = p
    BY <1>9, <2>0
  <2>2. \A n \in DOMAIN proofs' : Genuine(proofs'[n])
    BY <1>7, <2>1 DEF ProofsInv
  <2> QED
    BY <1>1, <2>0, <2>2 DEF ProofsInv, Genuine
<1>11. CallInv'
  BY <1>1 DEF CallInv
<1>12. VerifierInv'
  BY <1>1, VerifierIdle DEF Verifier
<1> QED
  BY <1>10, <1>11, <1>12

-----------------------------------------------------------------------------
(* The steps of verify.                                                    *)

\* No part of a proof is of two proofs, so one that is handed on whole has all its parts.
LEMMA WholeProof ==
    ASSUME NEW n, IsProof(n)
    PROVE  /\ v_proof.mac_tags = proofs[n].mac_tags
           /\ v_proof.hash_commitment = proofs[n].hash_commitment
           /\ v_proof.sig_commitment = proofs[n].sig_commitment
           /\ v_proof.hash_proof = proofs[n].hash_proof
           /\ v_proof.sig_proof = proofs[n].sig_proof
BY DEF IsProof, PartsOf, Parts

\* What a genuine proof says is what the verifier finds.
LEMMA WholeProofVerifies ==
    ASSUME ProofsInv, VerifierChallenged, NEW n \in DOMAIN proofs, IsProof(n)
    PROVE  /\ v_proof.hash_proof = ProofFrom("hash", VHashTranscript, v_proof.hash_commitment)
           /\ v_proof.sig_proof = ProofFrom("sig", VSigTranscript, v_proof.sig_commitment)
           /\ HashCircuitSatisfied(VHashPublic, v_proof.hash_commitment)
           /\ SigCircuitSatisfied(VSigPublic, v_proof.sig_commitment)
<1> DEFINE p == proofs[n]
<1>1. Genuine(p)
  BY DEF ProofsInv
<1>2. /\ v_request = p.request /\ v_nym = p.pseudonym /\ v_proof.mac_tags = p.mac_tags
      /\ v_proof.hash_commitment = p.hash_commitment /\ v_proof.sig_commitment = p.sig_commitment
      /\ v_proof.hash_proof = p.hash_proof /\ v_proof.sig_proof = p.sig_proof
  BY WholeProof DEF IsProof
<1> HIDE DEF p
<1>3. VPrefix = PrefixOf(p)
  BY <1>2 DEF VPrefix, PrefixOf
<1>4. v_share = oracle[PrefixOf(p)]
  BY <1>3 DEF VerifierChallenged
<1>5. /\ VHashPublic = HashPublic(p.request, p.pseudonym, oracle[PrefixOf(p)], p.mac_tags)
      /\ VSigPublic = SigPublic(p.request, oracle[PrefixOf(p)], p.mac_tags)
  BY <1>2, <1>4 DEF VHashPublic, VSigPublic
<1>6. /\ VHashTranscript = HashTranscript(p.request.seed, p.hash_commitment, p.sig_commitment,
                                          VHashPublic)
      /\ VSigTranscript = SigTranscript(p.request.seed, p.hash_commitment, p.sig_commitment,
                                        VHashPublic, VSigPublic)
  BY <1>2 DEF VHashTranscript, VSigTranscript
<1> QED
  BY <1>1, <1>2, <1>5, <1>6 DEF Genuine, MadeWith, HashProof, SigProof

\* Steps that leave the proofs and the challenges alone and do not end a call of prove.
LEMMA VerifyKeeps ==
    ASSUME ProofsInv, proofs' = proofs, oracle' = oracle, pc' \in Verifier \cup {"idle"}
    PROVE  ProofsInv' /\ CallInv'
<1>1. ProofsInv'
  BY ProofsKept DEF OracleKept
<1> QED
  BY <1>1 DEF CallInv, Verifier

\* prove returns: the proofs made stay, and the call is over.
LEMMA ReturnStep ==
    ASSUME ProofsInv, return
    PROVE  ProofsInv' /\ CallInv' /\ VerifierInv'
<1>1. pc' = "idle" /\ proofs' = proofs /\ oracle' = oracle
  BY DEF return
<1> QED
  BY <1>1, VerifyKeeps, VerifierIdle DEF Verifier

\* Every part the verifier is given is of a proof that was made.
LEMMA ReceiveStep ==
    ASSUME ProofsInv, receive
    PROVE  ProofsInv' /\ CallInv' /\ VerifierInv'
<1>1. pc' = "received" /\ proofs' = proofs /\ oracle' = oracle
  BY DEF receive, prover_vars
<1>2. PICK from \in [Parts -> DOMAIN proofs], r \in Requests :
        v_proof' = [part \in Parts |-> proofs[from[part]][part]] /\ v_request' = r
  BY DEF receive
<1>3. \A part \in Parts : /\ from[part] \in DOMAIN proofs'
                          /\ v_proof'[part] = proofs'[from[part]][part]
  BY <1>1, <1>2
<1>4. Given'
  BY <1>2, <1>3 DEF Given
<1>5. VerifierInv'
  BY <1>1, <1>4 DEF VerifierInv, HolderAccepted
<1> QED
  BY <1>1, <1>5, VerifyKeeps DEF Verifier

\* A request that a proof was made for passes the check.
LEMMA CheckStep ==
    ASSUME ProofsInv, VerifierInv, verify_check
    PROVE  ProofsInv' /\ CallInv' /\ VerifierInv'
<1>1. /\ pc = "received" /\ proofs' = proofs /\ oracle' = oracle
      /\ v_request' = v_request /\ v_nym' = v_nym /\ v_proof' = v_proof
      /\ \/ pc' = "checked" /\ v_request.valid /\ v_transcript' = << <<"seed", v_request.seed>> >>
         \/ pc' = "rejected" /\ ~v_request.valid
  BY DEF verify_check, prover_vars, check
<1>2. Given'
  BY <1>1 DEF VerifierInv, Given
<1>3. ASSUME pc' = "rejected" PROVE HolderAccepted'
  <2>1. SUFFICES ASSUME NEW n \in DOMAIN proofs, IsProof(n) PROVE FALSE
    BY <1>1 DEF HolderAccepted, IsProof
  <2>2. proofs[n].request.valid
    BY DEF ProofsInv, Genuine, MadeWith
  <2> QED
    BY <1>1, <1>3, <2>1, <2>2 DEF IsProof
<1>4. VerifierInv'
  BY <1>1, <1>2, <1>3 DEF VerifierInv, HolderAccepted
<1> QED
  BY <1>1, <1>4, VerifyKeeps DEF Verifier

\* The verifier's transcript is the prover's prefix, and so is its share.
LEMMA CommitmentsStep ==
    ASSUME ProofsInv, VerifierInv, verify_commitments
    PROVE  ProofsInv' /\ CallInv' /\ VerifierInv'
<1>1. /\ pc = "checked" /\ pc' = "challenged" /\ proofs' = proofs
      /\ v_request' = v_request /\ v_nym' = v_nym /\ v_proof' = v_proof
      /\ v_transcript' = WithCommitments
      /\ v_share' \in Challenges(WithCommitments) /\ Drawn(WithCommitments, v_share')
  BY DEF verify_commitments, prover_vars
<1>2. Given /\ v_request.valid /\ v_transcript = << <<"seed", v_request.seed>> >>
  BY <1>1 DEF VerifierInv
<1>3. WithCommitments = VPrefix
  <2> DEFINE a == <<"seed", v_request.seed>>
             b == <<"root", v_proof.hash_commitment>>
             c == <<"root", v_proof.sig_commitment>>
             S == {a, b, c}
             t == <<a>>
             u == <<b, c>>
             v == <<a, b, c>>
  <2>1. t \in Seq(S) /\ u \in Seq(S) /\ v \in Seq(S) /\ Len(t) = 1 /\ Len(u) = 2 /\ Len(v) = 3
    OBVIOUS
  <2>2. t[1] = v[1] /\ u[1] = v[2] /\ u[2] = v[3]
    OBVIOUS
  <2>3. WithCommitments = t \o u /\ VPrefix = v
    BY <1>2 DEF WithCommitments, VPrefix, Prefix
  <2> HIDE DEF a, b, c, S, t, u, v
  <2>4. t \o u = v
    BY <2>1, <2>2, OneAndTwo
  <2> QED
    BY <2>3, <2>4
<1>4. OracleKept /\ VPrefix \in DOMAIN oracle' /\ oracle'[VPrefix] = v_share'
  BY <1>1, <1>3, DrawingKeeps
<1>5. ProofsInv'
  BY <1>1, <1>4, ProofsKept
<1>6. Given' /\ VPrefix' = VPrefix
  BY <1>1, <1>2 DEF Given, VPrefix
<1>7. VerifierInv'
  BY <1>1, <1>2, <1>3, <1>4, <1>6 DEF VerifierInv, VerifierChallenged, HolderAccepted
<1> QED
  BY <1>1, <1>5, <1>7 DEF CallInv

\* The hash circuit's part is accepted only in the transcript it was made in, and is if whole.
LEMMA VerifyHashStep ==
    ASSUME ProofsInv, VerifierInv, verify_hash
    PROVE  ProofsInv' /\ CallInv' /\ VerifierInv'
<1> DEFINE root == v_proof.hash_commitment
           verified == CircuitProofVerifies(v_proof.hash_proof, "hash", VHashTranscript, root,
                                            HashCircuitSatisfied(VHashPublic, root))
<1>1. pc = "challenged" /\ v_transcript = VPrefix
  BY DEF verify_hash, VerifierInv
<1>2. initialize_transcript(v_transcript, "hash", HashStatement) = VHashTranscript
  BY <1>1, StatementsAreFilled DEF VHashTranscript, HashTranscript, FirstTranscript, VPrefix
<1>3. /\ proofs' = proofs /\ oracle' = oracle /\ v_request' = v_request /\ v_nym' = v_nym
      /\ v_proof' = v_proof /\ v_share' = v_share
      /\ v_transcript' = Append(VHashTranscript, <<"proof", "hash">>)
      /\ pc' = IF verified THEN "hash verified" ELSE "rejected"
  BY <1>2, StatementsAreFilled DEF verify_hash, prover_vars
<1>4. Given /\ v_request.valid /\ VerifierChallenged
  BY <1>1 DEF VerifierInv
<1>5. Given' /\ VerifierChallenged' /\ VHashTranscript' = VHashTranscript
  BY <1>3, <1>4 DEF Given, VerifierChallenged, VPrefix, VHashTranscript, VHashPublic
<1>6. ASSUME verified PROVE v_proof.hash_proof = ProofFrom("hash", VHashTranscript, root)
  <2>1. PICK n \in DOMAIN proofs : v_proof["hash_proof"] = proofs[n]["hash_proof"]
    BY <1>4 DEF Given, Parts
  <2>2. \E t, private : v_proof.hash_proof = ProofFrom("hash", t, private)
    BY <2>1 DEF ProofsInv, Genuine, MadeWith, HashProof
  <2> QED
    BY <1>6, <2>2 DEF CircuitProofVerifies, ProofFrom
<1>7. ASSUME ~verified PROVE HolderAccepted'
  <2>1. SUFFICES ASSUME NEW n \in DOMAIN proofs, IsProof(n) PROVE FALSE
    BY <1>3 DEF HolderAccepted, IsProof
  <2>2. /\ v_proof.hash_proof = ProofFrom("hash", VHashTranscript, root)
        /\ HashCircuitSatisfied(VHashPublic, root)
    BY <1>4, <2>1, WholeProofVerifies
  <2> QED
    BY <1>7, <2>2 DEF CircuitProofVerifies, ProofFrom
<1>8. VerifierInv'
  BY <1>3, <1>4, <1>5, <1>6, <1>7 DEF VerifierInv, HolderAccepted
<1> QED
  BY <1>3, <1>8, VerifyKeeps DEF Verifier

\* The same for the signature circuit's part.
LEMMA VerifySigStep ==
    ASSUME ProofsInv, VerifierInv, verify_sig
    PROVE  ProofsInv' /\ CallInv' /\ VerifierInv'
<1> DEFINE root == v_proof.sig_commitment
           verified == CircuitProofVerifies(v_proof.sig_proof, "sig", VSigTranscript, root,
                                            SigCircuitSatisfied(VSigPublic, root))
<1>1. pc = "hash verified" /\ v_transcript = Append(VHashTranscript, <<"proof", "hash">>)
  BY DEF verify_sig, VerifierInv
<1>2. initialize_transcript(v_transcript, "sig", SigStatement) = VSigTranscript
  BY <1>1, StatementsAreFilled
     DEF VSigTranscript, SigTranscript, SecondTranscript, VHashTranscript, HashTranscript
<1>3. /\ proofs' = proofs /\ oracle' = oracle /\ v_request' = v_request /\ v_nym' = v_nym
      /\ v_proof' = v_proof /\ v_share' = v_share
      /\ pc' = IF verified THEN "accepted" ELSE "rejected"
  BY <1>2, StatementsAreFilled DEF verify_sig, prover_vars
<1>4. /\ Given /\ v_request.valid /\ VerifierChallenged
      /\ v_proof.hash_proof = ProofFrom("hash", VHashTranscript, v_proof.hash_commitment)
  BY <1>1 DEF VerifierInv
<1>5. /\ Given' /\ VerifierChallenged' /\ VHashTranscript' = VHashTranscript
      /\ VSigTranscript' = VSigTranscript
  BY <1>3, <1>4 DEF Given, VerifierChallenged, VPrefix, VHashTranscript, VHashPublic,
                    VSigTranscript, VSigPublic
<1>6. ASSUME verified PROVE v_proof.sig_proof = ProofFrom("sig", VSigTranscript, root)
  <2>1. PICK n \in DOMAIN proofs : v_proof["sig_proof"] = proofs[n]["sig_proof"]
    BY <1>4 DEF Given, Parts
  <2>2. \E t, private : v_proof.sig_proof = ProofFrom("sig", t, private)
    BY <2>1 DEF ProofsInv, Genuine, MadeWith, SigProof
  <2> QED
    BY <1>6, <2>2 DEF CircuitProofVerifies, ProofFrom
<1>7. ASSUME ~verified PROVE HolderAccepted'
  <2>1. SUFFICES ASSUME NEW n \in DOMAIN proofs, IsProof(n) PROVE FALSE
    BY <1>3 DEF HolderAccepted, IsProof
  <2>2. /\ v_proof.sig_proof = ProofFrom("sig", VSigTranscript, root)
        /\ SigCircuitSatisfied(VSigPublic, root)
    BY <1>4, <2>1, WholeProofVerifies
  <2> QED
    BY <1>7, <2>2 DEF CircuitProofVerifies, ProofFrom
<1>8. VerifierInv'
  BY <1>3, <1>4, <1>5, <1>6, <1>7 DEF VerifierInv, HolderAccepted
<1> QED
  BY <1>3, <1>8, VerifyKeeps DEF Verifier

-----------------------------------------------------------------------------
(* What is proved of the whole.                                            *)

AllInv == IInv /\ ProofsInv /\ CallInv /\ VerifierInv

\* Initially no proof was made and no call is in progress.
LEMMA AllInvInit == Init => AllInv
<1> SUFFICES ASSUME Init PROVE AllInv
  OBVIOUS
<1>1. pc = "idle" /\ oracle = <<>> /\ proofs = <<>>
  BY DEF Init
<1>2. IInv
  BY <1>1 DEF IInv, Open, DrawnFromShares, RefusedBeforeCommitment
<1>3. ProofsInv
  <2>1. proofs \in Seq({}) /\ DOMAIN proofs = {}
    BY <1>1
  <2> QED
    BY <2>1 DEF ProofsInv
<1>4. CallInv /\ VerifierInv
  BY <1>1 DEF CallInv, VerifierInv, HolderAccepted
<1> QED
  BY <1>2, <1>3, <1>4 DEF AllInv

\* Each step of prove and of verify preserves what is said of both.
LEMMA AllInvInductive == AllInv /\ [Next]_vars => AllInv'
<1> SUFFICES ASSUME AllInv, [Next]_vars PROVE AllInv'
  OBVIOUS
<1>1. IInv /\ ProofsInv /\ CallInv /\ VerifierInv
  BY DEF AllInv
<1>2. IInv'
  BY <1>1, IInvInductive
<1>3. ASSUME Next PROVE ProofsInv' /\ CallInv' /\ VerifierInv'
  BY <1>1, <1>3, BuildStep, RefuseStep, CommitStep, TagStep, HashStep, SigStep, ReturnStep,
     ReceiveStep, CheckStep, CommitmentsStep, VerifyHashStep, VerifySigStep DEF Next
<1>4. CASE UNCHANGED vars
  <2>1. /\ pc' = pc /\ request' = request /\ h' = h /\ s' = s /\ transcript' = transcript
        /\ proof' = proof /\ proofs' = proofs /\ oracle' = oracle
    BY <1>4 DEF vars, prover_vars
  <2>2. /\ v_request' = v_request /\ v_nym' = v_nym /\ v_proof' = v_proof
        /\ v_transcript' = v_transcript /\ v_share' = v_share
    BY <1>4 DEF vars, verifier_vars
  <2>3. ProofsInv'
    BY <1>1, <2>1, ProofsKept DEF OracleKept
  <2>4. CallInv'
    BY <1>1, <2>1 DEF CallInv, Filled, CallChallenged, CallPrefix
  <2>5. /\ VPrefix' = VPrefix /\ VHashPublic' = VHashPublic /\ VSigPublic' = VSigPublic
        /\ VHashTranscript' = VHashTranscript /\ VSigTranscript' = VSigTranscript
    BY <2>2 DEF VPrefix, VHashPublic, VSigPublic, VHashTranscript, VSigTranscript
  <2>6. Given <=> Given'
    BY <2>1, <2>2 DEF Given
  <2>7. VerifierChallenged <=> VerifierChallenged'
    BY <2>1, <2>2, <2>5 DEF VerifierChallenged
  <2>8. HolderAccepted'
    BY <1>1, <2>1, <2>2 DEF VerifierInv, HolderAccepted, IsProof
  <2>9. VerifierInv'
    BY <1>1, <2>1, <2>2, <2>5, <2>6, <2>7, <2>8 DEF VerifierInv
  <2> QED
    BY <1>2, <2>3, <2>4, <2>9 DEF AllInv
<1> QED
  BY <1>2, <1>3, <1>4 DEF AllInv

\* verify_inner accepts what prove_inner returned when it is handed on whole, with its
\* pseudonym and for the request it was made for: both write the same transcript.
THEOREM WholeProofsAccepted == Spec => []HolderAccepted
<1>1. AllInv => HolderAccepted
  BY DEF AllInv, VerifierInv
<1> QED
  BY AllInvInit, AllInvInductive, <1>1, PTL DEF Spec

\* The signature circuit's proof is the last thing written, so it speaks for everything
\* before it: the request, the pseudonym, both commitments, the share and the tags.
LEMMA AcceptedWhole == AllInv /\ pc = "accepted" => \E n \in DOMAIN proofs : IsProof(n)
<1> SUFFICES ASSUME AllInv, pc = "accepted" PROVE \E n \in DOMAIN proofs : IsProof(n)
  OBVIOUS
<1>1. /\ Given /\ v_request.valid /\ VerifierChallenged
      /\ v_proof.hash_proof = ProofFrom("hash", VHashTranscript, v_proof.hash_commitment)
      /\ v_proof.sig_proof = ProofFrom("sig", VSigTranscript, v_proof.sig_commitment)
  BY DEF AllInv, VerifierInv
<1>2. PICK n \in DOMAIN proofs : v_proof["sig_proof"] = proofs[n]["sig_proof"]
  BY <1>1 DEF Given, Parts
<1> DEFINE p == proofs[n]
           a_v == oracle[PrefixOf(p)]
           hash_public == HashPublic(p.request, p.pseudonym, a_v, p.mac_tags)
           sig_public == SigPublic(p.request, a_v, p.mac_tags)
           hash_transcript == HashTranscript(p.request.seed, p.hash_commitment, p.sig_commitment,
                                             hash_public)
           sig_transcript == SigTranscript(p.request.seed, p.hash_commitment, p.sig_commitment,
                                           hash_public, sig_public)
<1>3. /\ p.request \in Requests /\ p.request.valid
      /\ p.hash_proof = ProofFrom("hash", hash_transcript, p.hash_commitment)
      /\ p.sig_proof = ProofFrom("sig", sig_transcript, p.sig_commitment)
  BY DEF AllInv, ProofsInv, Genuine, MadeWith, HashProof, SigProof
<1>4. v_proof.sig_proof = p.sig_proof
  BY <1>2
<1>5. sig_transcript = VSigTranscript
  <2> HIDE DEF p, sig_transcript
  <2> QED
    BY <1>1, <1>3, <1>4, SameProofFrom
<1>6. hash_transcript = VHashTranscript /\ sig_public = VSigPublic
  <2> HIDE DEF p, a_v, hash_public, sig_public
  <2> QED
    BY <1>5, SecondTranscriptSays
       DEF SigTranscript, HashTranscript, VSigTranscript, VHashTranscript
<1>7. /\ p.request.seed = v_request.seed /\ p.hash_commitment = v_proof.hash_commitment
      /\ p.sig_commitment = v_proof.sig_commitment /\ hash_public = VHashPublic
  <2> HIDE DEF p, a_v, hash_public
  <2> QED
    BY <1>6, FirstTranscriptSays DEF HashTranscript, VHashTranscript
<1> HIDE DEF p, a_v, hash_transcript, sig_transcript
<1>8. /\ p.request.dates = v_request.dates /\ p.request.vi = v_request.vi
      /\ p.pseudonym = v_nym /\ p.mac_tags = v_proof.mac_tags
  BY <1>7 DEF VHashPublic, HashPublic
<1>9. p.request.key = v_request.key /\ p.request.e2 = v_request.e2
  BY <1>6 DEF VSigPublic, SigPublic
<1>10. p.request = v_request
  BY <1>1, <1>3, <1>7, <1>8, <1>9, NymAuthAssumption DEF Given
<1>11. v_proof.hash_proof = p.hash_proof
  BY <1>1, <1>3, <1>6, <1>7
<1>12. \A part \in Parts : v_proof[part] = p[part]
  BY <1>4, <1>7, <1>8, <1>11 DEF Parts
<1>13. v_proof = PartsOf(p)
  BY <1>1, <1>12 DEF Given, PartsOf
<1> QED
  BY <1>8, <1>10, <1>13 DEF IsProof, p

\* verify_inner accepts only what one call of prove_inner returned, for the request and with
\* the pseudonym it was made for, whatever calls the parts it is given are from.
THEOREM OnlyOneProofAccepted == Spec => []AcceptedIsOneProof
<1>1. AllInv => AcceptedIsOneProof
  BY AcceptedWhole DEF AcceptedIsOneProof
<1> QED
  BY AllInvInit, AllInvInductive, <1>1, PTL DEF Spec

-----------------------------------------------------------------------------
(* The tags bind the circuits.                                             *)

\* What a hash commitment is of: elements; and a signature commitment: the bits of elements.
HashElements(hash) ==
    hash.a_p \in [Messages -> FE] /\ hash.credential.messages \in [Messages -> FE]
SigElements(sig) ==
    /\ \E a_p \in [Messages -> FE] : sig.a_p = [k \in Messages |-> ToBits(a_p[k])]
    /\ sig.messages \in [Messages -> FE]

\* Every proof's commitments are of elements, and a_v is drawn once both are written.
BindInv ==
    /\ pc \in {"tagged", "hash proved"} => SameShares
    /\ \A n \in DOMAIN proofs :
         HashElements(proofs[n].hash_commitment) /\ SigElements(proofs[n].sig_commitment)
    /\ v_query # <<>> =>
         /\ pc \in {"challenged", "hash verified", "accepted", "rejected"}
         /\ v_query = VPrefix
         /\ HashElements(v_proof.hash_commitment) /\ SigElements(v_proof.sig_commitment)

\* A proof is appended with the vectors of the call as what it commits to.
LEMMA SigAppends ==
    ASSUME CallInv, prove_sig
    PROVE  \E p : /\ proofs' = Append(proofs, p)
                  /\ p.hash_commitment = h.private /\ p.sig_commitment = s.private
<1>1. /\ pc = "hash proved"
      /\ proofs' = Append(proofs,
           [request |-> request, pseudonym |-> h.public.nym, mac_tags |-> h.public.tags,
            hash_commitment |-> proof.hash_commitment, sig_commitment |-> proof.sig_commitment,
            hash_proof |-> proof.hash_proof, sig_proof |-> ProofFrom("sig", SigPart, s.private)])
  BY DEF prove_sig
<1>2. PICK p : p =
           [request |-> request, pseudonym |-> h.public.nym, mac_tags |-> h.public.tags,
            hash_commitment |-> proof.hash_commitment, sig_commitment |-> proof.sig_commitment,
            hash_proof |-> proof.hash_proof, sig_proof |-> ProofFrom("sig", SigPart, s.private)]
  OBVIOUS
<1>3. p.hash_commitment = h.private /\ p.sig_commitment = s.private
  BY <1>1, <1>2 DEF CallInv
<1> QED
  BY <1>1, <1>2, <1>3

\* Each step preserves it: no call changes what an earlier one committed to.
LEMMA BindInvInductive == AllInv /\ BindInv /\ [Next]_vars => BindInv'
<1> SUFFICES ASSUME AllInv, BindInv, [Next]_vars PROVE BindInv'
  OBVIOUS
<1>0. IInv /\ ProofsInv /\ CallInv /\ VerifierInv
  BY DEF AllInv
<1>1. CASE build_inputs \/ refuse_false_statement \/ commit \/ return
  <2>1. /\ proofs' = proofs /\ v_query' = v_query /\ v_request' = v_request /\ v_proof' = v_proof
        /\ pc' \in {"built", "satisfied", "refused", "committed", "idle"}
        /\ pc \in {"idle", "built", "satisfied", "refused", "refused late", "proved"}
    BY <1>1 DEF build_inputs, refuse_false_statement, commit, return, verifier_vars
  <2>2. v_query = <<>>
    BY <2>1 DEF BindInv
  <2> QED
    BY <2>1, <2>2 DEF BindInv
<1>2. CASE tag
  <2>1. /\ pc = "committed" /\ pc' \in {"tagged", "refused late"}
        /\ proofs' = proofs /\ v_query' = v_query
    BY <1>2 DEF tag, verifier_vars
  <2>2. PICK a_v \in Challenges(transcript) : h' = HashTagged(a_v) /\ s' = SigTagged(a_v)
    BY <1>2 DEF tag
  <2>3. SameShares'
    BY <1>0, <2>1, <2>2, TaggedKeep DEF IInv, Open
  <2>4. v_query = <<>>
    BY <2>1 DEF BindInv
  <2> QED
    BY <2>1, <2>3, <2>4 DEF BindInv
<1>3. CASE prove_hash
  <2>1. /\ pc = "tagged" /\ pc' = "hash proved" /\ h' = h /\ s' = s
        /\ proofs' = proofs /\ v_query' = v_query
    BY <1>3 DEF prove_hash, verifier_vars
  <2>2. SameShares'
    BY <2>1 DEF BindInv, SameShares
  <2>3. v_query = <<>>
    BY <2>1 DEF BindInv
  <2> QED
    BY <2>1, <2>2, <2>3 DEF BindInv
<1>4. CASE prove_sig
  <2>1. pc = "hash proved" /\ pc' = "proved" /\ v_query' = v_query
    BY <1>4 DEF prove_sig, verifier_vars
  <2>2. PICK p : /\ proofs' = Append(proofs, p)
                 /\ p.hash_commitment = h.private /\ p.sig_commitment = s.private
    BY <1>0, <1>4, SigAppends
  <2>3. HashElements(p.hash_commitment) /\ SigElements(p.sig_commitment)
    BY <2>1, <2>2 DEF BindInv, SameShares, HashElements, SigElements
  <2>4. PICK S : proofs \in Seq(S)
    BY <1>0 DEF ProofsInv
  <2> DEFINE R == S \cup {p}
  <2>5. proofs \in Seq(R) /\ p \in R
    BY <2>4
  <2>6. \A n \in DOMAIN proofs' :
          (n \in DOMAIN proofs /\ proofs'[n] = proofs[n]) \/ proofs'[n] = p
    <3> HIDE DEF R
    <3>1. /\ proofs' \in Seq(R) /\ Len(proofs') = Len(proofs) + 1
          /\ \A n \in 1..Len(proofs) : proofs'[n] = proofs[n]
          /\ proofs'[Len(proofs) + 1] = p
      <4>1. proofs' = Append(proofs, p)
        BY <2>2
      <4> QED
        BY ONLY <4>1, <2>5, AppendProperties
    <3> QED
      BY <2>5, <3>1
  <2>7. v_query = <<>>
    BY <2>1 DEF BindInv
  <2>8. \A n \in DOMAIN proofs' :
          HashElements(proofs'[n].hash_commitment) /\ SigElements(proofs'[n].sig_commitment)
    BY <2>3, <2>6 DEF BindInv
  <2> QED
    BY <2>1, <2>7, <2>8 DEF BindInv
<1>5. CASE receive \/ verify_check
  <2>1. /\ pc \in {"idle", "received"} /\ pc' \in {"received", "checked", "rejected"}
        /\ proofs' = proofs /\ v_query' = v_query
    BY <1>5 DEF receive, verify_check, prover_vars
  <2>2. v_query = <<>>
    BY <2>1 DEF BindInv
  <2> QED
    BY <2>1, <2>2 DEF BindInv
<1>6. CASE verify_commitments
  <2>1. /\ pc = "checked" /\ pc' = "challenged" /\ proofs' = proofs
        /\ v_proof' = v_proof /\ v_request' = v_request
        /\ v_query' = WithCommitments /\ v_transcript' = WithCommitments
    BY <1>6 DEF verify_commitments, prover_vars
  <2>2. v_query' = VPrefix'
    <3>1. VerifierInv'
      BY <1>0, <1>6, CommitmentsStep
    <3> QED
      BY <2>1, <3>1 DEF VerifierInv
  <2>3. Given
    BY <1>0, <2>1 DEF VerifierInv
  <2>4. PICK n \in DOMAIN proofs : v_proof["hash_commitment"] = proofs[n]["hash_commitment"]
    BY <2>3 DEF Given, Parts
  <2>5. PICK m \in DOMAIN proofs : v_proof["sig_commitment"] = proofs[m]["sig_commitment"]
    BY <2>3 DEF Given, Parts
  <2>6. HashElements(v_proof.hash_commitment) /\ SigElements(v_proof.sig_commitment)
    BY <2>4, <2>5 DEF BindInv
  <2> QED
    BY <2>1, <2>2, <2>6 DEF BindInv
<1>7. CASE verify_hash \/ verify_sig
  <2>1. /\ pc' \in {"hash verified", "accepted", "rejected"} /\ proofs' = proofs
        /\ v_proof' = v_proof /\ v_request' = v_request /\ v_query' = v_query
    BY <1>7 DEF verify_hash, verify_sig, prover_vars
  <2>2. VPrefix' = VPrefix
    BY <2>1 DEF VPrefix
  <2> QED
    BY <2>1, <2>2 DEF BindInv
<1>8. CASE UNCHANGED vars
  <2>1. /\ pc' = pc /\ h' = h /\ s' = s /\ proofs' = proofs
        /\ v_proof' = v_proof /\ v_request' = v_request /\ v_query' = v_query
    BY <1>8 DEF vars, prover_vars, verifier_vars
  <2>2. VPrefix' = VPrefix /\ (SameShares' <=> SameShares)
    BY <2>1 DEF VPrefix, SameShares
  <2> QED
    BY <2>1, <2>2 DEF BindInv
<1> QED
  BY <1>1, <1>2, <1>3, <1>4, <1>5, <1>6, <1>7, <1>8 DEF Next

\* With both commitments in the transcript one signature vector is left, and a message in
\* which the circuits differ has the same tag in both for one share at most.
LEMMA BoundByTags == BindInv => MacBindsCircuits
<1> SUFFICES ASSUME BindInv, v_query # <<>> PROVE Cardinality(SharesThatHide(v_query)) <= 1
  BY DEF MacBindsCircuits
<1> DEFINE hash == v_proof.hash_commitment
           sig == v_proof.sig_commitment
           A == SharesThatHide(v_query)
<1>1. v_query = VPrefix /\ HashElements(hash) /\ SigElements(sig)
  BY DEF BindInv
<1>2. 3 \in DOMAIN v_query /\ v_query[3] = <<"root", sig>>
  BY <1>1 DEF VPrefix, Prefix
<1>3. SigWitnesses(v_query) = {sig}
  BY <1>2 DEF SigWitnesses
<1>4. PICK a_p \in [Messages -> FE] : sig.a_p = [k \in Messages |-> ToBits(a_p[k])]
  BY <1>1 DEF SigElements
<1>5. [k \in Messages |-> FromBits(sig.a_p[k])] = a_p
  BY <1>4, VectorRoundTrip, Zenon
<1>6. ASSUME NEW x \in A
      PROVE  /\ x \in FE /\ sig.messages # hash.credential.messages
             /\ MacTags(hash.a_p, x, hash.credential.messages) = MacTags(a_p, x, sig.messages)
  BY <1>3, <1>5 DEF SharesThatHide
<1> HIDE DEF A
<1>7. ASSUME NEW x \in A, NEW y \in A PROVE x = y
  <2>1. PICK k \in Messages : sig.messages[k] # hash.credential.messages[k]
    BY <1>1, <1>6, <1>7 DEF HashElements, SigElements
  <2>2. ASSUME NEW z \in A
        PROVE  Times(Plus(hash.a_p[k], z), hash.credential.messages[k]) =
                 Times(Plus(a_p[k], z), sig.messages[k])
    <3>1. MacTags(hash.a_p, z, hash.credential.messages)[k] = MacTags(a_p, z, sig.messages)[k]
      BY <1>6, <2>2
    <3> QED
      BY <3>1, Zenon DEF MacTags
  <2>3. /\ hash.a_p[k] \in FE /\ hash.credential.messages[k] \in FE
        /\ a_p[k] \in FE /\ sig.messages[k] \in FE /\ x \in FE /\ y \in FE
    BY <1>1, <1>6, <1>7 DEF HashElements, SigElements
  <2>4. /\ Times(Plus(hash.a_p[k], x), hash.credential.messages[k]) =
             Times(Plus(a_p[k], x), sig.messages[k])
        /\ Times(Plus(hash.a_p[k], y), hash.credential.messages[k]) =
             Times(Plus(a_p[k], y), sig.messages[k])
    BY <1>7, <2>2
  <2> HIDE DEF hash, sig
  <2> QED
    BY <2>1, <2>3, <2>4, OneShareHides
<1>8. CASE A = {}
  BY <1>8, FS_EmptySet DEF A
<1>9. CASE A # {}
  <2>1. PICK x : x \in A
    BY <1>9
  <2>2. A = {x}
    BY <1>7, <2>1
  <2>3. Cardinality({x}) = 1
    BY FS_Singleton
  <2>4. Cardinality(A) <= 1
    BY <2>2, <2>3
  <2> QED
    BY <2>4 DEF A
<1> QED
  BY <1>8, <1>9

\* What verify_inner writes before it draws a_v leaves at most one value of a_v for which a
\* hash and a signature circuit that speak of different credentials pass with the same tags.
THEOREM TagsBindCircuits == Spec => []MacBindsCircuits
<1>1. Init => BindInv
  BY DEF Init, BindInv
<1> QED
  BY AllInvInit, AllInvInductive, <1>1, BindInvInductive, BoundByTags, PTL DEF Spec
=============================================================================
