---------------------------- MODULE MdocZkProofs ----------------------------
(***************************************************************************)
(* Machine-checked proofs about prove_internal and verify_internal of      *)
(* mdoc_zk, for every set of device responses, calls and key shares: what  *)
(* CircuitInputs::new lets pass satisfies both circuits, what the holder   *)
(* shows is accepted, only what is true of a credential is, and the seed   *)
(* of a pseudonym is not shown.                                            *)
(***************************************************************************)
EXTENDS MdocZk, TwoCircuitLemmas, WellFoundedInduction

-----------------------------------------------------------------------------
(* The items found.                                                        *)

\* Every non-empty set of naturals has a least element.
LEMMA LeastElement ==
    ASSUME NEW T \in SUBSET Nat, T # {}
    PROVE  \E x \in T : \A y \in T : x <= y
<1> DEFINE R == {ss \in Nat \X Nat : ss[1] < ss[2]}
<1>1. IsWellFoundedOn(R, Nat)
  BY NatLessThanWellFounded, Zenon DEF OpToRel
<1>2. IsWellFoundedOn(R, Nat) => \E x \in T : \A y \in T : ~(<<y, x>> \in R)
  BY WFMin
<1>3. PICK x \in T : \A y \in T : ~(<<y, x>> \in R)
  BY <1>1, <1>2
<1>4. ASSUME NEW y \in T PROVE x <= y
  <2>1. x \in Nat /\ y \in Nat
    OBVIOUS
  <2>2. y < x => <<y, x>> \in R
    BY <2>1
  <2> QED
    BY <1>3, <2>1, <2>2
<1> QED
  BY <1>4

\* A set of positions has a last one.
LEMMA MaxIsMember ==
    ASSUME NEW k \in Nat, NEW S \in SUBSET (1..k), S # {}
    PROVE  Max(S) \in S
<1> DEFINE R == {r \in Nat : k - r \in S}
<1>1. R \in SUBSET Nat /\ R # {}
  <2>1. PICK x \in S : TRUE
    OBVIOUS
  <2>2. x \in 1..k /\ k - x \in Nat /\ k - (k - x) = x
    OBVIOUS
  <2> QED
    BY <2>2
<1>2. PICK r \in R : \A y \in R : r <= y
  <2> HIDE DEF R
  <2> QED
    BY <1>1, LeastElement
<1>3. ASSUME NEW y \in S PROVE k - r >= y
  <2>1. k - y \in Nat /\ k - (k - y) = y /\ y \in Nat /\ r \in Nat
    OBVIOUS
  <2>2. r <= k - y
    BY <1>2, <2>1
  <2> QED
    BY <2>1, <2>2
<1> QED
  BY <1>3, Zenon DEF Max

\* The item of each request is one of the namespace's, has the name that was looked up, and
\* no other request was for that name before.
LEMMA ItemIsFound ==
    ASSUME NEW version, NEW d \in Responses, NEW c \in Calls, InputsCanBeMade(version, d, c),
           NEW n \in DOMAIN c.ids
    PROVE  /\ c.namespace \in DOMAIN d.items
           /\ Items(d, c)[n] \in ToSet(d.items[c.namespace])
           /\ Items(d, c)[n].id = mdoc_attribute_ids(c.ids)[n]
           /\ \A m \in 1..(n - 1) : mdoc_attribute_ids(c.ids)[m] # mdoc_attribute_ids(c.ids)[n]
<1> DEFINE ids == mdoc_attribute_ids(c.ids)
           items == d.items[c.namespace]
           hits == {k \in DOMAIN items :
                      items[k].id = ids[n] /\ \A m \in 1..(n - 1) : ids[m] # ids[n]}
           item == CHOOSE i \in Found(d, c)[n] : TRUE
<1>1. Found(d, c)[n] # {}
  BY DEF InputsCanBeMade
<1>2. Items(d, c)[n] = item /\ item \in Found(d, c)[n]
  BY <1>1 DEF Items
<1>3. c.namespace \in DOMAIN d.items
  BY <1>1 DEF Found
<1>4. n \in DOMAIN ids
  BY DEF mdoc_attribute_ids
<1>5. Found(d, c)[n] = IF hits = {} THEN {} ELSE {items[Max(hits)]}
  <2>1. Found(d, c) = find_attributes(items, ids)
    BY <1>3 DEF Found
  <2> QED
    BY <1>4, <2>1 DEF find_attributes
<1>6. hits # {} /\ item = items[Max(hits)]
  <2> HIDE DEF hits, items
  <2> QED
    BY <1>1, <1>2, <1>5
<1>7. Max(hits) \in hits
  <2>1. items \in Seq(ToSet(items))
    BY <1>3, MdocZkAssumption
  <2>2. hits \subseteq 1..Len(items) /\ Len(items) \in Nat
    BY <2>1
  <2> HIDE DEF hits
  <2> QED
    BY <1>6, <2>2, MaxIsMember
<1>8. /\ Max(hits) \in DOMAIN items
      /\ items[Max(hits)].id = ids[n]
      /\ \A m \in 1..(n - 1) : ids[m] # ids[n]
  BY <1>7
<1> QED
  BY <1>2, <1>3, <1>6, <1>8 DEF ToSet

-----------------------------------------------------------------------------
(* What the vectors hold.                                                  *)

\* The public inputs of the call.
Attributes == [n \in DOMAIN call.ids |->
                  PublicAttribute(prover.version, call.ids[n], Items(mdoc, call)[n], call.context)]
HashPublic(a_v, tags) ==
    [attributes |-> Attributes, time |-> call.time,
     context |-> ContextSlot(prover.version, call.context), a_v |-> a_v, tags |-> tags]
SignaturePublic(a_v, tags) ==
    [key |-> mdoc.issuer, session |-> Session(mdoc, call), a_v |-> ToBits(a_v),
     tags |-> [k \in Messages |-> ToBits(tags[k])]]

\* And the private ones.
HashPrivate(a_p) ==
    [items |-> Items(mdoc, call), valid_from |-> mdoc.valid_from,
     valid_until |-> mdoc.valid_until, key_wrapped |-> mdoc.key_wrapped,
     messages |-> mdoc.messages, a_p |-> a_p]
SignaturePrivate(a_p) ==
    [credential_trace |-> mdoc.signer, device_trace |-> mdoc.device_signed,
     messages |-> mdoc.messages, a_p |-> [k \in Messages |-> ToBits(a_p[k])]]

\* Every check of the call was passed.
Checked ==
    /\ prover \in Provers /\ mdoc \in Responses /\ call \in Calls
    /\ MayProve(prover, call) /\ InputsCanBeMade(prover.version, mdoc, call)

\* Both vectors are those of the call, with the tags and the a_v of the hash circuit's.
Filled ==
    /\ hash_input = [public |-> HashPublic(hash_input.public.a_v, hash_input.public.tags),
                     private |-> HashPrivate(hash_input.private.a_p)]
    /\ signature_input =
         [public |-> SignaturePublic(hash_input.public.a_v, hash_input.public.tags),
          private |-> SignaturePrivate(hash_input.private.a_p)]
    /\ hash_input.private.a_p \in [Messages -> FE]

\* The tags are those of the call's messages and shares, for an a_v that may be drawn.
TagsFit ==
    /\ hash_input.public.a_v \in FE
    /\ hash_input.public.tags =
         compute_mac_tags(mdoc.messages, hash_input.private.a_p, hash_input.public.a_v)

HashSatisfied ==
    HashCircuitSatisfied(prover.version, hash_input.public, hash_input.private)
SignatureSatisfied == SignatureCircuitSatisfied(signature_input.public, signature_input.private)

\* The items of the call are as ItemIsFound says.
LEMMA CallItem ==
    ASSUME Checked, NEW n \in DOMAIN call.ids
    PROVE  /\ call.namespace \in DOMAIN mdoc.items
           /\ Items(mdoc, call)[n] \in ToSet(mdoc.items[call.namespace])
           /\ Items(mdoc, call)[n].id = mdoc_attribute_ids(call.ids)[n]
           /\ \A m \in 1..(n - 1) :
                mdoc_attribute_ids(call.ids)[m] # mdoc_attribute_ids(call.ids)[n]
<1>1. /\ mdoc \in Responses /\ call \in Calls
      /\ InputsCanBeMade(prover.version, mdoc, call)
  BY DEF Checked
<1> QED
  BY <1>1, ItemIsFound

\* A pseudonym of version 8 is of an item that is a seed: it is the only request for that item.
LEMMA PseudonymIsOfASeed ==
    ASSUME Checked, prover.version = 8, NEW n \in DOMAIN call.ids,
           call.ids[n] = "pairwise_pseudonym"
    PROVE  Items(mdoc, call)[n].id = "pseudonym_seed" /\ IsSeed(Items(mdoc, call)[n].value)
<1> DEFINE ids == mdoc_attribute_ids(call.ids)
<1>0. call.ids \in Seq(STRING)
  BY MdocZkAssumption DEF Checked
<1>1. PICK m \in DOMAIN call.ids :
        call.ids[m] = "pairwise_pseudonym" /\ IsSeed(Items(mdoc, call)[m].value)
  BY DEF Checked, InputsCanBeMade, fill_ppid_witness
<1>2. ids[n] = "pseudonym_seed" /\ ids[m] = "pseudonym_seed"
  BY <1>1 DEF mdoc_attribute_ids
<1>3. n = m
  <2>1. \A i \in 1..(n - 1) : ids[i] # ids[n]
    BY CallItem
  <2>2. \A i \in 1..(m - 1) : ids[i] # ids[m]
    BY <1>1, CallItem
  <2> HIDE DEF ids
  <2>3. m \in 1..Len(call.ids) /\ n \in 1..Len(call.ids) /\ Len(call.ids) \in Nat
    BY <1>0
  <2> QED
    BY <1>2, <2>1, <2>2, <2>3
<1>4. Items(mdoc, call)[n].id = ids[n]
  BY CallItem
<1> QED
  BY <1>1, <1>2, <1>3, <1>4

\* What is made for each identifier is as long as the list of identifiers.
LEMMA SameLength ==
    ASSUME NEW ids \in Seq(STRING), NEW f, DOMAIN f = DOMAIN ids
    PROVE  Len(f) = Len(ids)
<1>1. Len(ids) \in Nat /\ DOMAIN f = 1..Len(ids)
  OBVIOUS
<1> QED
  BY <1>1

\* What a call passes on satisfies the hash circuit once it is tagged.
LEMMA HashIsSatisfied == Checked /\ Filled /\ TagsFit /\ ~Unseen => HashSatisfied
<1> SUFFICES ASSUME Checked, Filled, TagsFit, ~Unseen PROVE HashSatisfied
  OBVIOUS
<1> DEFINE items == Items(mdoc, call)
           public == hash_input.public
           private == hash_input.private
<1>0. call.ids \in Seq(STRING) /\ prover.version \in {6, 7, 8}
  BY MdocZkAssumption DEF Checked
<1>1. /\ public.attributes = Attributes /\ public.time = call.time
      /\ public.context = ContextSlot(prover.version, call.context)
  BY DEF Filled, HashPublic
<1>2. /\ private.items = items /\ private.valid_from = mdoc.valid_from
      /\ private.valid_until = mdoc.valid_until /\ private.key_wrapped = mdoc.key_wrapped
      /\ private.messages = mdoc.messages
  BY DEF Filled, HashPrivate
<1>3. Len(Attributes) = Len(items) /\ DOMAIN items = DOMAIN call.ids
  <2>1. DOMAIN items = DOMAIN call.ids /\ DOMAIN Attributes = DOMAIN call.ids
    BY DEF Attributes, Items
  <2> HIDE DEF items
  <2> QED
    BY <1>0, <2>1, SameLength
<1>4. ASSUME NEW n \in DOMAIN items
      PROVE  /\ items[n].digest_matches
             /\ IF prover.version = 6 THEN items[n].value_follows ELSE items[n].starts_at_one
  BY DEF Checked, InputsCanBeMade
<1>5. ASSUME NEW n \in DOMAIN items, prover.version = 8
      PROVE  Discloses(public.attributes[n], items[n], public.context)
  <2>0. public.context = call.context
    BY <1>1, <1>5 DEF ContextSlot
  <2>1. public.attributes[n] = PublicAttribute(8, call.ids[n], items[n], call.context)
    BY <1>1, <1>3, <1>5 DEF Attributes
  <2>2. CASE call.ids[n] = "pairwise_pseudonym"
    <3>1. items[n].id = "pseudonym_seed" /\ IsSeed(items[n].value)
      BY <1>3, <1>5, <2>2, PseudonymIsOfASeed
    <3>2. public.attributes[n] = [identifier |-> "pairwise_pseudonym",
                                  value |-> ppid(items[n].value, call.context)]
      BY <2>1, <2>2, <3>1 DEF PublicAttribute
    <3> QED
      BY <2>0, <3>1, <3>2 DEF Discloses
  <2>3. CASE call.ids[n] # "pairwise_pseudonym"
    BY <2>1, <2>3 DEF PublicAttribute, Discloses
  <2> QED
    BY <2>2, <2>3
<1>6. ASSUME NEW n \in DOMAIN items, prover.version # 8
      PROVE  public.attributes[n] = [identifier |-> items[n].id, value |-> items[n].value]
  <2>1. public.attributes[n] =
          PublicAttribute(prover.version, call.ids[n], items[n], call.context)
    BY <1>1, <1>3, <1>6 DEF Attributes
  <2>2. prover.version = 6 \/ call.ids[n] # "pairwise_pseudonym"
    BY <1>0, <1>3, <1>6 DEF Unseen
  <2> QED
    BY <2>1, <2>2 DEF PublicAttribute
<1>7. mdoc.valid_from <= call.time /\ call.time <= mdoc.valid_until
  BY DEF Checked, InputsCanBeMade, TimeIsInRange
<1> HIDE DEF items, public, private
<1>8. HashCircuitSatisfied(prover.version, public, private)
  <2>1. public.tags = compute_mac_tags(private.messages, private.a_p, public.a_v)
    BY <1>2 DEF public, private, TagsFit
  <2>2. Len(public.attributes) = Len(private.items)
    BY <1>1, <1>2, <1>3
  <2>3. ~private.key_wrapped
    BY <1>2 DEF Unseen
  <2>4. private.valid_from <= public.time /\ public.time <= private.valid_until
    BY <1>1, <1>2, <1>7
  <2> QED
    BY <1>2, <1>4, <1>5, <1>6, <2>1, <2>2, <2>3, <2>4 DEF HashCircuitSatisfied
<1> QED
  BY <1>8 DEF HashSatisfied, public, private

\* What was not seen does not satisfy it: the pseudonym's statement is not of the item's name.
LEMMA UnseenIsRefused == Checked /\ Filled /\ HashSatisfied => ~Unseen
<1> SUFFICES ASSUME Checked, Filled, HashSatisfied, Unseen PROVE FALSE
  OBVIOUS
<1> DEFINE public == hash_input.public
           private == hash_input.private
<1>1. public.attributes = Attributes
  BY DEF Filled, HashPublic
<1>2. private.items = Items(mdoc, call) /\ private.key_wrapped = mdoc.key_wrapped
  BY DEF Filled, HashPrivate
<1>3. HashCircuitSatisfied(prover.version, public, private)
  BY DEF HashSatisfied
<1> HIDE DEF public, private
<1>4. ~mdoc.key_wrapped
  BY <1>2, <1>3 DEF HashCircuitSatisfied
<1>5. PICK n \in DOMAIN call.ids : prover.version = 7 /\ call.ids[n] = "pairwise_pseudonym"
  BY <1>4 DEF Unseen
<1>6. Items(mdoc, call)[n].id = "pseudonym_seed"
  BY <1>5, CallItem DEF mdoc_attribute_ids
<1>7. Attributes[n].identifier = "pairwise_pseudonym"
  <2>1. Attributes[n] =
          PublicAttribute(prover.version, call.ids[n], Items(mdoc, call)[n], call.context)
    BY DEF Attributes
  <2> QED
    BY <1>5, <2>1 DEF PublicAttribute
<1>8. n \in DOMAIN private.items
  BY <1>2 DEF Items
<1>9. Attributes[n] = [identifier |-> Items(mdoc, call)[n].id,
                       value |-> Items(mdoc, call)[n].value]
  BY <1>1, <1>2, <1>3, <1>5, <1>8 DEF HashCircuitSatisfied
<1> QED
  BY <1>6, <1>7, <1>9

\* And the signature circuit, which takes bits where the hash circuit takes elements.
LEMMA SignatureIsSatisfied == Checked /\ Filled /\ TagsFit => SignatureSatisfied
<1> SUFFICES ASSUME Checked, Filled, TagsFit PROVE SignatureSatisfied
  OBVIOUS
<1> DEFINE a_p == hash_input.private.a_p
           a_v == hash_input.public.a_v
           T == hash_input.public.tags
           public == signature_input.public
           private == signature_input.private
<1>1. /\ public.key = mdoc.issuer /\ public.session = Session(mdoc, call)
      /\ public.a_v = ToBits(a_v) /\ public.tags = [k \in Messages |-> ToBits(T[k])]
  BY DEF Filled, SignaturePublic
<1>2. /\ private.credential_trace = mdoc.signer /\ private.device_trace = mdoc.device_signed
      /\ private.messages = mdoc.messages
      /\ private.a_p = [k \in Messages |-> ToBits(a_p[k])]
  BY DEF Filled, SignaturePrivate
<1>3. a_p \in [Messages -> FE] /\ mdoc.messages \in [Messages -> FE]
  BY MdocZkAssumption DEF Filled, Checked, Messages
<1>4. T = MacTags(a_p, a_v, mdoc.messages)
  BY Zenon DEF compute_mac_tags, TagsFit
<1>5. mdoc.signer = mdoc.issuer /\ mdoc.device_signed = Session(mdoc, call)
  BY DEF Checked, InputsCanBeMade, fill_ecdsa_witnesses
<1> HIDE DEF a_p, T, public, private
<1>6. T \in [Messages -> FE]
  BY <1>3, <1>4, TagsInField DEF TagsFit
<1>7. [k \in Messages |-> FromBits(public.tags[k])] = T
  BY <1>1, <1>6, VectorRoundTrip, Zenon
<1>8. [k \in Messages |-> FromBits(private.a_p[k])] = a_p
  BY <1>2, <1>3, VectorRoundTrip, Zenon
<1>9. FromBits(public.a_v) = a_v
  BY <1>1, BitsRoundTrip DEF TagsFit
<1>10. [k \in Messages |-> FromBits(public.tags[k])] =
         compute_mac_tags(private.messages, [k \in Messages |-> FromBits(private.a_p[k])],
                          FromBits(public.a_v))
  BY <1>2, <1>4, <1>7, <1>8, <1>9, Zenon DEF compute_mac_tags
<1>11. SignatureCircuitSatisfied(public, private)
  BY <1>1, <1>2, <1>5, <1>10, Zenon DEF SignatureCircuitSatisfied
<1> QED
  BY <1>11 DEF SignatureSatisfied, public, private

-----------------------------------------------------------------------------
(* The invariant.                                                          *)

HashId == Circuits(prover).hash
SignatureId == Circuits(prover).signature

\* The transcript after the commitments, and those of the two circuits' proofs.
CallPrefix == Prefix(call.transcript, hash_input.private, signature_input.private)
HashTranscript ==
    FirstTranscript(HashId, call.transcript, hash_input.private, signature_input.private,
                    hash_input.public)
SignatureTranscript ==
    SecondTranscript(HashId, SignatureId, call.transcript, hash_input.private,
                     signature_input.private, hash_input.public, signature_input.public)

\* The steps of a call, from the last to the first that some part of a proof is there.
Signed == {"proved", "challenged", "hash verified", "accepted", "rejected"}
Hashed == Signed \cup {"hash proved"}
Tagged == Hashed \cup {"tagged"}
Begun == Tagged \cup {"built", "committed", "refused late"}

Challenged ==
    /\ CallPrefix \in DOMAIN oracle /\ hash_input.public.a_v = oracle[CallPrefix]
    /\ proof.mac_tags = hash_input.public.tags
    /\ HashSatisfied /\ SignatureSatisfied

ProverInv ==
    /\ pc \in Begun \cup {"idle", "refused"}
    /\ pc \in Begun => Checked /\ Filled
    /\ pc = "refused late" => Unseen
    /\ pc \in Tagged \cup {"committed"} =>
         /\ proof.hash_commitment = hash_input.private
         /\ proof.signature_commitment = signature_input.private
    /\ pc \in {"committed", "tagged"} => transcript = CallPrefix
    /\ pc \in Tagged => Challenged
    /\ pc = "hash proved" => transcript = Append(HashTranscript, <<"proof", "hash">>)
    /\ pc \in Hashed => proof.hash_proof = ProofFrom(HashId, HashTranscript, hash_input.private)
    /\ pc \in Signed =>
         proof.signature_proof =
             ProofFrom(SignatureId, SignatureTranscript, signature_input.private)

\* Every challenge drawn is an element.
DrawnFromShares == \A t \in DOMAIN oracle : oracle[t] \in FE

\* The verifier's statements, and its transcripts.
VPrefix == Prefix(v.transcript, hash_input.private, signature_input.private)
VHashPublic ==
    HashStatement(v.attributes, v.time, ContextSlot(v.version, v.context),
                  mac_verifier_key_share, hash_input.public.tags)
VSignaturePublic ==
    SignatureStatement(v.key,
        compute_session_transcript_hash(v.doc_type, v.name_spaces, v.transcript),
        mac_verifier_key_share, hash_input.public.tags)
VHashTranscript ==
    FirstTranscript(Circuits(v).hash, v.transcript, hash_input.private, signature_input.private,
                    VHashPublic)
VSignatureTranscript ==
    SecondTranscript(Circuits(v).hash, Circuits(v).signature, v.transcript, hash_input.private,
                     signature_input.private, VHashPublic, VSignaturePublic)

VHashSatisfied == HashCircuitSatisfied(v.version, VHashPublic, hash_input.private)
VSignatureSatisfied == SignatureCircuitSatisfied(VSignaturePublic, signature_input.private)

\* What a verifier has found out by each step.
VerifierInv ==
    /\ pc \in {"challenged", "hash verified", "accepted"} =>
         /\ MayVerify(v)
         /\ VPrefix \in DOMAIN oracle /\ mac_verifier_key_share = oracle[VPrefix]
    /\ pc = "challenged" => v_transcript = VPrefix
    /\ pc = "hash verified" => v_transcript = Append(VHashTranscript, <<"proof", "hash">>)
    /\ pc \in {"hash verified", "accepted"} => VHashTranscript = HashTranscript /\ VHashSatisfied
    /\ pc = "accepted" => VSignatureSatisfied
    /\ PresentationAccepted

AllInv == ProverInv /\ DrawnFromShares /\ VerifierInv

-----------------------------------------------------------------------------
(* The steps of prove_internal.                                            *)

\* Nothing is accepted or rejected before a verifier is called.
LEMMA VerifierIdle ==
    ASSUME pc' \notin {"challenged", "hash verified", "accepted", "rejected"}
    PROVE  VerifierInv'
BY DEF VerifierInv, PresentationAccepted

\* Steps that leave the vectors and the arguments leave what is said of them.
LEMMA VectorsKept ==
    ASSUME prover' = prover, mdoc' = mdoc, call' = call, hash_input' = hash_input,
           signature_input' = signature_input
    PROVE  /\ Checked' <=> Checked
           /\ Filled' <=> Filled
           /\ Unseen' <=> Unseen
           /\ CallPrefix' = CallPrefix /\ HashTranscript' = HashTranscript
           /\ SignatureTranscript' = SignatureTranscript
           /\ HashId' = HashId /\ SignatureId' = SignatureId
           /\ HashSatisfied' <=> HashSatisfied
           /\ SignatureSatisfied' <=> SignatureSatisfied
<1>1. Checked' <=> Checked
  BY DEF Checked
<1>2. Attributes' = Attributes
  BY DEF Attributes
<1>3. Filled' <=> Filled
  BY <1>2 DEF Filled, HashPublic, SignaturePublic, HashPrivate, SignaturePrivate
<1>4. Unseen' <=> Unseen
  BY DEF Unseen
<1>5. HashId' = HashId /\ SignatureId' = SignatureId
  BY DEF HashId, SignatureId
<1>6. /\ CallPrefix' = CallPrefix /\ HashTranscript' = HashTranscript
      /\ SignatureTranscript' = SignatureTranscript
  BY <1>5 DEF CallPrefix, HashTranscript, SignatureTranscript
<1>7. (HashSatisfied' <=> HashSatisfied) /\ (SignatureSatisfied' <=> SignatureSatisfied)
  BY DEF HashSatisfied, SignatureSatisfied
<1> QED
  BY <1>1, <1>3, <1>4, <1>5, <1>6, <1>7

\* CircuitInputs::new fills both vectors in if every check is passed.
LEMMA InputsStep == ASSUME AllInv, new_inputs PROVE AllInv'
<1>1. oracle' = oracle /\ pc' \in {"built", "refused"}
  BY DEF new_inputs
<1>2. ASSUME pc' = "built" PROVE Checked' /\ Filled'
  <2>1. PICK p \in Provers, d \in Responses, c \in Calls, a_p \in MacKeyShares :
          /\ prover' = p /\ mdoc' = d /\ call' = c
          /\ MayProve(p, c) /\ InputsCanBeMade(p.version, d, c)
          /\ hash_input' = HashInput(p.version, d, c, a_p)
          /\ signature_input' = SignatureInput(d, c, a_p)
    BY <1>2 DEF new_inputs
  <2>2. Checked'
    BY <2>1 DEF Checked
  <2>3. a_p \in [Messages -> FE]
    BY MdocZkAssumption DEF Messages
  <2>4. hash_input' = [public |-> HashPublic(ZERO, ZeroTags)', private |-> HashPrivate(a_p)']
    BY <2>1 DEF HashInput, HashStatement, HashPublic, HashPrivate, Attributes
  <2>5. signature_input' =
          [public |-> SignaturePublic(ZERO, ZeroTags)', private |-> SignaturePrivate(a_p)']
    BY <2>1 DEF SignatureInput, SignatureStatement, SignaturePublic, SignaturePrivate
  <2>6. /\ hash_input'.public.a_v = ZERO /\ hash_input'.public.tags = ZeroTags
        /\ hash_input'.private.a_p = a_p
    BY <2>4 DEF HashPublic, HashPrivate
  <2>7. Filled'
    BY <2>3, <2>4, <2>5, <2>6 DEF Filled
  <2> QED
    BY <2>2, <2>7
<1>3. ProverInv'
  BY <1>1, <1>2 DEF ProverInv, Begun, Tagged, Hashed, Signed
<1>4. DrawnFromShares'
  BY <1>1 DEF AllInv, DrawnFromShares
<1>5. VerifierInv'
  BY <1>1, VerifierIdle
<1> QED
  BY <1>3, <1>4, <1>5 DEF AllInv

\* The transcript begins with the session's, and both commitments.
LEMMA CommitStep == ASSUME AllInv, commit PROVE AllInv'
<1>1. /\ pc = "built" /\ pc' = "committed" /\ prover' = prover /\ mdoc' = mdoc /\ call' = call
      /\ hash_input' = hash_input /\ signature_input' = signature_input /\ oracle' = oracle
      /\ transcript' = CallPrefix
      /\ proof' = [hash_commitment |-> hash_input.private,
                   signature_commitment |-> signature_input.private]
  BY DEF commit, Committed, CallPrefix, Prefix
<1>2. Checked' /\ Filled' /\ CallPrefix' = CallPrefix
  BY <1>1, VectorsKept DEF AllInv, ProverInv, Begun
<1>3. /\ proof'.hash_commitment = hash_input'.private
      /\ proof'.signature_commitment = signature_input'.private
  BY <1>1
<1>4. ProverInv'
  BY <1>1, <1>2, <1>3 DEF ProverInv, Begun, Tagged, Hashed, Signed
<1>5. DrawnFromShares'
  BY <1>1 DEF AllInv, DrawnFromShares
<1>6. VerifierInv'
  BY <1>1, VerifierIdle
<1> QED
  BY <1>4, <1>5, <1>6 DEF AllInv

\* update_macs changes a_v and the tags in both vectors, and nothing else.
LEMMA MacsUpdated ==
    ASSUME Filled, NEW a_v, NEW tags
    PROVE  /\ update_hash_macs(hash_input, a_v, tags) =
                [public |-> HashPublic(a_v, tags), private |-> HashPrivate(hash_input.private.a_p)]
           /\ update_signature_macs(signature_input, a_v, tags) =
                [public |-> SignaturePublic(a_v, tags),
                 private |-> SignaturePrivate(hash_input.private.a_p)]
<1>1. PICK P, Q, R, S :
        /\ P = HashPublic(hash_input.public.a_v, hash_input.public.tags)
        /\ Q = HashPrivate(hash_input.private.a_p)
        /\ R = SignaturePublic(hash_input.public.a_v, hash_input.public.tags)
        /\ S = SignaturePrivate(hash_input.private.a_p)
  OBVIOUS
<1>2. /\ hash_input = [public |-> P, private |-> Q]
      /\ signature_input = [public |-> R, private |-> S]
  BY <1>1 DEF Filled
<1>3. P = [attributes |-> Attributes, time |-> call.time,
           context |-> ContextSlot(prover.version, call.context),
           a_v |-> hash_input.public.a_v, tags |-> hash_input.public.tags]
  BY <1>1 DEF HashPublic
<1>4. PICK g, G :
        /\ g = [hash_input EXCEPT !.public.a_v = a_v]
        /\ G = [attributes |-> Attributes, time |-> call.time,
                context |-> ContextSlot(prover.version, call.context),
                a_v |-> a_v, tags |-> hash_input.public.tags]
  OBVIOUS
<1>5. [g EXCEPT !.public.tags = tags] = [public |-> HashPublic(a_v, tags), private |-> Q]
  <2>1. g = [public |-> G, private |-> Q]
    <3>1. g = [public |-> [P EXCEPT !.a_v = a_v], private |-> Q]
      BY <1>2, <1>4
    <3>2. [P EXCEPT !.a_v = a_v] = G
      BY <1>3, <1>4
    <3> QED
      BY <3>1, <3>2
  <2>2. [g EXCEPT !.public.tags = tags] = [public |-> [G EXCEPT !.tags = tags], private |-> Q]
    BY <2>1
  <2>3. [G EXCEPT !.tags = tags] = HashPublic(a_v, tags)
    BY <1>4 DEF HashPublic
  <2> QED
    BY <2>2, <2>3
<1>6. R.key = mdoc.issuer /\ R.session = Session(mdoc, call)
  BY <1>1 DEF SignaturePublic
<1>7. [signature_input EXCEPT !.public =
         SignatureStatement(signature_input.public.key, signature_input.public.session,
                            a_v, tags)] =
        [public |-> SignaturePublic(a_v, tags), private |-> S]
  BY <1>2, <1>6 DEF SignatureStatement, SignaturePublic
<1>8. update_hash_macs(hash_input, a_v, tags) =
        [public |-> HashPublic(a_v, tags), private |-> Q]
  BY <1>4, <1>5 DEF update_hash_macs
<1>9. update_signature_macs(signature_input, a_v, tags) =
        [public |-> SignaturePublic(a_v, tags), private |-> S]
  BY <1>7 DEF update_signature_macs
<1> QED
  BY <1>1, <1>8, <1>9

\* The share drawn is the one of the prefix, now and later; only what was not seen is refused.
LEMMA TagStep == ASSUME AllInv, tag PROVE AllInv'
<1> DEFINE Tags(a_v) == compute_mac_tags(mdoc.messages, hash_input.private.a_p, a_v)
<1>1. PICK a_v \in Challenges(transcript) :
        /\ Drawn(transcript, a_v)
        /\ hash_input' = update_hash_macs(hash_input, a_v, Tags(a_v))
        /\ signature_input' = update_signature_macs(signature_input, a_v, Tags(a_v))
        /\ proof' = [hash_commitment |-> proof.hash_commitment,
                     signature_commitment |-> proof.signature_commitment,
                     mac_tags |-> Tags(a_v)]
  BY DEF tag
<1>2. /\ pc = "committed" /\ transcript' = transcript
      /\ prover' = prover /\ mdoc' = mdoc /\ call' = call
      /\ pc' = IF HashSatisfied' /\ SignatureSatisfied' THEN "tagged" ELSE "refused late"
  BY DEF tag, HashSatisfied, SignatureSatisfied
<1>3. /\ Checked /\ Filled /\ transcript = CallPrefix
      /\ proof.hash_commitment = hash_input.private
      /\ proof.signature_commitment = signature_input.private
  BY <1>2 DEF AllInv, ProverInv, Begun
<1>4. a_v \in FE
  BY TwoCircuitAssumption DEF Challenges, AllInv, DrawnFromShares
<1>5. OracleKept /\ transcript \in DOMAIN oracle' /\ oracle'[transcript] = a_v
  BY <1>1, DrawingKeeps
<1>6. DrawnFromShares'
  BY <1>1, <1>4 DEF Drawn, AllInv, DrawnFromShares
<1>7. PICK T, a_p : T = Tags(a_v) /\ a_p = hash_input.private.a_p
  OBVIOUS
<1>8. /\ hash_input' = [public |-> HashPublic(a_v, T), private |-> HashPrivate(a_p)]
      /\ signature_input' = [public |-> SignaturePublic(a_v, T), private |-> SignaturePrivate(a_p)]
  BY <1>1, <1>3, <1>7, MacsUpdated
<1>9. Attributes' = Attributes
  BY <1>2 DEF Attributes
<1>10. /\ HashPublic(a_v, T)' = HashPublic(a_v, T) /\ HashPrivate(a_p)' = HashPrivate(a_p)
       /\ SignaturePublic(a_v, T)' = SignaturePublic(a_v, T)
       /\ SignaturePrivate(a_p)' = SignaturePrivate(a_p)
  BY <1>2, <1>9 DEF HashPublic, HashPrivate, SignaturePublic, SignaturePrivate
<1>11. /\ hash_input'.public.a_v = a_v /\ hash_input'.public.tags = T
       /\ hash_input'.private.a_p = a_p
       /\ hash_input'.private = HashPrivate(a_p)
       /\ signature_input'.private = SignaturePrivate(a_p)
  BY <1>8 DEF HashPublic, HashPrivate
<1>12. Filled'
  BY <1>3, <1>7, <1>8, <1>10, <1>11 DEF Filled
<1>13. Checked' /\ (Unseen' <=> Unseen)
  BY <1>2, <1>3 DEF Checked, Unseen
<1>14. /\ hash_input'.private = hash_input.private
       /\ signature_input'.private = signature_input.private
  <2>1. hash_input.private = HashPrivate(hash_input.private.a_p)
    BY <1>3 DEF Filled
  <2>2. signature_input.private = SignaturePrivate(hash_input.private.a_p)
    BY <1>3 DEF Filled
  <2> QED
    BY <1>7, <1>11, <2>1, <2>2
<1>15. CallPrefix' = CallPrefix
  BY <1>2, <1>14 DEF CallPrefix
<1>16. TagsFit'
  BY <1>2, <1>4, <1>7, <1>11 DEF TagsFit
<1>17. SignatureSatisfied'
  <2>1. Checked' /\ Filled' /\ TagsFit' => SignatureSatisfied'
    BY SignatureIsSatisfied, PTL
  <2> QED
    BY <1>12, <1>13, <1>16, <2>1
<1>18. ~Unseen' => HashSatisfied'
  <2>1. Checked' /\ Filled' /\ TagsFit' /\ ~Unseen' => HashSatisfied'
    BY HashIsSatisfied, PTL
  <2> QED
    BY <1>12, <1>13, <1>16, <2>1
<1>19. /\ proof'.hash_commitment = hash_input'.private
       /\ proof'.signature_commitment = signature_input'.private
       /\ proof'.mac_tags = hash_input'.public.tags
  BY <1>1, <1>3, <1>7, <1>11, <1>14
<1>20. CASE pc' = "tagged"
  <2>1. HashSatisfied' /\ SignatureSatisfied'
    BY <1>2, <1>20
  <2>2. Challenged'
    BY <1>3, <1>5, <1>11, <1>15, <1>19, <2>1 DEF Challenged
  <2> QED
    BY <1>2, <1>3, <1>12, <1>13, <1>15, <1>19, <1>20, <2>2, <1>6, VerifierIdle
       DEF AllInv, ProverInv, Begun, Tagged, Hashed, Signed
<1>21. CASE pc' = "refused late"
  <2>1. Unseen'
    BY <1>2, <1>17, <1>18, <1>21
  <2> QED
    BY <1>6, <1>12, <1>13, <1>21, <2>1, VerifierIdle
       DEF AllInv, ProverInv, Begun, Tagged, Hashed, Signed
<1> QED
  BY <1>2, <1>20, <1>21

\* The hash circuit's part is made in the transcript that the vectors say.
LEMMA HashStep == ASSUME AllInv, prove_hash PROVE AllInv'
<1> DEFINE t == initialize_transcript(transcript, Circuits(prover).hash, hash_input.public)
<1>1. /\ pc = "tagged" /\ pc' = "hash proved" /\ prover' = prover /\ mdoc' = mdoc /\ call' = call
      /\ hash_input' = hash_input /\ signature_input' = signature_input /\ oracle' = oracle
      /\ transcript' = Append(t, <<"proof", "hash">>)
      /\ proof' = [hash_commitment |-> proof.hash_commitment,
                   signature_commitment |-> proof.signature_commitment,
                   mac_tags |-> proof.mac_tags,
                   hash_proof |-> ProofFrom(Circuits(prover).hash, t, hash_input.private)]
  BY DEF prove_hash
<1>2. /\ Checked /\ Filled /\ Challenged /\ transcript = CallPrefix
      /\ proof.hash_commitment = hash_input.private
      /\ proof.signature_commitment = signature_input.private
  BY <1>1 DEF AllInv, ProverInv, Begun, Tagged
<1>3. t = HashTranscript
  BY <1>2 DEF HashTranscript, FirstTranscript, CallPrefix, HashId
<1>4. /\ Checked' /\ Filled' /\ CallPrefix' = CallPrefix /\ HashTranscript' = HashTranscript
      /\ HashId' = HashId /\ (HashSatisfied' <=> HashSatisfied)
      /\ (SignatureSatisfied' <=> SignatureSatisfied)
  BY <1>1, <1>2, VectorsKept
<1>5. /\ proof'.hash_commitment = proof.hash_commitment
      /\ proof'.signature_commitment = proof.signature_commitment
      /\ proof'.mac_tags = proof.mac_tags
      /\ proof'.hash_proof = ProofFrom(HashId, HashTranscript, hash_input.private)
  BY <1>1, <1>3 DEF HashId
<1>6. Challenged'
  BY <1>1, <1>2, <1>4, <1>5 DEF Challenged
<1> HIDE DEF t
<1>7. ProverInv'
  BY <1>1, <1>2, <1>3, <1>4, <1>5, <1>6 DEF ProverInv, Begun, Tagged, Hashed, Signed
<1>8. DrawnFromShares'
  BY <1>1 DEF AllInv, DrawnFromShares
<1>9. VerifierInv'
  BY <1>1, VerifierIdle
<1> QED
  BY <1>7, <1>8, <1>9 DEF AllInv

\* And the signature circuit's, after it.
LEMMA SignatureStep == ASSUME AllInv, prove_signature PROVE AllInv'
<1> DEFINE t == initialize_transcript(transcript, Circuits(prover).signature,
                                      signature_input.public)
<1>1. /\ pc = "hash proved" /\ pc' = "proved"
      /\ prover' = prover /\ mdoc' = mdoc /\ call' = call
      /\ hash_input' = hash_input /\ signature_input' = signature_input /\ oracle' = oracle
      /\ proof' = [hash_commitment |-> proof.hash_commitment,
                   signature_commitment |-> proof.signature_commitment,
                   mac_tags |-> proof.mac_tags, hash_proof |-> proof.hash_proof,
                   signature_proof |-> ProofFrom(Circuits(prover).signature, t,
                                                 signature_input.private)]
  BY DEF prove_signature
<1>2. /\ Checked /\ Filled /\ Challenged
      /\ transcript = Append(HashTranscript, <<"proof", "hash">>)
      /\ proof.hash_commitment = hash_input.private
      /\ proof.signature_commitment = signature_input.private
      /\ proof.hash_proof = ProofFrom(HashId, HashTranscript, hash_input.private)
  BY <1>1 DEF AllInv, ProverInv, Begun, Tagged, Hashed
<1>3. t = SignatureTranscript
  BY <1>2 DEF SignatureTranscript, SecondTranscript, HashTranscript, SignatureId
<1>4. /\ Checked' /\ Filled' /\ CallPrefix' = CallPrefix /\ HashTranscript' = HashTranscript
      /\ SignatureTranscript' = SignatureTranscript
      /\ HashId' = HashId /\ SignatureId' = SignatureId /\ (HashSatisfied' <=> HashSatisfied)
      /\ (SignatureSatisfied' <=> SignatureSatisfied)
  BY <1>1, <1>2, VectorsKept
<1>5. /\ proof'.hash_commitment = proof.hash_commitment
      /\ proof'.signature_commitment = proof.signature_commitment
      /\ proof'.mac_tags = proof.mac_tags /\ proof'.hash_proof = proof.hash_proof
      /\ proof'.signature_proof =
           ProofFrom(SignatureId, SignatureTranscript, signature_input.private)
  BY <1>1, <1>3 DEF SignatureId
<1>6. Challenged'
  BY <1>1, <1>2, <1>4, <1>5 DEF Challenged
<1> HIDE DEF t
<1>7. ProverInv'
  BY <1>1, <1>2, <1>4, <1>5, <1>6 DEF ProverInv, Begun, Tagged, Hashed, Signed
<1>8. DrawnFromShares'
  BY <1>1 DEF AllInv, DrawnFromShares
<1>9. VerifierInv'
  BY <1>1, VerifierIdle
<1> QED
  BY <1>7, <1>8, <1>9 DEF AllInv

-----------------------------------------------------------------------------
(* The steps of verify_internal.                                           *)

\* Version 6 does not rename the pseudonym's attribute.
NotRenamed == prover.version = 6 /\ \E n \in DOMAIN call.ids : call.ids[n] = "pairwise_pseudonym"

\* What a holder shows may be verified with the holder's proof.
LEMMA PresentationMayBeVerified == ASSUME Checked PROVE MayVerify(Presentation)
<1>1. /\ Presentation.version = prover.version
      /\ Presentation.num_attributes = prover.num_attributes
      /\ Presentation.attributes = Presented
      /\ Presentation.context = ContextSlot(prover.version, call.context)
      /\ Presentation.transcript = call.transcript
  BY DEF Presentation
<1>2. /\ Len(call.ids) = prover.num_attributes
      /\ ContextSlot(prover.version, call.context) # None => prover.version = 8
      /\ call.transcript # None
  BY DEF Checked, MayProve, InputsCanBeMade, ContextSlot
<1>3. Len(Presented) = Len(call.ids)
  <2>1. call.ids \in Seq(STRING)
    BY MdocZkAssumption DEF Checked
  <2>2. DOMAIN Presented = DOMAIN call.ids
    BY DEF Presented
  <2> QED
    BY <2>1, <2>2, SameLength
<1> QED
  BY <1>1, <1>2, <1>3 DEF MayVerify

\* The attributes a holder shows are those in the statement.
LEMMA PresentedIsStated == ASSUME Checked, ~NotRenamed PROVE Presented = Attributes
<1>0. prover.version \in {6, 7, 8}
  BY MdocZkAssumption DEF Checked
<1>1. ASSUME NEW n \in DOMAIN call.ids PROVE Presented[n] = Attributes[n]
  <2> DEFINE id == call.ids[n]
             item == Items(mdoc, call)[n]
  <2>1. Presented[n] =
          [identifier |-> id,
           value |-> IF id = "pairwise_pseudonym" /\ IsSeed(item.value)
                     THEN ppid(item.value, call.context) ELSE item.value]
    BY DEF Presented
  <2>2. Attributes[n] = PublicAttribute(prover.version, id, item, call.context)
    BY DEF Attributes
  <2>3. CASE id = "pairwise_pseudonym"
    <3>1. prover.version # 6
      BY <2>3 DEF NotRenamed
    <3> HIDE DEF item
    <3> QED
      BY <2>1, <2>2, <2>3, <3>1 DEF PublicAttribute
  <2>4. CASE id # "pairwise_pseudonym"
    <3>1. item.id = id
      BY <2>4, CallItem DEF mdoc_attribute_ids
    <3> HIDE DEF item
    <3> QED
      BY <2>1, <2>2, <2>4, <3>1 DEF PublicAttribute
  <2> QED
    BY <2>3, <2>4
<1> QED
  BY <1>1 DEF Presented, Attributes

\* A verifier who is given what the holder shows writes what the holder wrote.
LEMMA PresentationIsStated ==
    ASSUME Checked, Filled, v = Presentation, ~NotRenamed,
           VPrefix \in DOMAIN oracle, mac_verifier_key_share = oracle[VPrefix], Challenged
    PROVE  /\ StatementsCanBeMade /\ Circuits(v) = Circuits(prover) /\ v.version = prover.version
           /\ v.transcript = call.transcript
           /\ VHashPublic = hash_input.public /\ VSignaturePublic = signature_input.public
<1>1. /\ v.version = prover.version /\ v.num_attributes = prover.num_attributes
      /\ v.attributes = Presented /\ v.time = call.time
      /\ v.context = ContextSlot(prover.version, call.context)
      /\ v.transcript = call.transcript /\ v.key = mdoc.issuer
      /\ v.doc_type = mdoc.doc_type /\ v.name_spaces = mdoc.name_spaces
  BY DEF Presentation
<1>2. StatementsCanBeMade
  BY <1>1 DEF StatementsCanBeMade, Checked, MayProve, InputsCanBeMade, ContextSlot
<1>3. Circuits(v) = Circuits(prover)
  BY <1>1 DEF Circuits
<1>4. mac_verifier_key_share = hash_input.public.a_v
  BY <1>1 DEF VPrefix, CallPrefix, Challenged
<1>5. v.attributes = Attributes
  BY <1>1, PresentedIsStated
<1>6. hash_input.public = HashPublic(hash_input.public.a_v, hash_input.public.tags)
  BY DEF Filled
<1>7. signature_input.public = SignaturePublic(hash_input.public.a_v, hash_input.public.tags)
  BY DEF Filled
<1>8. VHashPublic = hash_input.public
  BY <1>1, <1>4, <1>5, <1>6 DEF VHashPublic, HashStatement, HashPublic, ContextSlot
<1>9. VSignaturePublic = signature_input.public
  BY <1>1, <1>4, <1>7 DEF VSignaturePublic, SignatureStatement, SignaturePublic, Session
<1> QED
  BY <1>1, <1>2, <1>3, <1>8, <1>9

\* A verifier changes nothing of the prover's.
LEMMA ProverKept ==
    ASSUME ProverInv, pc \in Signed, pc' \in Signed, UNCHANGED prover_vars, OracleKept
    PROVE  /\ ProverInv' /\ Presentation' = Presentation /\ (NotRenamed' <=> NotRenamed)
           /\ HashTranscript' = HashTranscript
<1>1. /\ prover' = prover /\ mdoc' = mdoc /\ call' = call /\ hash_input' = hash_input
      /\ signature_input' = signature_input /\ transcript' = transcript /\ proof' = proof
  BY DEF prover_vars
<1>2. /\ Checked' <=> Checked
      /\ Filled' <=> Filled
      /\ CallPrefix' = CallPrefix /\ HashTranscript' = HashTranscript
      /\ SignatureTranscript' = SignatureTranscript
      /\ HashId' = HashId /\ SignatureId' = SignatureId
      /\ HashSatisfied' <=> HashSatisfied
      /\ SignatureSatisfied' <=> SignatureSatisfied
  BY <1>1, VectorsKept
<1>3. Challenged => Challenged'
  BY <1>1, <1>2 DEF Challenged, OracleKept
<1>4. ProverInv'
  BY <1>1, <1>2, <1>3 DEF ProverInv, Begun, Tagged, Hashed, Signed
<1>5. Presentation' = Presentation
  BY <1>1 DEF Presentation, Presented
<1>6. NotRenamed' <=> NotRenamed
  BY <1>1 DEF NotRenamed
<1> QED
  BY <1>2, <1>4, <1>5, <1>6

\* Nor its own statements, once it has its share.
LEMMA StatementsKept ==
    ASSUME UNCHANGED prover_vars, v' = v, mac_verifier_key_share' = mac_verifier_key_share
    PROVE  /\ VPrefix' = VPrefix /\ (MayVerify(v)' <=> MayVerify(v))
           /\ VHashPublic' = VHashPublic /\ VSignaturePublic' = VSignaturePublic
           /\ VHashTranscript' = VHashTranscript
           /\ VSignatureTranscript' = VSignatureTranscript
           /\ (VHashSatisfied' <=> VHashSatisfied)
           /\ (VSignatureSatisfied' <=> VSignatureSatisfied)
<1>1. prover' = prover /\ hash_input' = hash_input /\ signature_input' = signature_input
  BY DEF prover_vars
<1>2. VPrefix' = VPrefix /\ (MayVerify(v)' <=> MayVerify(v))
  BY <1>1 DEF VPrefix, MayVerify
<1>3. VHashPublic' = VHashPublic /\ VSignaturePublic' = VSignaturePublic
  BY <1>1 DEF VHashPublic, VSignaturePublic
<1>4. VHashTranscript' = VHashTranscript /\ VSignatureTranscript' = VSignatureTranscript
  BY <1>1, <1>3 DEF VHashTranscript, VSignatureTranscript
<1>5. (VHashSatisfied' <=> VHashSatisfied) /\ (VSignatureSatisfied' <=> VSignatureSatisfied)
  BY <1>1, <1>3 DEF VHashSatisfied, VSignatureSatisfied
<1> QED
  BY <1>2, <1>3, <1>4, <1>5

\* A verifier given what the holder shows draws the holder's share.
LEMMA CommitmentsStep == ASSUME AllInv, verify_commitments PROVE AllInv'
<1>0. /\ pc = "proved" /\ UNCHANGED prover_vars /\ Checked
      /\ proof.hash_commitment = hash_input.private
      /\ proof.signature_commitment = signature_input.private
  BY DEF verify_commitments, AllInv, ProverInv, Begun, Tagged, Hashed, Signed
<1>1. hash_input' = hash_input /\ signature_input' = signature_input /\ prover' = prover
  BY <1>0 DEF prover_vars
<1>2. CASE MayVerify(v')
  <2> DEFINE t == Committed(v'.transcript, proof.hash_commitment, proof.signature_commitment)
  <2>1. /\ pc' = "challenged" /\ v_transcript' = t
        /\ mac_verifier_key_share' \in Challenges(t) /\ Drawn(t, mac_verifier_key_share')
    BY <1>2 DEF verify_commitments
  <2>2. t = VPrefix'
    BY <1>0, <1>1 DEF Committed, VPrefix, Prefix
  <2> HIDE DEF t
  <2>3. OracleKept /\ t \in DOMAIN oracle' /\ oracle'[t] = mac_verifier_key_share'
    BY <2>1, DrawingKeeps
  <2>4. ProverInv'
    BY <1>0, <2>1, <2>3, ProverKept DEF AllInv, Signed
  <2>5. mac_verifier_key_share' \in FE
    BY <2>1, TwoCircuitAssumption DEF Challenges, AllInv, DrawnFromShares
  <2>6. DrawnFromShares'
    BY <2>1, <2>5 DEF Drawn, AllInv, DrawnFromShares
  <2>7. MayVerify(v)'
    BY <1>1, <1>2 DEF MayVerify
  <2>8. VerifierInv'
    BY <2>1, <2>2, <2>3, <2>7 DEF VerifierInv, PresentationAccepted
  <2> QED
    BY <2>4, <2>6, <2>8 DEF AllInv
<1>3. CASE ~MayVerify(v')
  <2>1. pc' = "rejected" /\ oracle' = oracle
    BY <1>3 DEF verify_commitments
  <2>2. OracleKept
    BY <2>1 DEF OracleKept
  <2>3. ProverInv' /\ Presentation' = Presentation
    BY <1>0, <2>1, <2>2, ProverKept DEF AllInv, Signed
  <2>4. v' # Presentation'
    BY <1>0, <1>3, <2>3, PresentationMayBeVerified
  <2>5. VerifierInv'
    BY <2>1, <2>4 DEF VerifierInv, PresentationAccepted
  <2>6. DrawnFromShares'
    BY <2>1 DEF AllInv, DrawnFromShares
  <2> QED
    BY <2>3, <2>5, <2>6 DEF AllInv
<1> QED
  BY <1>2, <1>3

\* The hash circuit's part is accepted only in the transcript it was made in, and for the
\* statement that the verifier makes.
LEMMA VerifyHashStep == ASSUME AllInv, verify_hash PROVE AllInv'
<1> DEFINE verified ==
             /\ StatementsCanBeMade
             /\ CircuitProofVerifies(proof.hash_proof, Circuits(v).hash, VHashTranscript,
                                     hash_input.private, VHashSatisfied)
<1>1. /\ Checked /\ Filled /\ Challenged /\ proof.hash_commitment = hash_input.private
      /\ proof.hash_proof = ProofFrom(HashId, HashTranscript, hash_input.private)
      /\ MayVerify(v) /\ VPrefix \in DOMAIN oracle /\ mac_verifier_key_share = oracle[VPrefix]
      /\ pc = "challenged" /\ v_transcript = VPrefix /\ proof.mac_tags = hash_input.public.tags
  BY DEF verify_hash, AllInv, ProverInv, VerifierInv, Begun, Tagged, Hashed, Signed, Challenged
<1>2. initialize_transcript(v_transcript, Circuits(v).hash, VHashPublic) = VHashTranscript
  BY <1>1 DEF VHashTranscript, FirstTranscript, VPrefix
<1>3. /\ UNCHANGED prover_vars /\ v' = v /\ mac_verifier_key_share' = mac_verifier_key_share
      /\ oracle' = oracle /\ v_transcript' = Append(VHashTranscript, <<"proof", "hash">>)
      /\ pc' = IF verified THEN "hash verified" ELSE "rejected"
  BY <1>1, <1>2 DEF verify_hash, VHashPublic, VHashSatisfied
<1>4. OracleKept /\ pc' \in Signed /\ pc \in Signed
  BY <1>1, <1>3 DEF OracleKept, Signed
<1>5. /\ ProverInv' /\ Presentation' = Presentation /\ (NotRenamed' <=> NotRenamed)
      /\ HashTranscript' = HashTranscript
  BY <1>3, <1>4, ProverKept DEF AllInv
<1>6. DrawnFromShares'
  BY <1>3 DEF AllInv, DrawnFromShares
<1>7. /\ VPrefix' = VPrefix /\ (MayVerify(v)' <=> MayVerify(v))
      /\ VHashTranscript' = VHashTranscript /\ (VHashSatisfied' <=> VHashSatisfied)
  BY <1>3, StatementsKept
<1>8. ASSUME verified PROVE VHashTranscript = HashTranscript /\ VHashSatisfied
  <2>1. proof.hash_proof.transcript = HashTranscript
    BY <1>1 DEF ProofFrom
  <2> QED
    BY <1>8, <2>1 DEF CircuitProofVerifies
<1>9. ASSUME ~verified, v = Presentation PROVE NotRenamed
  <2>1. SUFFICES ASSUME ~NotRenamed PROVE FALSE
    OBVIOUS
  <2>2. /\ StatementsCanBeMade /\ Circuits(v) = Circuits(prover) /\ v.version = prover.version
        /\ v.transcript = call.transcript /\ VHashPublic = hash_input.public
    BY <1>1, <1>9, <2>1, PresentationIsStated
  <2>3. VHashTranscript = HashTranscript
    BY <2>2 DEF VHashTranscript, HashTranscript, HashId
  <2>4. VHashSatisfied
    BY <1>1, <2>2 DEF VHashSatisfied, Challenged, HashSatisfied
  <2>5. /\ proof.hash_proof.circuit = Circuits(v).hash
        /\ proof.hash_proof.transcript = VHashTranscript
        /\ proof.hash_proof.private = hash_input.private
    BY <1>1, <2>2, <2>3 DEF ProofFrom, HashId
  <2> QED
    BY <1>9, <2>2, <2>4, <2>5 DEF CircuitProofVerifies
<1> HIDE DEF verified
<1>10. PresentationAccepted'
  <2> SUFFICES ASSUME pc' = "rejected", v' = Presentation'
               PROVE  NotRenamed' /\ v'.version = prover'.version
    BY DEF PresentationAccepted, NotRenamed
  <2>1. ~verified
    BY <1>3
  <2>2. NotRenamed'
    BY <1>3, <1>5, <1>9, <2>1
  <2>3. v'.version = prover'.version
    BY DEF Presentation
  <2> QED
    BY <2>2, <2>3
<1>11. VerifierInv'
  <2>1. pc' = "hash verified" => VHashTranscript' = HashTranscript' /\ VHashSatisfied'
    BY <1>3, <1>5, <1>7, <1>8
  <2> QED
    BY <1>1, <1>3, <1>7, <1>10, <2>1 DEF VerifierInv
<1> QED
  BY <1>5, <1>6, <1>11 DEF AllInv

\* The same for the signature circuit's part.
LEMMA VerifySignatureStep == ASSUME AllInv, verify_signature PROVE AllInv'
<1> DEFINE verified ==
             CircuitProofVerifies(proof.signature_proof, Circuits(v).signature,
                                  VSignatureTranscript, signature_input.private,
                                  VSignatureSatisfied)
<1>1. /\ Checked /\ Filled /\ Challenged
      /\ proof.signature_commitment = signature_input.private
      /\ proof.signature_proof =
           ProofFrom(SignatureId, SignatureTranscript, signature_input.private)
      /\ MayVerify(v) /\ VPrefix \in DOMAIN oracle /\ mac_verifier_key_share = oracle[VPrefix]
      /\ pc = "hash verified" /\ v_transcript = Append(VHashTranscript, <<"proof", "hash">>)
      /\ proof.mac_tags = hash_input.public.tags
      /\ VHashTranscript = HashTranscript /\ VHashSatisfied
  BY DEF verify_signature, AllInv, ProverInv, VerifierInv, Begun, Tagged, Hashed, Signed,
         Challenged
<1>2. initialize_transcript(v_transcript, Circuits(v).signature, VSignaturePublic)
        = VSignatureTranscript
  BY <1>1 DEF VSignatureTranscript, SecondTranscript, VHashTranscript
<1>3. /\ UNCHANGED prover_vars /\ v' = v /\ mac_verifier_key_share' = mac_verifier_key_share
      /\ oracle' = oracle
      /\ pc' = IF verified THEN "accepted" ELSE "rejected"
  BY <1>1, <1>2 DEF verify_signature, VSignaturePublic, VSignatureSatisfied
<1>4. OracleKept /\ pc' \in Signed /\ pc \in Signed
  BY <1>1, <1>3 DEF OracleKept, Signed
<1>5. /\ ProverInv' /\ Presentation' = Presentation /\ (NotRenamed' <=> NotRenamed)
      /\ HashTranscript' = HashTranscript
  BY <1>3, <1>4, ProverKept DEF AllInv
<1>6. DrawnFromShares'
  BY <1>3 DEF AllInv, DrawnFromShares
<1>7. /\ VPrefix' = VPrefix /\ (MayVerify(v)' <=> MayVerify(v))
      /\ VHashTranscript' = VHashTranscript /\ (VHashSatisfied' <=> VHashSatisfied)
      /\ (VSignatureSatisfied' <=> VSignatureSatisfied)
  BY <1>3, StatementsKept
<1>8. ASSUME verified PROVE VSignatureSatisfied
  BY <1>8 DEF CircuitProofVerifies
<1>9. ASSUME ~verified, v = Presentation PROVE NotRenamed
  <2>1. SUFFICES ASSUME ~NotRenamed PROVE FALSE
    OBVIOUS
  <2>2. /\ Circuits(v) = Circuits(prover) /\ v.transcript = call.transcript
        /\ VHashPublic = hash_input.public /\ VSignaturePublic = signature_input.public
    BY <1>1, <1>9, <2>1, PresentationIsStated
  <2>3. VSignatureTranscript = SignatureTranscript
    BY <2>2 DEF VSignatureTranscript, SignatureTranscript, HashId, SignatureId
  <2>4. VSignatureSatisfied
    BY <1>1, <2>2 DEF VSignatureSatisfied, Challenged, SignatureSatisfied
  <2>5. /\ proof.signature_proof.circuit = Circuits(v).signature
        /\ proof.signature_proof.transcript = VSignatureTranscript
        /\ proof.signature_proof.private = signature_input.private
    <3>1. Circuits(v).signature = SignatureId
      BY <2>2 DEF SignatureId
    <3>2. /\ proof.signature_proof.circuit = SignatureId
          /\ proof.signature_proof.transcript = SignatureTranscript
          /\ proof.signature_proof.private = signature_input.private
      <4>1. proof.signature_proof =
              ProofFrom(SignatureId, SignatureTranscript, signature_input.private)
        BY <1>1
      <4>2. PICK q : q = ProofFrom(SignatureId, SignatureTranscript, signature_input.private)
        OBVIOUS
      <4>3. /\ q.circuit = SignatureId
            /\ q.transcript = SignatureTranscript
            /\ q.private = signature_input.private
        BY <4>2 DEF ProofFrom
      <4> QED
        BY ONLY <4>1, <4>2, <4>3
    <3> QED
      BY <2>3, <3>1, <3>2
  <2> QED
    BY <1>9, <2>4, <2>5 DEF CircuitProofVerifies
<1> HIDE DEF verified
<1>10. PresentationAccepted'
  <2> SUFFICES ASSUME pc' = "rejected", v' = Presentation'
               PROVE  NotRenamed' /\ v'.version = prover'.version
    BY DEF PresentationAccepted, NotRenamed
  <2>1. ~verified
    BY <1>3
  <2>2. NotRenamed'
    BY <1>3, <1>5, <1>9, <2>1
  <2>3. v'.version = prover'.version
    BY DEF Presentation
  <2> QED
    BY <2>2, <2>3
<1>11. VerifierInv'
  BY <1>1, <1>3, <1>5, <1>7, <1>8, <1>10 DEF VerifierInv
<1> QED
  BY <1>5, <1>6, <1>11 DEF AllInv

-----------------------------------------------------------------------------
(* What is proved of the whole.                                            *)

\* Initially no call is in progress and nothing was drawn.
LEMMA AllInvInit == Init => AllInv
<1> SUFFICES ASSUME Init PROVE AllInv
  OBVIOUS
<1>1. pc = "idle" /\ oracle = <<>>
  BY DEF Init
<1>2. ProverInv
  BY <1>1 DEF ProverInv, Begun, Tagged, Hashed, Signed
<1>3. DrawnFromShares /\ VerifierInv
  BY <1>1 DEF DrawnFromShares, VerifierInv, PresentationAccepted
<1> QED
  BY <1>2, <1>3 DEF AllInv

\* Each step of the prover and of the verifier preserves what is said of both.
LEMMA AllInvInductive == AllInv /\ [Next]_vars => AllInv'
<1> SUFFICES ASSUME AllInv, [Next]_vars PROVE AllInv'
  OBVIOUS
<1>1. ASSUME Next PROVE AllInv'
  BY <1>1, InputsStep, CommitStep, TagStep, HashStep, SignatureStep, CommitmentsStep,
     VerifyHashStep, VerifySignatureStep DEF Next
<1>2. CASE UNCHANGED vars
  <2>1. /\ pc' = pc /\ UNCHANGED prover_vars /\ oracle' = oracle /\ v' = v
        /\ v_transcript' = v_transcript /\ mac_verifier_key_share' = mac_verifier_key_share
    BY <1>2 DEF vars
  <2>2. /\ prover' = prover /\ mdoc' = mdoc /\ call' = call /\ hash_input' = hash_input
        /\ signature_input' = signature_input /\ transcript' = transcript /\ proof' = proof
    BY <2>1 DEF prover_vars
  <2>3. /\ Checked' <=> Checked
        /\ Filled' <=> Filled
        /\ Unseen' <=> Unseen
        /\ CallPrefix' = CallPrefix /\ HashTranscript' = HashTranscript
        /\ SignatureTranscript' = SignatureTranscript
        /\ HashId' = HashId /\ SignatureId' = SignatureId
        /\ HashSatisfied' <=> HashSatisfied
        /\ SignatureSatisfied' <=> SignatureSatisfied
    BY <2>2, VectorsKept
  <2>4. Challenged' <=> Challenged
    BY <2>1, <2>2, <2>3 DEF Challenged
  <2>5. ProverInv'
    BY <2>1, <2>2, <2>3, <2>4 DEF AllInv, ProverInv, Begun, Tagged, Hashed, Signed
  <2>6. DrawnFromShares'
    BY <2>1 DEF AllInv, DrawnFromShares
  <2>7. Presentation' = Presentation
    BY <2>2 DEF Presentation, Presented
  <2>8. /\ VPrefix' = VPrefix /\ (MayVerify(v)' <=> MayVerify(v))
        /\ VHashTranscript' = VHashTranscript
        /\ (VHashSatisfied' <=> VHashSatisfied)
        /\ (VSignatureSatisfied' <=> VSignatureSatisfied)
    BY <2>1, StatementsKept
  <2>9. PresentationAccepted'
    BY <2>1, <2>2, <2>7 DEF AllInv, VerifierInv, PresentationAccepted
  <2>10. VerifierInv'
    BY <2>1, <2>3, <2>8, <2>9 DEF AllInv, VerifierInv
  <2> QED
    BY <2>5, <2>6, <2>10 DEF AllInv
<1> QED
  BY <1>1, <1>2

\* verify_internal accepts what prove_internal proved when it is given what the holder
\* shows, except for a pseudonym of version 6: both write the same statements.
THEOREM PresentationsAccepted == Spec => []PresentationAccepted
<1>1. AllInv => PresentationAccepted
  BY DEF AllInv, VerifierInv
<1> QED
  BY AllInvInit, AllInvInductive, <1>1, PTL DEF Spec

\* CircuitInputs::new refuses, before anything is committed to, all that the circuits would
\* but for a device key that is wrapped and, whatever its attribute and with or without a
\* context, a pseudonym of version 7; and these it always lets the circuits refuse.
THEOREM RefusedBeforeCommitment == Spec => []CheckedBeforeCommitment
<1>1. AllInv => CheckedBeforeCommitment
  <2> SUFFICES ASSUME ProverInv PROVE CheckedBeforeCommitment
    BY DEF AllInv
  <2>1. pc \in {"tagged", "hash proved", "proved"} => Checked /\ Filled /\ HashSatisfied
    BY DEF ProverInv, Challenged, Begun, Tagged, Hashed, Signed
  <2> QED
    BY <2>1, UnseenIsRefused DEF ProverInv, CheckedBeforeCommitment
<1> QED
  BY AllInvInit, AllInvInductive, <1>1, PTL DEF Spec

\* Of version 8 no attribute in the statement is the seed's: when a pseudonym is asked for,
\* and only then, is the seed looked up, and the one request for it gets the hash.
LEMMA NoSeedIsStated == AllInv => SeedNotDisclosed
<1> SUFFICES ASSUME AllInv, pc \notin {"idle", "refused"}, prover.version = 8,
                    NEW n \in DOMAIN hash_input.public.attributes
             PROVE  /\ hash_input.public.attributes[n].identifier # "pseudonym_seed"
                    /\ \E i \in ItemsOf(mdoc) :
                         IF hash_input.public.attributes[n].identifier = "pairwise_pseudonym"
                         THEN /\ i.id = "pseudonym_seed" /\ IsSeed(i.value)
                              /\ hash_input.public.attributes[n].value
                                   = ppid(i.value, call.context)
                         ELSE hash_input.public.attributes[n]
                                = [identifier |-> i.id, value |-> i.value]
  BY DEF SeedNotDisclosed
<1> DEFINE ids == mdoc_attribute_ids(call.ids)
           item == Items(mdoc, call)[n]
<1>1. Checked /\ Filled
  BY DEF AllInv, ProverInv
<1>2. hash_input.public.attributes = Attributes
  BY <1>1 DEF Filled, HashPublic
<1>3. /\ n \in DOMAIN call.ids
      /\ hash_input.public.attributes[n] = PublicAttribute(8, call.ids[n], item, call.context)
  BY <1>2 DEF Attributes
<1>4. item \in ItemsOf(mdoc) /\ item.id = ids[n]
  BY <1>1, <1>3, CallItem DEF ItemsOf
<1> HIDE DEF item
<1>5. CASE call.ids[n] = "pairwise_pseudonym"
  <2>1. IsSeed(item.value)
    BY <1>1, <1>3, <1>5, PseudonymIsOfASeed DEF item
  <2>2. hash_input.public.attributes[n] =
          [identifier |-> "pairwise_pseudonym", value |-> ppid(item.value, call.context)]
    BY <1>3, <1>5, <2>1 DEF PublicAttribute
  <2>3. item.id = "pseudonym_seed"
    BY <1>3, <1>5, <1>4 DEF mdoc_attribute_ids
  <2> QED
    BY <1>4, <2>1, <2>2, <2>3
<1>6. CASE call.ids[n] # "pairwise_pseudonym"
  <2>1. hash_input.public.attributes[n] = [identifier |-> item.id, value |-> item.value]
    BY <1>3, <1>6 DEF PublicAttribute
  <2>2. item.id = call.ids[n]
    BY <1>3, <1>6, <1>4 DEF mdoc_attribute_ids
  <2>3. call.ids[n] # "pseudonym_seed"
    <3>1. SUFFICES ASSUME call.ids[n] = "pseudonym_seed" PROVE FALSE
      OBVIOUS
    <3>2. PICK m \in DOMAIN call.ids : call.ids[m] = "pairwise_pseudonym"
      BY <1>1 DEF Checked, InputsCanBeMade, fill_ppid_witness
    <3>3. ids[n] = ids[m] /\ m # n
      BY <1>3, <1>6, <3>1, <3>2 DEF mdoc_attribute_ids
    <3>4. \A i \in 1..(n - 1) : ids[i] # ids[n]
      BY <1>1, <1>3, CallItem
    <3>5. \A i \in 1..(m - 1) : ids[i] # ids[m]
      BY <1>1, <3>2, CallItem
    <3>6. m \in 1..Len(call.ids) /\ n \in 1..Len(call.ids) /\ Len(call.ids) \in Nat
      <4>1. call.ids \in Seq(STRING)
        BY <1>1, MdocZkAssumption DEF Checked
      <4> QED
        BY <1>3, <3>2, <4>1
    <3> HIDE DEF ids
    <3> QED
      BY <3>3, <3>4, <3>5, <3>6
  <2> QED
    BY <1>6, <1>4, <2>1, <2>2, <2>3
<1> QED
  BY <1>5, <1>6

\* circuit_interface.md of version 8: the statement never has the seed of a pseudonym,
\* whatever attributes are asked for and whatever items a credential has.
THEOREM SeedIsNotDisclosed == Spec => []SeedNotDisclosed
BY AllInvInit, AllInvInductive, NoSeedIsStated, PTL DEF Spec

\* The statement verified is the one the proof was made for, and that one is of the
\* credential, whose items the hash circuit and whose signatures the signature circuit checked.
LEMMA AcceptedIsOfTheCredential == AllInv => AcceptedIsShown
<1> SUFFICES ASSUME AllInv, pc = "accepted" PROVE Shows(mdoc, v) /\ mdoc \in Responses
  BY DEF AcceptedIsShown
<1>1. /\ Checked /\ Filled /\ MayVerify(v) /\ VHashTranscript = HashTranscript
      /\ VHashSatisfied /\ VSignatureSatisfied
  BY DEF AllInv, ProverInv, VerifierInv, Begun, Tagged, Hashed, Signed
<1> DEFINE private == hash_input.private
           items == Items(mdoc, call)
<1>2. /\ private.items = items /\ private.valid_from = mdoc.valid_from
      /\ private.valid_until = mdoc.valid_until
  BY <1>1 DEF Filled, HashPrivate
<1>3. /\ signature_input.private.credential_trace = mdoc.signer
      /\ signature_input.private.device_trace = mdoc.device_signed
  BY <1>1 DEF Filled, SignaturePrivate
<1>4. mdoc.signer = v.key /\ mdoc.device_signed = <<v.doc_type, v.name_spaces, v.transcript>>
  <2>1. VSignaturePublic.key = v.key /\ VSignaturePublic.session =
          compute_session_transcript_hash(v.doc_type, v.name_spaces, v.transcript)
    BY DEF VSignaturePublic, SignatureStatement
  <2> QED
    BY <1>1, <1>3, <2>1 DEF VSignatureSatisfied, SignatureCircuitSatisfied,
                            compute_session_transcript_hash
<1>5. /\ VHashPublic.attributes = v.attributes /\ VHashPublic.time = v.time
      /\ VHashPublic.context = ContextSlot(v.version, v.context)
  BY DEF VHashPublic, HashStatement
<1>6. VHashPublic = hash_input.public
  BY <1>1, FirstTranscriptSays DEF VHashTranscript, HashTranscript
<1>7. v.attributes = Attributes
  <2>1. hash_input.public.attributes = Attributes
    BY <1>1 DEF Filled, HashPublic
  <2> QED
    BY <1>5, <1>6, <2>1
<1>8. mdoc.valid_from <= v.time /\ v.time <= mdoc.valid_until
  BY <1>1, <1>2, <1>5 DEF VHashSatisfied, HashCircuitSatisfied
<1>9. ASSUME NEW n \in DOMAIN v.attributes
      PROVE  /\ items[n] \in ItemsOf(mdoc) /\ items[n].digest_matches
             /\ Discloses(v.attributes[n], items[n], v.context)
  <2>1. n \in DOMAIN call.ids /\ n \in DOMAIN items
    BY <1>7 DEF Attributes, Items
  <2>2. items[n] \in ItemsOf(mdoc)
    BY <1>1, <2>1, CallItem DEF ItemsOf
  <2> HIDE DEF items
  <2>3. /\ items[n].digest_matches
        /\ IF v.version = 8
           THEN Discloses(VHashPublic.attributes[n], items[n], VHashPublic.context)
           ELSE VHashPublic.attributes[n] = [identifier |-> items[n].id, value |-> items[n].value]
    BY <1>1, <1>2, <2>1 DEF VHashSatisfied, HashCircuitSatisfied
  <2>4. Discloses(v.attributes[n], items[n], v.context)
    BY <1>5, <2>3 DEF Discloses, ContextSlot
  <2> QED
    BY <2>2, <2>3, <2>4
<1> QED
  BY <1>1, <1>4, <1>8, <1>9 DEF Shows, Checked

\* verify_internal accepts only what is true of a credential of the holder's, for the
\* verifier's own key, time, session and context.
THEOREM OnlyShownIsAccepted == Spec => []AcceptedIsShown
BY AllInvInit, AllInvInductive, AcceptedIsOfTheCredential, PTL DEF Spec
=============================================================================
