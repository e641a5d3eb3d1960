------------------------------- MODULE MdocZk -------------------------------
(***************************************************************************)
(* The two-circuit proof of mdoc_zk: a holder shows some attributes of a   *)
(* credential to a verifier.  Of circuit version 8, one of them can be a   *)
(* pseudonym: the hash of the credential's pseudonym_seed and of a context *)
(* the verifier chose.                                                     *)
(*                                                                         *)
(* A holder makes one proof (nothing is kept from one call to the next);   *)
(* then a verifier is given the proof with what it was made for, one thing *)
(* altered or none, and checks it.  A parsed device response is a record   *)
(* of what the code reads from it; a signature is named by the key it was  *)
(* made with and by what it signs.  A value is                             *)
(* <<"text", t, c>>, <<"seed", s, c>> (a byte string of 32 bytes) or       *)
(* <<"ppid", s, c>>, the hash of a seed and a context.                     *)
(***************************************************************************)
EXTENDS TwoCircuitProof, SequencesExt

CONSTANTS
    Provers,         \* records of version and num_attributes
    Responses,       \* device responses; parses: they can be read, and fit the circuits
    Calls,           \* arguments of prove: namespace, ids, transcript, time, context
    MacKeyShares     \* what Field2_128::sample yields: values of a_p

\* There are three versions; identifiers are strings, the items of a namespace are in order,
\* and what is sampled or tagged is an element.
ASSUME MdocZkAssumption ==
    /\ \A p \in Provers : p.version \in 6..8
    /\ \A c \in Calls : c.ids \in Seq(STRING)
    /\ \A d \in Responses :
         /\ \A ns \in DOMAIN d.items : d.items[ns] \in Seq(ToSet(d.items[ns]))
         /\ d.messages \in [{1, 2} -> FE]
    /\ MacKeyShares \subseteq [{1, 2} -> FE]

VARIABLES
    pc,              \* where the current call is
    prover,          \* the MdocZkProver of the call
    mdoc, call,      \* the arguments of prove, the device response parsed
    hash_input, signature_input,   \* both input vectors, public and private
    transcript, proof,             \* what was written, and the proof being made
    v,               \* the arguments of verify, with the verifier's version
    v_transcript, mac_verifier_key_share

prover_vars == <<prover, mdoc, call, hash_input, signature_input, transcript, proof>>
vars == <<pc, prover_vars, oracle, v, v_transcript, mac_verifier_key_share>>

-----------------------------------------------------------------------------
(* What both sides compute.                                                *)

Circuits(p) == [hash |-> <<"hash", p.version, p.num_attributes>>,
                signature |-> <<"signature", p.version, p.num_attributes>>]

\* SHA-256 of the seed and the verifier's context.
ppid(value, context) == <<"ppid", value[2], context>>

\* Whether a value is a CBOR byte string of at least 32 bytes.
IsSeed(value) == value[1] = "seed"

\* The digest of DeviceAuthentication, which names all three.
compute_session_transcript_hash(doc_type, device_name_spaces, t) ==
    <<doc_type, device_name_spaces, t>>

compute_mac_tags(messages, a_p, a_v) == MacTags(a_p, a_v, messages)

HashStatement(attributes, time, context, a_v, tags) ==
    [attributes |-> attributes, time |-> time, context |-> context, a_v |-> a_v, tags |-> tags]

SignatureStatement(key, session, a_v, tags) ==
    [key |-> key, session |-> session, a_v |-> ToBits(a_v),
     tags |-> [k \in Messages |-> ToBits(tags[k])]]

\* Only version 8 has a slot for the verifier's context.
ContextSlot(version, context) == IF version = 8 THEN context ELSE None

\* A disclosed attribute is what its item says, or the pseudonym of the item's seed.
Discloses(attribute, item, context) ==
    \/ attribute = [identifier |-> item.id, value |-> item.value]
    \/ /\ attribute.identifier = "pairwise_pseudonym" /\ item.id = "pseudonym_seed"
       /\ IsSeed(item.value)
       /\ attribute.value = ppid(item.value, context)

\* The hash circuit of a version.  Of version 8 the pseudonym is that of the seed in the
\* witness; the key of the device is at its fixed place in the credential.
HashCircuitSatisfied(version, public, private) ==
    /\ Len(public.attributes) = Len(private.items)
    /\ \A n \in DOMAIN private.items :
         /\ private.items[n].digest_matches
         /\ IF version = 6 THEN private.items[n].value_follows ELSE private.items[n].starts_at_one
         /\ IF version = 8
            THEN Discloses(public.attributes[n], private.items[n], public.context)
            ELSE public.attributes[n] = [identifier |-> private.items[n].id,
                                         value |-> private.items[n].value]
    /\ private.valid_from <= public.time /\ public.time <= private.valid_until
    /\ ~private.key_wrapped
    /\ public.tags = compute_mac_tags(private.messages, private.a_p, public.a_v)

SignatureCircuitSatisfied(public, private) ==
    /\ private.credential_trace = public.key
    /\ private.device_trace = public.session
    /\ [k \in Messages |-> FromBits(public.tags[k])] =
         compute_mac_tags(private.messages, [k \in Messages |-> FromBits(private.a_p[k])],
                          FromBits(public.a_v))

-----------------------------------------------------------------------------
(* CircuitInputs::new.                                                     *)

\* "pairwise_pseudonym" is looked up under the name it has in a credential.
mdoc_attribute_ids(ids) ==
    [n \in DOMAIN ids |-> IF ids[n] = "pairwise_pseudonym" THEN "pseudonym_seed" ELSE ids[n]]

\* Faulty variant of find_attributes: an item is given to every request for it.
find_attributes_for_all(items, ids) ==
    [n \in DOMAIN ids |->
        LET hits == {k \in DOMAIN items : items[k].id = ids[n]}
        IN  IF hits = {} THEN {} ELSE {items[Max(hits)]}]

\* For each identifier the item found: items are matched in turn, each with the first
\* request for it only, and a later one replaces an earlier.
find_attributes(items, ids) ==
    [n \in DOMAIN ids |->
        LET hits == {k \in DOMAIN items : items[k].id = ids[n] /\ \A m \in 1..(n-1) : ids[m] # ids[n]}
        IN  IF hits = {} THEN {} ELSE {items[Max(hits)]}]

Found(d, c) ==
    IF c.namespace \in DOMAIN d.items
    THEN find_attributes(d.items[c.namespace], mdoc_attribute_ids(c.ids)) ELSE [n \in DOMAIN c.ids |-> {}]

\* The items of the call, once all of them were found.
Items(d, c) == [n \in DOMAIN c.ids |-> CHOOSE item \in Found(d, c)[n] : TRUE]

\* The public identifier and value: those of the item, or the pseudonym's.
PublicAttribute(version, id, item, context) ==
    IF version # 6 /\ id = "pairwise_pseudonym"
    THEN [identifier |-> id,
          value |-> IF IsSeed(item.value) THEN ppid(item.value, context) ELSE item.value]
    ELSE [identifier |-> item.id, value |-> item.value]

\* The key of the credential's certificate verifies the issuer's signature, and the key in
\* the credential the device's, on this session.
fill_ecdsa_witnesses(d, session) == d.signer = d.issuer /\ d.device_signed = session

\* Faulty variant of TimeIsInRange: a credential is good for ever.
TimeIsInRange_from(d, time) == d.valid_from <= d.valid_until /\ d.valid_from <= time

\* A time of the wrong length is no time.
TimeIsInRange(d, time) ==
    d.valid_from <= d.valid_until /\ d.valid_from <= time /\ time <= d.valid_until

\* The pseudonym's attribute must be asked for, be no other than a seed, and have a context.
fill_ppid_witness(c, items) ==
    \E n \in DOMAIN c.ids : c.ids[n] = "pairwise_pseudonym" /\ IsSeed(items[n].value)

Session(d, c) == compute_session_transcript_hash(d.doc_type, d.name_spaces, c.transcript)

\* Whether the inputs can be made: every check of CircuitInputs::new, all before anything is
\* committed to.
InputsCanBeMade(version, d, c) ==
    /\ d.parses /\ c.transcript # None /\ c.time # 0
    /\ \A n \in DOMAIN c.ids : Found(d, c)[n] # {}
    /\ LET items == Items(d, c)
       IN  /\ fill_ecdsa_witnesses(d, Session(d, c))
           /\ TimeIsInRange(d, c.time)
           /\ \A n \in DOMAIN items :
                /\ items[n].digest_matches
                /\ IF version = 6 THEN items[n].value_follows
                   ELSE /\ items[n].starts_at_one
                        /\ c.ids[n] = "pairwise_pseudonym" /\ IsSeed(items[n].value)
                             => c.context # None
           /\ version = 8 => c.context # None /\ fill_ppid_witness(c, items)

HashInput(version, d, c, a_p) ==
    [public |-> HashStatement([n \in DOMAIN c.ids |->
                                  PublicAttribute(version, c.ids[n], Items(d, c)[n], c.context)],
                              c.time, ContextSlot(version, c.context), ZERO, ZeroTags),
     private |-> [items |-> Items(d, c), valid_from |-> d.valid_from, valid_until |-> d.valid_until,
                  key_wrapped |-> d.key_wrapped, messages |-> d.messages, a_p |-> a_p]]

SignatureInput(d, c, a_p) ==
    [public |-> SignatureStatement(d.issuer, Session(d, c), ZERO, ZeroTags),
     private |-> [credential_trace |-> d.signer, device_trace |-> d.device_signed,
                  messages |-> d.messages, a_p |-> [k \in Messages |-> ToBits(a_p[k])]]]

\* update_macs, for either vector.
update_hash_macs(input, a_v, tags) == [input EXCEPT !.public.a_v = a_v, !.public.tags = tags]
update_signature_macs(input, a_v, tags) ==
    [input EXCEPT !.public = SignatureStatement(@.key, @.session, a_v, tags)]

-----------------------------------------------------------------------------
(* MdocZkProver.                                                           *)

Init ==
    /\ pc = "idle"
    /\ prover = None /\ mdoc = None /\ call = None
    /\ hash_input = None /\ signature_input = None
    /\ transcript = <<>> /\ proof = None
    /\ oracle = <<>>
    /\ v = None /\ v_transcript = <<>> /\ mac_verifier_key_share = None

\* The first checks of prove_internal.  prove gives it no context, prove_with_ppid one for
\* version 8 only; prove_with_ppid_wasm gives one whatever the version.
MayProve(p, c) == Len(c.ids) = p.num_attributes /\ (p.version = 8 => c.context # None)

\* A call of prove, prove_with_ppid or prove_with_ppid_wasm, up to the lengths of the inputs.
new_inputs ==
    /\ pc = "idle"
    /\ \E p \in Provers, d \in Responses, c \in Calls, a_p \in MacKeyShares :
         /\ prover' = p /\ mdoc' = d /\ call' = c
         /\ IF MayProve(p, c) /\ InputsCanBeMade(p.version, d, c)
            THEN /\ hash_input' = HashInput(p.version, d, c, a_p)
                 /\ signature_input' = SignatureInput(d, c, a_p)
                 /\ pc' = "built"
            ELSE pc' = "refused" /\ UNCHANGED <<hash_input, signature_input>>
    /\ UNCHANGED <<transcript, proof, oracle, v, v_transcript, mac_verifier_key_share>>

\* The transcript is begun with the session's, and both commitments are written to it.
Committed(session_transcript, hash_root, signature_root) ==
    << <<"seed", session_transcript>>, <<"root", hash_root>>, <<"root", signature_root>> >>

commit ==
    /\ pc = "built"
    /\ proof' = [hash_commitment |-> hash_input.private,
                 signature_commitment |-> signature_input.private]
    /\ transcript' = Committed(call.transcript, hash_input.private, signature_input.private)
    /\ pc' = "committed"
    /\ UNCHANGED <<prover, mdoc, call, hash_input, signature_input, oracle, v, v_transcript,
                   mac_verifier_key_share>>

\* a_v is drawn, the tags are made for it, and both circuits are evaluated.  A statement
\* that does not hold ends the call, by an error or by the assertion in the sumcheck prover.
tag ==
    /\ pc = "committed"
    /\ \E a_v \in Challenges(transcript) :
         LET tags == compute_mac_tags(mdoc.messages, hash_input.private.a_p, a_v)
         IN  /\ Drawn(transcript, a_v)
             /\ hash_input' = update_hash_macs(hash_input, a_v, tags)
             /\ signature_input' = update_signature_macs(signature_input, a_v, tags)
             /\ proof' = [hash_commitment |-> proof.hash_commitment,
                          signature_commitment |-> proof.signature_commitment,
                          mac_tags |-> tags]
    /\ pc' = IF /\ HashCircuitSatisfied(prover.version, hash_input'.public, hash_input'.private)
                /\ SignatureCircuitSatisfied(signature_input'.public, signature_input'.private)
             THEN "tagged" ELSE "refused late"
    /\ UNCHANGED <<prover, mdoc, call, transcript, v, v_transcript, mac_verifier_key_share>>

\* Sumcheck and Ligero on the hash circuit.
prove_hash ==
    /\ pc = "tagged"
    /\ LET t == initialize_transcript(transcript, Circuits(prover).hash, hash_input.public)
       IN  /\ proof' = [hash_commitment |-> proof.hash_commitment,
                        signature_commitment |-> proof.signature_commitment,
                        mac_tags |-> proof.mac_tags,
                        hash_proof |-> ProofFrom(Circuits(prover).hash, t, hash_input.private)]
           /\ transcript' = Append(t, <<"proof", "hash">>)
    /\ pc' = "hash proved"
    /\ UNCHANGED <<prover, mdoc, call, hash_input, signature_input, oracle, v, v_transcript,
                   mac_verifier_key_share>>

\* Then on the signature circuit, in the same transcript; the proof is encoded.
prove_signature ==
    /\ pc = "hash proved"
    /\ LET t == initialize_transcript(transcript, Circuits(prover).signature,
                                      signature_input.public)
       IN  /\ proof' = [hash_commitment |-> proof.hash_commitment,
                        signature_commitment |-> proof.signature_commitment,
                        mac_tags |-> proof.mac_tags, hash_proof |-> proof.hash_proof,
                        signature_proof |-> ProofFrom(Circuits(prover).signature, t,
                                                      signature_input.private)]
           /\ transcript' = Append(t, <<"proof", "signature">>)
    /\ pc' = "proved"
    /\ UNCHANGED <<prover, mdoc, call, hash_input, signature_input, oracle, v, v_transcript,
                   mac_verifier_key_share>>

-----------------------------------------------------------------------------
(* MdocZkVerifier.                                                         *)

\* What the holder shows: the attributes by the names they were asked for.
Presented ==
    [n \in DOMAIN call.ids |->
        LET item == Items(mdoc, call)[n]
        IN  [identifier |-> call.ids[n],
             value |-> IF call.ids[n] = "pairwise_pseudonym" /\ IsSeed(item.value)
                       THEN ppid(item.value, call.context) ELSE item.value]]

\* What a verifier would give for that: a context to verify_with_ppid, which is for version 8
\* only, or none to verify.
Presentation ==
    [version |-> prover.version, num_attributes |-> prover.num_attributes, key |-> mdoc.issuer,
     attributes |-> Presented, doc_type |-> mdoc.doc_type, name_spaces |-> mdoc.name_spaces,
     transcript |-> call.transcript, time |-> call.time,
     context |-> ContextSlot(prover.version, call.context)]

\* All items of a response, and all their values.
ItemsOf(d) == UNION {ToSet(d.items[ns]) : ns \in DOMAIN d.items}
Values == {item.value : item \in UNION {ItemsOf(d) : d \in Responses}}

\* The same with one thing changed.
Altered(a) ==
    {[a EXCEPT !.version = p.version, !.num_attributes = p.num_attributes] : p \in Provers}
    \cup {[a EXCEPT !.key = d.issuer] : d \in Responses}
    \cup {[a EXCEPT !.doc_type = d.doc_type] : d \in Responses}
    \cup {[a EXCEPT !.name_spaces = d.name_spaces] : d \in Responses}
    \cup {[a EXCEPT !.transcript = c.transcript] : c \in Calls}
    \cup {[a EXCEPT !.time = c.time] : c \in Calls}
    \cup {[a EXCEPT !.context = c.context] : c \in Calls}
    \cup {[a EXCEPT !.attributes = Reverse(@)], [a EXCEPT !.attributes = Tail(@)]}
    \cup {[a EXCEPT !.attributes[1].value = value] : value \in Values}
    \cup {[a EXCEPT !.attributes[1].identifier = id] : id \in UNION {ToSet(c.ids) : c \in Calls}}

\* verify_with_ppid is for version 8; attributes are as many as the circuit has, and a proof
\* for another circuit cannot be parsed.
MayVerify(a) ==
    /\ a.context # None => a.version = 8
    /\ Len(a.attributes) = a.num_attributes
    /\ <<a.version, a.num_attributes>> = <<prover.version, prover.num_attributes>>
    /\ a.transcript # None

\* A call of verify, up to the share: the proof's commitments are written and a_v is drawn.
verify_commitments ==
    /\ pc = "proved"
    /\ v' \in Altered(Presentation)
    /\ IF MayVerify(v')
       THEN /\ v_transcript' = Committed(v'.transcript, proof.hash_commitment,
                                         proof.signature_commitment)
            /\ mac_verifier_key_share' \in Challenges(v_transcript')
            /\ Drawn(v_transcript', mac_verifier_key_share')
            /\ pc' = "challenged"
       ELSE pc' = "rejected" /\ UNCHANGED <<oracle, v_transcript, mac_verifier_key_share>>
    /\ UNCHANGED prover_vars

\* Faulty variant of StatementsCanBeMade: a context is required of every version.
StatementsCanBeMade_with_context == v.time # 0 /\ v.context # None

\* CircuitStatements::new: version 8 must have a context, and a time its length.
StatementsCanBeMade == v.time # 0 /\ (v.version = 8 => v.context # None)

\* Sumcheck and Ligero on the hash circuit, for the verifier's own statement.
verify_hash ==
    /\ pc = "challenged"
    /\ LET statement == HashStatement(v.attributes, v.time, ContextSlot(v.version, v.context),
                                      mac_verifier_key_share, proof.mac_tags)
           t == initialize_transcript(v_transcript, Circuits(v).hash, statement)
       IN  /\ v_transcript' = Append(t, <<"proof", "hash">>)
           /\ pc' = IF /\ StatementsCanBeMade
                       /\ CircuitProofVerifies(proof.hash_proof, Circuits(v).hash, t,
                             proof.hash_commitment,
                             HashCircuitSatisfied(v.version, statement, proof.hash_commitment))
                    THEN "hash verified" ELSE "rejected"
    /\ UNCHANGED <<prover_vars, oracle, v, mac_verifier_key_share>>

\* Faulty variant of verify_signature: the result of the Ligero verifier is dropped.
verify_signature_dropped ==
    /\ pc = "hash verified"
    /\ pc' = "accepted"
    /\ UNCHANGED <<prover_vars, oracle, v, v_transcript, mac_verifier_key_share>>

\* Then on the signature circuit.
verify_signature ==
    /\ pc = "hash verified"
    /\ LET statement == SignatureStatement(v.key,
                             compute_session_transcript_hash(v.doc_type, v.name_spaces, v.transcript),
                             mac_verifier_key_share, proof.mac_tags)
           t == initialize_transcript(v_transcript, Circuits(v).signature, statement)
       IN  /\ v_transcript' = Append(t, <<"proof", "signature">>)
           /\ pc' = IF CircuitProofVerifies(proof.signature_proof, Circuits(v).signature, t,
                             proof.signature_commitment,
                             SignatureCircuitSatisfied(statement, proof.signature_commitment))
                    THEN "accepted" ELSE "rejected"
    /\ UNCHANGED <<prover_vars, oracle, v, mac_verifier_key_share>>

Next ==
    \/ new_inputs \/ commit \/ tag \/ prove_hash \/ prove_signature
    \/ verify_commitments \/ verify_hash \/ verify_signature

Spec == Init /\ [][Next]_vars

-----------------------------------------------------------------------------
(* Properties.                                                             *)

\* Completeness of prove_internal and verify_internal: what a holder shows is accepted.  Not
\* so of version 6 when a pseudonym was asked for: CircuitInputs::new looks the seed up in
\* its place but does not rename it, and the proof is of the attribute pseudonym_seed.
PresentationAccepted ==
    pc = "rejected" =>
        \/ v # Presentation
        \/ v.version = 6 /\ \E n \in DOMAIN call.ids : call.ids[n] = "pairwise_pseudonym"

\* A response of which everything the verifier gave is true.
Shows(d, a) ==
    /\ d.signer = a.key
    /\ d.valid_from <= a.time /\ a.time <= d.valid_until
    /\ d.device_signed = <<a.doc_type, a.name_spaces, a.transcript>>
    /\ \A n \in DOMAIN a.attributes :
         \E item \in ItemsOf(d) :
            /\ item.digest_matches
            /\ Discloses(a.attributes[n], item, a.context)

\* Soundness of verify_internal: it accepts only what is true of a credential, for the
\* verifier's own key, time, session and context.
AcceptedIsShown == pc = "accepted" => \E d \in Responses : Shows(d, v)

\* circuit_interface.md of version 8: pseudonym_seed itself is never disclosed.  Whatever
\* attributes were asked for, one in the statement is an item of that very name which is not
\* the seed's, or, as the pseudonym, the hash of the seed for the call's context.
SeedNotDisclosed ==
    pc \notin {"idle", "refused"} /\ prover.version = 8 =>
        \A n \in DOMAIN hash_input.public.attributes :
            LET attribute == hash_input.public.attributes[n]
            IN  /\ attribute.identifier # "pseudonym_seed"
                /\ \E item \in ItemsOf(mdoc) :
                     IF attribute.identifier = "pairwise_pseudonym"
                     THEN /\ item.id = "pseudonym_seed" /\ IsSeed(item.value)
                          /\ attribute.value = ppid(item.value, call.context)
                     ELSE attribute = [identifier |-> item.id, value |-> item.value]

\* What CircuitInputs::new cannot or does not see: a device key that is wrapped in a byte
\* string, and any pseudonym of version 7.  The attribute asked for is no seed, which is not
\* looked at; or it is one, prove_with_ppid_wasm gave a context and the statement has the
\* pseudonym, but the circuit compares it with the item.
Unseen ==
    \/ mdoc.key_wrapped
    \/ prover.version = 7 /\ \E n \in DOMAIN call.ids : call.ids[n] = "pairwise_pseudonym"

\* CircuitInputs::new refuses, before anything is committed to, all that the circuits would
\* but for these two, and no call with one of them makes a proof.
CheckedBeforeCommitment ==
    /\ pc = "refused late" => Unseen
    /\ pc \in {"tagged", "hash proved", "proved"} => ~Unseen
=============================================================================
