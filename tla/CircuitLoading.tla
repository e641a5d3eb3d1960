-------------------------- MODULE CircuitLoading --------------------------
(***************************************************************************)
(* How NymAuthProver and NymAuthVerifier come by their circuits            *)
(* (nymauth/mod.rs, profile.rs and lfc2.rs): the artifact is authenticated *)
(* against the entry of a table, converted from the LFC2 form of a pair of *)
(* circuits to files that CircuitFile decodes, and compared with what the  *)
(* caller's descriptor says of it.                                         *)
(*                                                                         *)
(* In LFC2 a layer has a dictionary of relative quads, segments of indices *)
(* into it, and tokens, each of which stands for a segment.                *)
(***************************************************************************)
EXTENDS CircuitFile

CONSTANTS
    Loads,             \* the calls of load: records of call, entry, params and artifact
    MAX_WIRES, MAX_LAYERS, MAX_CONSTANTS, MAX_DELTAS,
    MAX_TERMS,         \* the terms for which MAX_OUT_BYTES is enough
    LIGERO_RATE_INV, LIGERO_NREQ,
    StatementInputs,   \* one, the issuer's key and the challenge in the signature circuit
    MacInputs,         \* its inputs for the share and the tags
    PrivateInputs      \* its inputs for key shares, messages and traces

\* What the file format can hold: the numbers of a dictionary are of at most four bytes, of
\* seven bits each.
Deltas == [gate : 0..(WordLimit - 1), left : 0..(WordLimit - 1), right : 0..(WordLimit - 1),
           const : Nat]
Lfc2Layers == [logw : Nat, wires : Nat, deltas : Seq(Deltas), segments : Seq(Seq(Nat)),
               tokens : Seq(Nat)]
Runs == [slot : Nat, from : Nat, len : Nat]

Descriptors == {"hash_circuit_id", "sig_circuit_id", "block_enc_hash", "block_enc_sig"}

\* The limits fit a size, MAX_OUT_BYTES allowing for fewer terms than 2^24; the rest are the
\* types of what is read.
ASSUME LoadsAssumption ==
    /\ {63, MAX_WIRES, MAX_LAYERS, MAX_CONSTANTS, MAX_TERMS} \subseteq 0..(SizeLimit - 1)
    /\ MAX_DELTAS \in Nat
    /\ \A load \in Loads :
          /\ load.call = "load" /\ DOMAIN load.params = Descriptors
          /\ load.entry.runs \in Seq(Runs)
          /\ {load.entry.hash_ninputs, load.entry.hash_npub} \subseteq Nat
          /\ LET circuits_of == load.artifact.circuits
             IN  /\ Len(circuits_of) \in Nat /\ DOMAIN circuits_of = 1..Len(circuits_of)
                 /\ \A n \in DOMAIN circuits_of :
                       LET c == circuits_of[n]
                       IN  /\ {c.outputs, c.copies, c.public, c.boundary, c.inputs} \subseteq Nat
                           /\ c.layers \in Seq(Lfc2Layers) /\ c.constants \in Seq(Nat)

VARIABLE total_terms   \* the terms of the circuit being converted

loading_vars == <<file_vars, total_terms>>

LoadingInit ==
    /\ overflow_checks \in BOOLEAN
    /\ \/ step = "encode" /\ job \in [call : {"encode"}, circuit : Written]
       \/ step = "load" /\ job \in Loads
    /\ legacy = <<>> /\ at = Start /\ prev_quad = DefaultQuad /\ altered = FALSE
    /\ circuits = <<>> /\ total_terms = 0

-----------------------------------------------------------------------------
(* The table of profiles.                                                  *)

\* The positions that the runs of a slot map read or write, in their order.
SemanticBits(runs) == FlattenSeq([k \in DOMAIN runs |-> [n \in 1..runs[k].len |-> runs[k].from + n - 1]])
Slots(runs) == FlattenSeq([k \in DOMAIN runs |-> [n \in 1..runs[k].len |-> runs[k].slot + n - 1]])

\* Faulty variant of build: the semantic bits are not looked at.
build_slots_only(entry) ==
    /\ IsInjective(Slots(entry.runs))
    /\ ToSet(Slots(entry.runs)) = entry.hash_npub..(entry.hash_ninputs - 7)

\* Both are tiled, each once: all semantic bits, and the private inputs but the six key shares.
build(entry) ==
    /\ IsInjective(SemanticBits(entry.runs))
    /\ \A bit \in ToSet(SemanticBits(entry.runs)) : bit < Len(SemanticBits(entry.runs))
    /\ IsInjective(Slots(entry.runs))
    /\ ToSet(Slots(entry.runs)) = entry.hash_npub..(entry.hash_ninputs - 7)

check_layout(entry) ==
    /\ entry.sig_npub - MacInputs >= StatementInputs
    /\ entry.sig_ninputs >= entry.sig_npub + PrivateInputs
    /\ entry.hash_npub >= 10 /\ entry.hash_ninputs >= entry.hash_npub + 6

\* The descriptor names an entry, which is well formed, and agrees with it.
for_hash_circuit ==
    /\ step = "load"
    /\ step' = IF /\ job.params.hash_circuit_id = job.entry.hash_circuit_id
                  /\ build(job.entry) /\ check_layout(job.entry)
                  /\ job.params.sig_circuit_id = job.entry.sig_circuit_id
                  /\ job.params.block_enc_hash = job.entry.block_enc_hash
                  /\ job.params.block_enc_sig = job.entry.block_enc_sig
               THEN "profile" ELSE "refused"
    /\ UNCHANGED <<overflow_checks, job, legacy, at, prev_quad, altered, circuits, total_terms>>

\* Its length and SHA-256 say which artifact it is.
authenticate ==
    /\ step = "profile"
    /\ step' = IF job.artifact = job.entry.artifact THEN "convert" ELSE "refused"
    /\ UNCHANGED <<overflow_checks, job, legacy, at, prev_quad, altered, circuits, total_terms>>

-----------------------------------------------------------------------------
(* lfc2::one, for the next of two circuits.                                *)

FieldIds == {"P256", "GF2_128"}

Source == job.artifact.circuits[at.file]

convert_header ==
    /\ step = "convert" /\ at.file <= 2
    /\ IF /\ at.file <= Len(job.artifact.circuits)
          /\ Source.header = "LFC2" /\ Source.field \in FieldIds
          /\ Source.copies = 1 /\ Source.public <= Source.inputs
          /\ \A n \in {Source.outputs, Source.public, Source.boundary, Source.inputs} : n <= MAX_WIRES
          /\ Len(Source.layers) <= MAX_LAYERS /\ Len(Source.constants) <= MAX_CONSTANTS
       THEN /\ legacy' = Append(legacy,
                 [version |-> 1, field |-> Source.field, outputs |-> Source.outputs, copies |-> 1,
                  public |-> Source.public, boundary |-> Source.boundary,
                  inputs |-> Source.inputs, num_layers |-> Len(Source.layers),
                  constants |-> Source.constants, layers |-> <<>>, id |-> Source.id])
            /\ step' = "convert layer"
       ELSE step' = "refused" /\ UNCHANGED legacy
    /\ UNCHANGED <<overflow_checks, job, at, prev_quad, altered, circuits, total_terms>>

\* The terms of a layer: for each token its segment, as indices into the dictionary.
Terms(layer) == FlattenSeq([t \in DOMAIN layer.tokens |-> layer.segments[layer.tokens[t] + 1]])

\* What is checked of a layer before any of its terms is expanded.
LayerFits(layer) ==
    /\ layer.logw <= 63 /\ layer.wires <= MAX_WIRES /\ Len(layer.deltas) <= MAX_DELTAS
    /\ \A d \in DOMAIN layer.deltas : layer.deltas[d].const < Len(Source.constants)
    /\ \A s \in DOMAIN layer.segments : \A n \in DOMAIN layer.segments[s] :
          layer.segments[s][n] < Len(layer.deltas)
    /\ \A t \in DOMAIN layer.tokens : layer.tokens[t] < Len(layer.segments)
    /\ total_terms + Len(Terms(layer)) <= MAX_TERMS

convert_layer ==
    /\ step = "convert layer" /\ at.layer <= Len(Source.layers)
    /\ LET layer == Source.layers[at.layer]
       IN  IF LayerFits(layer)
           THEN /\ legacy' = [legacy EXCEPT ![at.file].layers =
                                 Append(@, [logw |-> layer.logw, wires |-> layer.wires, quads |-> <<>>])]
                /\ total_terms' = total_terms + Len(Terms(layer))
                /\ step' = "convert term"
           ELSE step' = "refused" /\ UNCHANGED <<legacy, total_terms>>
    /\ prev_quad' = DefaultQuad
    /\ UNCHANGED <<overflow_checks, job, at, altered, circuits>>

\* A jump as a word: the number of the dictionary with the sign in its lowest bit.
unzigzag(v) == IF v % 2 = 0 THEN v \div 2 ELSE WordLimit - 1 - v \div 2

\* The quad that the next term leads to, with additions that wrap around.
Expanded(delta) ==
    [gate |-> (prev_quad.gate + unzigzag(delta.gate)) % WordLimit,
     left |-> (prev_quad.left + unzigzag(delta.left)) % WordLimit,
     right |-> (prev_quad.right + unzigzag(delta.right)) % WordLimit, const |-> delta.const]

\* Faulty variant of convert_term: what does not fit three bytes loses its upper ones.
convert_term_truncated ==
    /\ step = "convert term" /\ at.quad <= Len(Terms(Source.layers[at.layer]))
    /\ LET layer == Source.layers[at.layer]
           quad == Expanded(layer.deltas[Terms(layer)[at.quad] + 1])
       IN  /\ legacy' = [legacy EXCEPT ![at.file].layers[at.layer].quads =
                            Append(@, [k \in DOMAIN quad |-> Encoded(quad)[k] % SizeLimit])]
           /\ prev_quad' = quad
           /\ at' = [at EXCEPT !.quad = @ + 1]
           /\ UNCHANGED step
    /\ UNCHANGED <<overflow_checks, job, altered, circuits, total_terms>>

convert_term ==
    /\ step = "convert term" /\ at.quad <= Len(Terms(Source.layers[at.layer]))
    /\ LET layer == Source.layers[at.layer]
           quad == Expanded(layer.deltas[Terms(layer)[at.quad] + 1])
       IN  IF QuadFits(quad)
           THEN /\ legacy' = WithQuad(at.file, quad)
                /\ prev_quad' = quad
                /\ at' = [at EXCEPT !.quad = @ + 1]
                /\ UNCHANGED step
           ELSE step' = "refused" /\ UNCHANGED <<legacy, prev_quad, at>>
    /\ UNCHANGED <<overflow_checks, job, altered, circuits, total_terms>>

convert_layer_ends ==
    /\ step = "convert term" /\ at.quad > Len(Terms(Source.layers[at.layer]))
    /\ at' = NextLayer
    /\ step' = "convert layer"
    /\ UNCHANGED <<overflow_checks, job, legacy, prev_quad, altered, circuits, total_terms>>

\* The id ends a circuit and is carried over.
convert_id ==
    /\ step = "convert layer" /\ at.layer > Len(Source.layers)
    /\ at' = [Start EXCEPT !.file = at.file + 1]
    /\ step' = "convert"
    /\ total_terms' = 0
    /\ UNCHANGED <<overflow_checks, job, legacy, prev_quad, altered, circuits>>

QuadsOf(file) ==
    SumTo([k \in DOMAIN file.layers |-> Len(file.layers[k].quads)], Len(file.layers))

\* to_legacy_pair: exactly two circuits, which together keep to the limit.
to_legacy_pair ==
    /\ step = "convert" /\ at.file = 3
    /\ IF /\ job.artifact.rest = 0 /\ Len(job.artifact.circuits) = 2
          /\ QuadsOf(legacy[1]) + QuadsOf(legacy[2]) <= MAX_TERMS
       THEN step' = "decode" /\ at' = Start
       ELSE step' = "refused" /\ UNCHANGED at
    /\ UNCHANGED <<overflow_checks, job, legacy, prev_quad, altered, circuits, total_terms>>

-----------------------------------------------------------------------------
(* decode_pair, once both files are decoded.                               *)

ligero_parameters_exist(block_enc) ==
    /\ block_enc <= 2^22
    /\ (block_enc + 1) \div (2 + LIGERO_RATE_INV) > LIGERO_NREQ

\* Faulty variant of SameIds: the stored ids are compared, and never computed.
SameIds_stored(sig, hash) ==
    sig.id = job.params.sig_circuit_id /\ hash.id = job.params.hash_circuit_id

\* The ids that the transcripts bind are those computed from what was decoded.
SameIds(sig, hash) ==
    /\ HasConstants(sig) /\ HasConstants(hash)
    /\ sig.id = circuit_id(sig) /\ hash.id = circuit_id(hash)
    /\ circuit_id(sig) = job.params.sig_circuit_id /\ circuit_id(hash) = job.params.hash_circuit_id

decode_pair ==
    /\ step = "decoded" /\ job.call = "load"
    /\ step' = IF /\ SameIds(circuits[1], circuits[2])
                  /\ circuits[1].inputs = job.entry.sig_ninputs
                  /\ circuits[1].public = job.entry.sig_npub
                  /\ circuits[2].inputs = job.entry.hash_ninputs
                  /\ circuits[2].public = job.entry.hash_npub
                  /\ ligero_parameters_exist(job.entry.block_enc_hash)
                  /\ ligero_parameters_exist(job.entry.block_enc_sig)
               THEN "loaded" ELSE "refused"
    /\ UNCHANGED <<overflow_checks, job, legacy, at, prev_quad, altered, circuits, total_terms>>

LoadingNext ==
    \/ FileNext /\ UNCHANGED total_terms
    \/ for_hash_circuit \/ authenticate \/ convert_header \/ convert_layer \/ convert_term
    \/ convert_layer_ends \/ convert_id \/ to_legacy_pair \/ decode_pair

LoadingSpec == LoadingInit /\ [][LoadingNext]_loading_vars

-----------------------------------------------------------------------------
(* Properties.                                                             *)

\* The jump that a number of a dictionary stands for.
Signed(v) == IF v % 2 = 0 THEN v \div 2 ELSE -(v \div 2) - 1

\* The indices of the terms of a layer, over the integers.
IndicesIn(layer) ==
    LET delta == [t \in DOMAIN Terms(layer) |-> layer.deltas[Terms(layer)[t] + 1]]
    IN  [n \in DOMAIN delta |-> [k \in {"gate", "left", "right"} |->
            SumTo([t \in DOMAIN delta |-> Signed(delta[t][k])], n)]]

\* What an LFC2 circuit computes, of which its id is the digest.
Meaning(c) ==
    [field |-> c.field, outputs |-> c.outputs, copies |-> c.copies, num_layers |-> Len(c.layers),
     inputs |-> c.inputs, public |-> c.public, boundary |-> c.boundary,
     layers |-> [k \in DOMAIN c.layers |->
        LET layer == c.layers[k]
            indices == IndicesIn(layer)
        IN  [wires |-> layer.wires, logw |-> layer.logw,
             quads |-> [n \in DOMAIN indices |->
                <<indices[n].gate, indices[n].left, indices[n].right,
                  c.constants[layer.deltas[Terms(layer)[n] + 1].const + 1]>>]]]]

\* What the dictionary, the segments and the tokens of a layer refer to exists.
RefersToWhatExists(c, layer) ==
    /\ \A d \in DOMAIN layer.deltas : layer.deltas[d].const + 1 \in DOMAIN c.constants
    /\ \A s \in DOMAIN layer.segments : \A d \in ToSet(layer.segments[s]) : d + 1 \in DOMAIN layer.deltas
    /\ \A t \in ToSet(layer.tokens) : t + 1 \in DOMAIN layer.segments

\* A circuit that has a form in three-byte sizes: no term leads below zero or out of a word,
\* and no jump is too long.
Expressible(c) ==
    /\ c.header = "LFC2" /\ c.copies = 1 /\ c.public <= c.inputs
    /\ \A n \in {c.outputs, c.boundary, c.inputs} : n <= MAX_WIRES
    /\ Len(c.layers) <= MAX_LAYERS /\ Len(c.constants) <= MAX_CONSTANTS
    /\ \A k \in DOMAIN c.layers :
          LET layer == c.layers[k]
          IN  /\ layer.logw <= 63 /\ layer.wires <= MAX_WIRES /\ Len(layer.deltas) <= MAX_DELTAS
              /\ RefersToWhatExists(c, layer)
              /\ \A n \in DOMAIN Terms(layer) : \A i \in {"gate", "left", "right"} :
                    /\ IndicesIn(layer)[n][i] \in 0..(WordLimit - 1)
                    /\ Signed(layer.deltas[Terms(layer)[n] + 1][i])
                         \in (1 - SizeLimit \div 2)..(SizeLimit \div 2 - 1)

TermsOf(c) == SumTo([k \in DOMAIN c.layers |-> Len(Terms(c.layers[k]))], Len(c.layers))

\* lfc2.rs and Circuit::decode of its output: the circuits decoded are those that the
\* artifact describes, term by term, and no build panics on the way, however far the jumps
\* of the dictionary lead.
ConversionIsExact ==
    job.call = "load" =>
        /\ step # "panic"
        /\ step \in {"decoded", "loaded"} =>
              \A n \in 1..2 : /\ circuit_id(circuits[n]) = Meaning(job.artifact.circuits[n])
                              /\ circuits[n].id = job.artifact.circuits[n].id

\* The bit that the witness builder reads for each private slot, and all of them.
EverySlotHasItsBit(entry) ==
    LET Places == {<<k, n>> : k \in DOMAIN entry.runs, n \in 0..entry.hash_ninputs}
        Used == {p \in Places : p[2] < entry.runs[p[1]].len}
        Private == entry.hash_npub..(entry.hash_ninputs - 7)
    IN  /\ \A p \in Used : entry.runs[p[1]].slot + p[2] \in Private
        /\ \A slot \in Private : \E p \in Used :
              {q \in Used : entry.runs[q[1]].slot + q[2] = slot} = {p}
        /\ \A bit \in 0..(Cardinality(Used) - 1) : \E p \in Used :
              {q \in Used : entry.runs[q[1]].from + q[2] = bit} = {p}

\* What a caller may rely on when load returns: the descriptor is that of a usable entry,
\* the artifact is the entry's, both of its circuits can be expressed, have the ids and the
\* numbers of inputs of the entry, and the ids are those of what they compute.
Described(entry, params, artifact) ==
    /\ \A k \in DOMAIN params : params[k] = entry[k]
    /\ EverySlotHasItsBit(entry) /\ check_layout(entry)
    /\ artifact = entry.artifact /\ artifact.rest = 0 /\ Len(artifact.circuits) = 2
    /\ LET sig == artifact.circuits[1]
           hash == artifact.circuits[2]
       IN  /\ sig.field = "P256" /\ hash.field = "GF2_128"
           /\ Expressible(sig) /\ Expressible(hash)
           /\ TermsOf(sig) + TermsOf(hash) <= MAX_TERMS
           /\ sig.id = Meaning(sig) /\ sig.id = params.sig_circuit_id
           /\ hash.id = Meaning(hash) /\ hash.id = params.hash_circuit_id
           /\ <<sig.inputs, sig.public>> = <<entry.sig_ninputs, entry.sig_npub>>
           /\ <<hash.inputs, hash.public>> = <<entry.hash_ninputs, entry.hash_npub>>
    /\ ligero_parameters_exist(params.block_enc_hash)
    /\ ligero_parameters_exist(params.block_enc_sig)

\* load: "Everything trusted about a circuit comes from the allowlisted profile": what is
\* loaded is described, what is refused is not, and nothing of an artifact is converted
\* before it is known to be the entry's.
LoadedIsDescribed ==
    job.call = "load" =>
        /\ step = "loaded" => Described(job.entry, job.params, job.artifact)
        /\ step \in {"refused", "decode error"} => ~Described(job.entry, job.params, job.artifact)
        /\ legacy # <<>> => job.artifact = job.entry.artifact
=============================================================================
