---------------------------- MODULE CircuitFile ----------------------------
(***************************************************************************)
(* Circuits as they are serialized (circuit.rs, with Size of lib.rs).  A   *)
(* file has the fields of the circuit, its wire indices being jumps from   *)
(* those of the quad before.  A file is written and read one quad to a     *)
(* step.  What is read may have been altered since it was written, and is  *)
(* read by a build that checks its arithmetic or by one that does not.     *)
(***************************************************************************)
EXTENDS Integers, Sequences, SequencesExt

CONSTANTS
    SizeLimit,     \* what does not fit the three bytes of a size
    WordLimit,     \* what does not fit 32 bits
    Written,       \* the circuits that are encoded
    Alterations    \* bound: the numbers that may stand in an altered file

ASSUME CircuitFileAssumption ==
    /\ SizeLimit \in Nat \ {0} /\ WordLimit \in Nat /\ SizeLimit < WordLimit
    /\ SizeLimit % 2 = 0
    /\ Alterations \subseteq 0..(SizeLimit - 1)

\* A quad's indices, and the fields of a layer and of a circuit.
Quads == [gate : Nat, left : Nat, right : Nat, const : Nat]
Layers == [logw : Nat, wires : Nat, quads : Seq(Quads)]
CircuitFields == {"version", "field", "outputs", "copies", "public", "boundary", "inputs",
                  "num_layers", "constants", "layers", "id"}

\* Circuits in memory, of which num_layers need not be the number of layers.
ASSUME WrittenAssumption ==
    \A c \in Written :
        /\ c = [k \in CircuitFields |-> c[k]]
        /\ {c.outputs, c.copies, c.public, c.boundary, c.inputs, c.num_layers} \subseteq Nat
        /\ c.layers \in Seq(Layers) /\ c.constants \in Seq(Nat)

VARIABLES
    step,               \* where the call is
    overflow_checks,    \* does this build check its arithmetic?
    job,                \* the call's arguments
    legacy,             \* the files written
    at,                 \* the file, the layer and the quad being written or read
    prev_quad,          \* the quad before it
    altered,            \* history: was a file altered?
    circuits            \* the circuits read

file_vars == <<step, overflow_checks, job, legacy, at, prev_quad, altered, circuits>>

Start == [file |-> 1, layer |-> 1, quad |-> 1]

DefaultQuad == [gate |-> 0, left |-> 0, right |-> 0, const |-> 0]

-----------------------------------------------------------------------------
(* Size.                                                                   *)

FitsSize(n) == n < SizeLimit

\* Faulty variant of EncodedDelta: the sign is not written.
EncodedDelta_unsigned(v, previous) == 2 * (IF v >= previous THEN v - previous ELSE previous - v)

\* Twice the jump, plus one if it is backwards.
EncodedDelta(v, previous) ==
    IF v >= previous THEN 2 * (v - previous) ELSE 2 * (previous - v) + 1

\* The index that an encoded jump leads to, which a word may be too narrow for.
decode_delta(previous, encoded) ==
    IF encoded % 2 = 1 THEN previous - encoded \div 2 ELSE previous + encoded \div 2

InWord(n) == 0 <= n /\ n < WordLimit

\* The sum of the first n numbers of s.
SumTo(s, n) == LET sum[k \in 0..n] == IF k = 0 THEN 0 ELSE sum[k - 1] + s[k] IN sum[n]

-----------------------------------------------------------------------------
(* Circuit::encode, CircuitLayer::encode and Quad::encode_with_param.      *)

HeaderNumbers(c) ==
    {c.outputs, c.copies, c.public, c.boundary, c.inputs, c.num_layers, Len(c.constants)}

\* Starts a layer; the jumps of its first quad are from zero.
NextLayer == [at EXCEPT !.layer = @ + 1, !.quad = 1]

encode_header ==
    /\ step = "encode"
    /\ IF /\ \A n \in HeaderNumbers(job.circuit) : FitsSize(n)
          /\ job.circuit.num_layers = Len(job.circuit.layers)
       THEN /\ legacy' = << [job.circuit EXCEPT !.layers = <<>>] >>
            /\ step' = "encode layer"
       ELSE step' = "encode error" /\ UNCHANGED legacy
    /\ UNCHANGED <<overflow_checks, job, at, prev_quad, altered, circuits>>

encode_layer ==
    /\ step = "encode layer" /\ at.layer <= Len(job.circuit.layers)
    /\ LET layer == job.circuit.layers[at.layer]
       IN  IF FitsSize(layer.logw) /\ FitsSize(layer.wires) /\ FitsSize(Len(layer.quads))
           THEN /\ legacy' = [legacy EXCEPT ![1].layers = Append(@, [layer EXCEPT !.quads = <<>>])]
                /\ step' = "encode quad"
           ELSE step' = "encode error" /\ UNCHANGED legacy
    /\ prev_quad' = DefaultQuad
    /\ UNCHANGED <<overflow_checks, job, at, altered, circuits>>

QuadAgainst(quad, previous) ==
    [gate |-> EncodedDelta(quad.gate, previous.gate), left |-> EncodedDelta(quad.left, previous.left),
     right |-> EncodedDelta(quad.right, previous.right), const |-> quad.const]

\* The quad as it stands in the file behind the one before it, and whether it can.
Encoded(quad) == QuadAgainst(quad, prev_quad)
QuadFits(quad) == \A k \in DOMAIN quad : InWord(quad[k]) /\ FitsSize(Encoded(quad)[k])

\* One quad more in the layer being written to file n.
WithQuad(n, quad) == [legacy EXCEPT ![n].layers[at.layer].quads = Append(@, Encoded(quad))]

encode_quad ==
    /\ step = "encode quad" /\ at.quad <= Len(job.circuit.layers[at.layer].quads)
    /\ LET quad == job.circuit.layers[at.layer].quads[at.quad]
       IN  IF QuadFits(quad)
           THEN /\ legacy' = WithQuad(1, quad)
                /\ prev_quad' = quad
                /\ at' = [at EXCEPT !.quad = @ + 1]
                /\ UNCHANGED step
           ELSE step' = "encode error" /\ UNCHANGED <<legacy, prev_quad, at>>
    /\ UNCHANGED <<overflow_checks, job, altered, circuits>>

encode_layer_ends ==
    /\ step = "encode quad" /\ at.quad > Len(job.circuit.layers[at.layer].quads)
    /\ at' = NextLayer
    /\ step' = "encode layer"
    /\ UNCHANGED <<overflow_checks, job, legacy, prev_quad, altered, circuits>>

\* The id is written last; then the file is read by somebody.
encode_id ==
    /\ step = "encode layer" /\ at.layer > Len(job.circuit.layers)
    /\ at' = Start
    /\ step' = "decode"
    /\ UNCHANGED <<overflow_checks, job, legacy, prev_quad, altered, circuits>>

\* One number of a quad is altered in the file.
alter ==
    /\ step = "decode" /\ job.call = "encode" /\ ~altered /\ circuits = <<>>
    /\ \E k \in DOMAIN legacy[1].layers, number \in DOMAIN DefaultQuad, n \in Alterations :
         /\ legacy[1].layers[k].quads # <<>>
         /\ \E q \in DOMAIN legacy[1].layers[k].quads :
              /\ legacy[1].layers[k].quads[q][number] # n
              /\ legacy' = [legacy EXCEPT ![1].layers[k].quads[q][number] = n]
    /\ altered' = TRUE
    /\ UNCHANGED <<step, overflow_checks, job, at, prev_quad, circuits>>

-----------------------------------------------------------------------------
(* Circuit::decode, CircuitLayer::decode and Quad::decode_with_param, of   *)
(* the next file.                                                          *)

\* FE::FIELD_ID of the circuit that the caller expects.
Expected ==
    IF job.call = "encode" THEN job.circuit.field ELSE IF at.file = 1 THEN "P256" ELSE "GF2_128"

decode_header ==
    /\ step = "decode" /\ at.file <= Len(legacy)
    /\ IF legacy[at.file].field = Expected
       THEN /\ circuits' = Append(circuits, [legacy[at.file] EXCEPT !.layers = <<>>])
            /\ step' = "decode layer"
       ELSE step' = "decode error" /\ UNCHANGED circuits
    /\ UNCHANGED <<overflow_checks, job, legacy, at, prev_quad, altered>>

decode_layer ==
    /\ step = "decode layer" /\ at.layer <= legacy[at.file].num_layers
    /\ circuits' = [circuits EXCEPT ![at.file].layers =
                        Append(@, [legacy[at.file].layers[at.layer] EXCEPT !.quads = <<>>])]
    /\ prev_quad' = DefaultQuad
    /\ step' = "decode quad"
    /\ UNCHANGED <<overflow_checks, job, legacy, at, altered>>

\* Faulty variant of DecodedQuad: the indices are relative to the previous gate's only.
DecodedQuad_from_gate(quad) ==
    [gate |-> decode_delta(prev_quad.gate, quad.gate), left |-> decode_delta(prev_quad.gate, quad.left),
     right |-> decode_delta(prev_quad.right, quad.right), const |-> quad.const]

DecodedQuad(quad) ==
    [gate |-> decode_delta(prev_quad.gate, quad.gate), left |-> decode_delta(prev_quad.left, quad.left),
     right |-> decode_delta(prev_quad.right, quad.right), const |-> quad.const]

\* An index outside a word stops a build that checks, and wraps around in another.
decode_quad ==
    /\ step = "decode quad" /\ at.quad <= Len(legacy[at.file].layers[at.layer].quads)
    /\ LET quad == DecodedQuad(legacy[at.file].layers[at.layer].quads[at.quad])
           word == [k \in DOMAIN quad |-> quad[k] % WordLimit]
       IN  IF overflow_checks /\ quad # word
           THEN step' = "panic" /\ UNCHANGED <<at, prev_quad, circuits>>
           ELSE /\ circuits' = [circuits EXCEPT ![at.file].layers[at.layer].quads = Append(@, word)]
                /\ prev_quad' = word
                /\ at' = [at EXCEPT !.quad = @ + 1]
                /\ UNCHANGED step
    /\ UNCHANGED <<overflow_checks, job, legacy, altered>>

decode_layer_ends ==
    /\ step = "decode quad" /\ at.quad > Len(legacy[at.file].layers[at.layer].quads)
    /\ at' = NextLayer
    /\ step' = "decode layer"
    /\ UNCHANGED <<overflow_checks, job, legacy, prev_quad, altered, circuits>>

\* The id is read as it is stored: it "is fairly expensive" to compute.
decode_id ==
    /\ step = "decode layer" /\ at.layer > legacy[at.file].num_layers
    /\ at' = [Start EXCEPT !.file = at.file + 1]
    /\ step' = IF at.file = Len(legacy) THEN "decoded" ELSE "decode"
    /\ UNCHANGED <<overflow_checks, job, legacy, prev_quad, altered, circuits>>

FileNext ==
    \/ encode_header \/ encode_layer \/ encode_quad \/ encode_layer_ends \/ encode_id \/ alter
    \/ decode_header \/ decode_layer \/ decode_quad \/ decode_layer_ends \/ decode_id

-----------------------------------------------------------------------------
(* Circuit::circuit_id: the digest of what the circuit computes, in which  *)
(* a constant stands for the index it has in the table.                    *)

HasConstants(c) ==
    \A k \in DOMAIN c.layers :
        \A q \in DOMAIN c.layers[k].quads : c.layers[k].quads[q].const < Len(c.constants)

circuit_id(c) ==
    [field |-> c.field, outputs |-> c.outputs, copies |-> c.copies, num_layers |-> c.num_layers,
     inputs |-> c.inputs, public |-> c.public, boundary |-> c.boundary,
     layers |-> [k \in DOMAIN c.layers |->
        [wires |-> c.layers[k].wires, logw |-> c.layers[k].logw,
         quads |-> [q \in DOMAIN c.layers[k].quads |->
            LET quad == c.layers[k].quads[q]
            IN  <<quad.gate, quad.left, quad.right, c.constants[quad.const + 1]>>]]]]

-----------------------------------------------------------------------------
(* Properties.                                                             *)

\* The indices that the jumps of a layer lead to, over the integers.
IndicesOf(quads) ==
    LET Jump(n) == IF n % 2 = 1 THEN -(n \div 2) ELSE n \div 2
    IN  [q \in DOMAIN quads |-> [k \in DOMAIN DefaultQuad |->
            IF k = "const" THEN quads[q].const
            ELSE SumTo([n \in DOMAIN quads |-> Jump(quads[n][k])], q)]]

\* What Circuit::encode writes Circuit::decode reads back, in every build; encode fails just
\* for a circuit with a size of 2^24 or more, an index of 2^32 or more or a jump of 2^23 or
\* more, and not with another's indices.  Of an altered file a build that checks reads the indices
\* that the jumps lead to or panics where they leave a word, another wraps them around.
CircuitRoundTrip ==
    /\ step = "decoded" /\ job.call = "encode" /\ ~altered => circuits = <<job.circuit>>
    /\ step = "panic" /\ job.call = "encode" => altered /\ overflow_checks
    /\ step = "decoded" =>
          \A n \in DOMAIN circuits : \A k \in DOMAIN circuits[n].layers :
              LET quads == circuits[n].layers[k].quads
                  indices == IndicesOf(legacy[n].layers[k].quads)
              IN  \A q \in DOMAIN quads : \A i \in DOMAIN DefaultQuad :
                      /\ quads[q][i] % WordLimit = indices[q][i] % WordLimit
                      /\ overflow_checks => quads[q][i] = indices[q][i]
    /\ step = "encode error" <=>
          /\ job.call = "encode" /\ step \notin {"encode", "encode layer", "encode quad"}
          /\ \/ job.circuit.num_layers # Len(job.circuit.layers)
             \/ \E n \in HeaderNumbers(job.circuit) : n >= SizeLimit
             \/ \E k \in DOMAIN job.circuit.layers :
                   LET layer == job.circuit.layers[k]
                       Before(q, i) == IF q = 1 THEN 0 ELSE layer.quads[q - 1][i]
                   IN  \/ layer.logw >= SizeLimit \/ layer.wires >= SizeLimit
                       \/ Len(layer.quads) >= SizeLimit
                       \/ \E q \in DOMAIN layer.quads :
                             \/ layer.quads[q].const >= SizeLimit
                             \/ \E i \in DOMAIN DefaultQuad : layer.quads[q][i] >= WordLimit
                             \/ \E i \in {"gate", "left", "right"} :
                                   LET jump == layer.quads[q][i] - Before(q, i)
                                   IN  2 * jump >= SizeLimit \/ -2 * jump >= SizeLimit
=============================================================================
