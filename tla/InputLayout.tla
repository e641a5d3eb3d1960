----------------------------- MODULE InputLayout -----------------------------
(***************************************************************************)
(* The four vectors of wires of mdoc_zk: the statement and the whole input *)
(* of each circuit (src/src/mdoc_zk/layout.rs), and how CircuitInputs::new *)
(* with update_macs, and CircuitStatements::new, fill them.                *)
(*                                                                         *)
(* A vector of zeros as long as a formula says is cut into slots, which    *)
(* panics unless the slots are as long together; then each slot is written *)
(* by an encoder, of which some cut off what is too long, leave out what   *)
(* is too short, refuse or assert.  A wire is here its slot; a content is  *)
(* its length in bytes.                                                    *)
(***************************************************************************)
LOCAL INSTANCE Integers
LOCAL INSTANCE SequencesExt
LOCAL INSTANCE FiniteSetsExt

CONSTANT
    ContentLengths   \* lengths in bytes: identifier, value, item, credential, offset

VARIABLES
    filling,         \* what happens to the vector
    layout,          \* the InputLayout: version and attributes
    vector,          \* which of the four vectors
    lengths,         \* how long the contents are
    left,            \* wires of the vector that no slot has yet
    slots,           \* slots to be cut off
    todo,            \* what is to be written: sets of names of slots
    filled           \* by slot, how many wires have been written

layout_vars == <<filling, layout, vector, lengths, left, slots, todo, filled>>

LOCAL Vectors == {"signature_statement", "signature_input", "hash_statement", "hash_input"}

-----------------------------------------------------------------------------
(* Lengths, by the formulas.                                               *)

CBOR_OFFSET_BITS == 12
SHA_256_CREDENTIAL_KNOWN_PREFIX_BYTES == 18

sha_256_max_blocks == IF layout.version = 6 THEN 35 ELSE 40

\* The slots of a Sha256BlockWitness, 4 bits of a word in each wire, and their words.
BlockWitness == [message_schedule |-> (48 * 32) \div 4, state_e_a |-> (64 * 2 * 32) \div 4,
                 intermediate_hash_value |-> (8 * 32) \div 4]
BlockWords == [message_schedule |-> 48, state_e_a |-> 2 * 64, intermediate_hash_value |-> 8]

sha_256_witness_wires(max_blocks) ==
    max_blocks * ((48 * 32) \div 4 + (64 * 2 * 32) \div 4 + (8 * 32) \div 4)

sha_256_input_wires(max_blocks) ==
    (max_blocks * 64 - SHA_256_CREDENTIAL_KNOWN_PREFIX_BYTES) * 8

EcdsaWitnessLENGTH == 5 + 8 + 256 + 255 * 3
AttributeInputLENGTH == IF layout.version = 6 THEN 96 * 8 + 8 ELSE 32 * 8 + 64 * 8 + 8 + 8
AttributeWitnessLENGTH ==
    2 * 64 * 8 + sha_256_witness_wires(2) + 5 * CBOR_OFFSET_BITS
      + IF layout.version = 6 THEN 0 ELSE 7 * CBOR_OFFSET_BITS + 4 * 2

signature_statement_length == 1 + 2 + 1 + 3 * 2 * 128 + 128

signature_input_length ==
    signature_statement_length + 1 + 2 + 2 * EcdsaWitnessLENGTH + 3 * ((256 * 2) \div 2)

hash_statement_length ==
    1 + layout.attributes * AttributeInputLENGTH + 20 * 8
      + (IF layout.version = 8 THEN 32 * 8 ELSE 0) + 3 * 2 + 1

\* Faulty variant of hash_input_length: the number of blocks is not counted.
hash_input_length_uncounted ==
    hash_statement_length + 256 + 2 * 256
      + sha_256_input_wires(sha_256_max_blocks) + sha_256_witness_wires(sha_256_max_blocks)
      + 4 * CBOR_OFFSET_BITS + layout.attributes * AttributeWitnessLENGTH
      + (IF layout.version = 8 THEN 32 * 8 + sha_256_witness_wires(2) ELSE 0) + 3 * 2

hash_input_length ==
    hash_statement_length + 256 + 2 * 256 + 8
      + sha_256_input_wires(sha_256_max_blocks) + sha_256_witness_wires(sha_256_max_blocks)
      + 4 * CBOR_OFFSET_BITS + layout.attributes * AttributeWitnessLENGTH
      + (IF layout.version = 8 THEN 32 * 8 + sha_256_witness_wires(2) ELSE 0) + 3 * 2

-----------------------------------------------------------------------------
(* Slots, in the order in which they are cut off; of: the attribute, or    *)
(* the signature, that a slot is for.                                      *)

Slot(name, width) == <<[name |-> name, of |-> 0, width |-> width]>>

LOCAL Each(n, Part(_)) ==
    FlattenSeq([a \in 1..n |-> [s \in DOMAIN Part(a) |-> [Part(a)[s] EXCEPT !.of = a]]])

split_signature_statement ==
    Slot("implicit_one", 1) \o Slot("issuer_public_key_x", 1) \o Slot("issuer_public_key_y", 1)
      \o Slot("e_session_transcript", 1) \o Slot("mac_tags", 3 * 2 * 128)
      \o Slot("mac_verifier_key_share", 128)

EcdsaWitness ==
    Slot("r_x", 1) \o Slot("r_y", 1) \o Slot("r_x_inverse", 1) \o Slot("neg_s_inverse", 1)
      \o Slot("q_x_inverse", 1) \o Slot("sum_g_q", 2) \o Slot("sum_g_r", 2)
      \o Slot("sum_q_r", 2) \o Slot("sum_g_q_r", 2) \o Slot("msm_witnesses", 256 + 255 * 3)

split_signature_input ==
    split_signature_statement
      \o Slot("e_credential", 1) \o Slot("device_public_key_x", 1) \o Slot("device_public_key_y", 1)
      \o Each(2, LAMBDA a : EcdsaWitness) \o Slot("mac_witnesses", 3 * ((256 * 2) \div 2))

AttributeInput ==
    IF layout.version = 6
    THEN Slot("cbor_data", 96 * 8) \o Slot("cbor_length", 8)
    ELSE Slot("cbor_identifier", 32 * 8) \o Slot("cbor_value", 64 * 8)
           \o Slot("id_length", 8) \o Slot("value_length", 8)

split_hash_statement ==
    Slot("implicit_one", 1) \o Each(layout.attributes, LAMBDA a : AttributeInput)
      \o Slot("time", 20 * 8)
      \o (IF layout.version = 8 THEN Slot("verifier_context", 32 * 8) ELSE <<>>)
      \o Slot("mac_tags", 3 * 2) \o Slot("mac_verifier_key_share", 1)

Offsets(names) == FlattenSeq([n \in DOMAIN names |-> Slot(names[n], CBOR_OFFSET_BITS)])

AttributeWitness ==
    Slot("attribute_sha_256_input", 2 * 64 * 8)
      \o Slot("attribute_sha_256_witness", sha_256_witness_wires(2))
      \o Offsets(<<"digest_offset", "cbor_data_offset", "cbor_data_length", "unused_offset",
                   "unused_length">>)
      \o IF layout.version = 6 THEN <<>>
         ELSE Offsets(<<"kv_offset_1", "kv_offset_2", "kv_offset_3",
                        "kv_length_0", "kv_length_1", "kv_length_2", "kv_length_3">>)
                \o Slot("kv_order_digest_id", 2) \o Slot("kv_order_random", 2)
                \o Slot("kv_order_element_identifier", 2) \o Slot("kv_order_element_value", 2)

split_hash_input ==
    split_hash_statement
      \o Slot("e_credential", 256) \o Slot("device_public_key_x", 256)
      \o Slot("device_public_key_y", 256) \o Slot("sha_256_block_count", 8)
      \o Slot("sha_256_input", sha_256_input_wires(sha_256_max_blocks))
      \o Slot("sha_256_witness_credential", sha_256_witness_wires(sha_256_max_blocks))
      \o Offsets(<<"valid_from_offset", "valid_until_offset", "device_key_info_offset",
                   "value_digests_offset">>)
      \o Each(layout.attributes, LAMBDA a : AttributeWitness)
      \o (IF layout.version = 8
          THEN Slot("ppid_seed", 32 * 8) \o Slot("ppid_sha_witness", sha_256_witness_wires(2))
          ELSE <<>>)
      \o Slot("mac_prover_key_shares", 3 * 2)

-----------------------------------------------------------------------------
(* Encoders: how many wires they write.                                    *)

LOCAL Smaller(a, b) == IF a < b THEN a ELSE b

\* Eight wires of a byte, as many as there are of both.
byte_array_as_bits(bytes, width) == 8 * Smaller(bytes, width \div 8)

\* Four wires of a byte, two bits in each.  What this asserts is in Asserted.
encode_byte_array(bytes) == bytes * (8 \div 2)

\* Eight wires of a word.
encode_u32_array(words) == words * (32 \div 4)

\* Faulty variant of pad_input: no room for the length where a block ends 8 bytes on.
pad_input_short(bytes) == (bytes + 9 + (63 - ((bytes + 9) % 64))) \div 64

\* How many blocks there are of an input with its padding.
pad_input(bytes) == (bytes + 9 + (63 - ((bytes + 8) % 64))) \div 64

\* The input is made as long as the circuit's, cutting off what is more: its digest is
\* there if its last block is.
Hashes(bytes, max_blocks) == pad_input(bytes) <= max_blocks
WitnessedBlocks(width, max_blocks) ==
    Smaller(max_blocks, width \div sha_256_witness_wires(1))
      * (encode_u32_array(48) + 64 * encode_u32_array(2) + encode_u32_array(8))

\* The table index of each of 256 bits, with coordinates for every bit but the last.
iter_msm(width) == LET steps == Smaller(256, (width + 3) \div 4) IN
    IF width % 4 = 1 THEN steps + 3 * (steps - 1) ELSE 4 * steps

\* Elements that are assigned, one by one or with copy_from_slice.
Assigned == {"implicit_one", "issuer_public_key_x", "issuer_public_key_y", "e_session_transcript",
             "r_x", "r_y", "r_x_inverse", "neg_s_inverse", "q_x_inverse",
             "sum_g_q", "sum_g_r", "sum_q_r", "sum_g_q_r", "mac_prover_key_shares"}
Numbers == {"digest_offset", "cbor_data_offset", "cbor_data_length", "unused_offset",
            "unused_length", "kv_offset_1", "kv_offset_2", "kv_offset_3", "kv_length_0",
            "kv_length_1", "kv_length_2", "kv_length_3", "valid_from_offset",
            "valid_until_offset", "device_key_info_offset", "value_digests_offset"}
Orders4 == {"kv_order_digest_id", "kv_order_random", "kv_order_element_identifier",
            "kv_order_element_value"}

\* Bytes that byte_array_as_bits is given for a slot.  Buffers of attributes have their
\* full size, whatever is in them.
BytesFor == [cbor_data |-> 96, cbor_length |-> 1, cbor_identifier |-> 32, cbor_value |-> 64,
             id_length |-> 1, value_length |-> 1, time |-> 20, verifier_context |-> 32,
             e_credential |-> 32, device_public_key_x |-> 32, device_public_key_y |-> 32,
             sha_256_block_count |-> 1, attribute_sha_256_input |-> 2 * 64, ppid_seed |-> 32]

Written(slot) ==
    CASE slot.name \in Assigned -> slot.width
      [] slot.name \in Numbers -> 12
      [] slot.name \in Orders4 -> 2
      [] slot.name \in {"mac_tags", "mac_verifier_key_share"} ->
            LET elements == IF slot.name = "mac_tags" THEN 6 ELSE 1 IN
            IF vector \in {"hash_statement", "hash_input"} THEN elements
            ELSE 128 * Smaller(elements, slot.width \div 128)
      [] slot.name \in {"e_credential", "device_public_key_x", "device_public_key_y"}
           /\ vector = "signature_input" -> 1
      [] slot.name = "msm_witnesses" -> iter_msm(slot.width)
      [] slot.name = "mac_witnesses" ->
            Smaller(3, slot.width \div 256) * (encode_byte_array(32) + encode_byte_array(32))
      [] slot.name = "sha_256_input" ->
            byte_array_as_bits(sha_256_max_blocks * 64 - SHA_256_CREDENTIAL_KNOWN_PREFIX_BYTES,
                               slot.width)
      [] slot.name = "sha_256_witness_credential" ->
            WitnessedBlocks(slot.width, sha_256_max_blocks)
      [] slot.name \in {"attribute_sha_256_witness", "ppid_sha_witness"} ->
            WitnessedBlocks(slot.width, 2)
      [] OTHER -> byte_array_as_bits(BytesFor[slot.name], slot.width)

\* What encode_u32_array and encode_byte_array assert, and iter_msm unwraps.
Asserted(slot) ==
    CASE slot.name \in {"sha_256_witness_credential", "attribute_sha_256_witness", "ppid_sha_witness"} ->
            \A part \in DOMAIN BlockWitness : BlockWords[part] * 32 = BlockWitness[part] * 4
      [] slot.name = "mac_witnesses" -> 32 * 8 = 128 * 2
      [] slot.name = "msm_witnesses" -> slot.width % 4 \in {0, 1}
      [] OTHER -> TRUE

\* serialize_v6 and serialize_v7 write to cursors on buffers; the name of the second key,
\* with its header, is between the two parts of V6.
FitsIn(name) ==
    CASE name = "cbor_data" -> lengths.identifier + (1 + 12) + lengths.value <= 96
      [] name = "cbor_identifier" -> lengths.identifier <= 32
      [] name = "cbor_value" -> lengths.value <= 64
      [] name = "attribute_sha_256_witness" -> Hashes(lengths.item, 2)
      [] name = "sha_256_witness_credential" -> Hashes(lengths.credential, sha_256_max_blocks)
      [] name \in {"digest_offset", "valid_from_offset", "valid_until_offset",
                   "device_key_info_offset", "value_digests_offset"} -> lengths.offset < 2^12
      [] OTHER -> TRUE

-----------------------------------------------------------------------------
(* The order in which slots are written.                                   *)

Tags == {"mac_tags", "mac_verifier_key_share"}
AttributeNames == {"cbor_data", "cbor_length", "cbor_identifier", "cbor_value", "id_length",
                   "value_length"}
DeviceKey == {"device_public_key_x", "device_public_key_y"}

\* CircuitInputs::new, and update_macs at the end of each.
SignatureInputSteps ==
    << {"implicit_one"}, {"issuer_public_key_x", "issuer_public_key_y"}, {"e_session_transcript"},
       {"e_credential"}, DeviceKey, {s.name : s \in Range(EcdsaWitness)}, {"mac_witnesses"}, Tags>>
HashInputSteps ==
    << {"implicit_one"}, {"sha_256_witness_credential"}, AttributeNames, {"time"},
       {"verifier_context"}, {"e_credential"}, DeviceKey, {"sha_256_block_count"},
       {"sha_256_input"}, {"valid_from_offset"}, {"valid_until_offset"},
       {"device_key_info_offset"}, {"value_digests_offset"},
       {s.name : s \in Range(AttributeWitness)}, {"ppid_seed", "ppid_sha_witness"},
       {"mac_prover_key_shares"}, Tags>>

\* CircuitStatements::new.
SignatureStatementSteps ==
    << {"implicit_one"}, {"issuer_public_key_x", "issuer_public_key_y"}, Tags,
       {"e_session_transcript"}>>
HashStatementSteps ==
    << {"implicit_one"}, AttributeNames, {"time"}, {"verifier_context"}, Tags>>

-----------------------------------------------------------------------------
(* Ligero's parameters for a circuit.                                      *)

LOCAL InverseRate == IF layout.version = 6 THEN 4 ELSE 7
LOCAL Nreq == IF layout.version = 6 THEN 128 ELSE 132

LigeroParameters(block_enc) ==
    LET block_size == (block_enc + 1) \div (2 + InverseRate) IN
    [nreq |-> Nreq, witnesses_per_row |-> block_size - Nreq,
     quadratic_constraints_per_row |-> block_size - Nreq,
     block_size |-> block_size, num_columns |-> block_enc]

signature_ligero_parameters == LigeroParameters(IF layout.version = 7 THEN 4096 ELSE 2945)

hash_ligero_parameters ==
    LigeroParameters(CASE layout.version = 6 -> <<4096, 4025, 4121, 4283>>[layout.attributes]
                       [] layout.version = 7 -> <<4151, 4265, 4307, 4415>>[layout.attributes]
                       [] layout.version = 8 -> <<4259, 4307, 4463, 4481>>[layout.attributes])

-----------------------------------------------------------------------------

LayoutInit ==
    /\ filling = "new" /\ layout = <<>> /\ vector = "" /\ lengths = <<>>
    /\ left = 0 /\ slots = <<>> /\ todo = <<>> /\ filled = <<>>

\* InputLayout::new, and a vector of zeros of the length the formula gives.
allocate ==
    /\ filling = "new"
    /\ \E version \in 6..8, attributes \in 0..5 :
        IF attributes = 0 \/ attributes > 4
        THEN filling' = "refused" /\ layout' = [version |-> version, attributes |-> attributes]
        ELSE filling' = "allocated" /\ layout' = [version |-> version, attributes |-> attributes]
    /\ vector' \in Vectors
    /\ UNCHANGED <<lengths, left, slots, todo, filled>>

begin_split ==
    /\ filling = "allocated"
    /\ filling' = "split"
    /\ left' = CASE vector = "signature_statement" -> signature_statement_length
                 [] vector = "signature_input" -> signature_input_length
                 [] vector = "hash_statement" -> hash_statement_length
                 [] vector = "hash_input" -> hash_input_length
    /\ slots' = CASE vector = "signature_statement" -> split_signature_statement
                  [] vector = "signature_input" -> split_signature_input
                  [] vector = "hash_statement" -> split_hash_statement
                  [] vector = "hash_input" -> split_hash_input
    /\ filled' = [s \in {} |-> 0]
    /\ UNCHANGED <<layout, vector, lengths, todo>>

\* split_first_mut and split_at_mut: panics where fewer wires are left.
split_at ==
    /\ filling = "split" /\ slots # <<>>
    /\ LET slot == Head(slots) IN
        IF slot.width > left
        THEN filling' = "panicked" /\ UNCHANGED <<left, slots, filled>>
        ELSE /\ left' = left - slot.width
             /\ slots' = Tail(slots)
             /\ filled' = [s \in DOMAIN filled \cup {slot} |-> 0]
             /\ UNCHANGED filling
    /\ UNCHANGED <<layout, vector, lengths, todo>>

\* assert!(input.is_empty())
end_split ==
    /\ filling = "split" /\ slots = <<>>
    /\ filling' = IF left = 0 THEN "filling" ELSE "panicked"
    /\ lengths' \in ContentLengths
    /\ todo' = CASE vector = "signature_statement" -> SignatureStatementSteps
                 [] vector = "signature_input" -> SignatureInputSteps
                 [] vector = "hash_statement" -> HashStatementSteps
                 [] vector = "hash_input" -> HashInputSteps
    /\ UNCHANGED <<layout, vector, left, slots, filled>>

\* The next slots are written, each by its encoder, or the contents do not fit.
fill ==
    /\ filling = "filling" /\ todo # <<>>
    /\ LET now == {s \in DOMAIN filled : s.name \in Head(todo)} IN
        IF \E s \in now : ~FitsIn(s.name)
        THEN filling' = "refused" /\ UNCHANGED <<todo, filled>>
        ELSE IF \E s \in now : ~Asserted(s)
        THEN filling' = "panicked" /\ UNCHANGED <<todo, filled>>
        ELSE /\ filled' = [s \in DOMAIN filled |-> IF s \in now THEN Written(s) ELSE filled[s]]
             /\ todo' = Tail(todo)
             /\ filling' = IF Len(todo) = 1 THEN "filled" ELSE "filling"
    /\ UNCHANGED <<layout, vector, lengths, left, slots>>

LayoutNext == allocate \/ begin_split \/ split_at \/ end_split \/ fill

-----------------------------------------------------------------------------
(* Properties.                                                             *)

\* Bytes of a hash function's input, its mark and its length, in whole blocks.
LOCAL HeldBy(bytes, blocks) == bytes + 1 + 8 <= blocks * 64

\* What circuits have room for.
LOCAL ContentsFit ==
    /\ IF layout.version = 6
       THEN lengths.identifier + lengths.value + 13 <= 96
       ELSE lengths.identifier <= 32 /\ lengths.value <= 64
    /\ vector = "hash_input" =>
          HeldBy(lengths.item, 2) /\ HeldBy(lengths.credential, sha_256_max_blocks)

\* A codeword holds a product of rows, so that a sum of rows is decided by its columns, and
\* the columns to be opened are drawn from the rest.
LOCAL ParametersAreUsable(p) ==
    /\ p.witnesses_per_row > 0
    /\ p.quadratic_constraints_per_row <= p.witnesses_per_row
    /\ p.num_columns - (2 * p.block_size - 1) >= p.nreq

\* No vector panics for being cut up or written, at any version and number of attributes.
\* Contents are refused only for being too long, an offset never; and when the last slot is
\* written, by CircuitInputs::new and update_macs or by CircuitStatements::new, no wire of
\* any slot still has the zero it was made with.  Before update_macs the missing ones are
\* those of the tags and a_v.
EveryWireIsSet ==
    /\ filling # "panicked"
    /\ filling = "refused" =>
          IF layout.attributes \in 1..4
          THEN vector \in {"hash_statement", "hash_input"} /\ ~ContentsFit
          ELSE TRUE
    /\ filling = "filled" =>
          /\ \A s \in DOMAIN filled : filled[s] = s.width
          /\ vector \in {"hash_statement", "hash_input"} => ContentsFit
    /\ filling = "filling" /\ Len(todo) = 1 /\ vector \in {"signature_input", "hash_input"} =>
          \A s \in DOMAIN filled : filled[s] = IF s.name \in Tags THEN 0 ELSE s.width
    /\ filling = "allocated" =>
          ParametersAreUsable(signature_ligero_parameters) /\ ParametersAreUsable(hash_ligero_parameters)
=============================================================================
