----------------------------- MODULE Transcript -----------------------------
(***************************************************************************)
(* The Fiat-Shamir transcript of transcript.rs: messages are framed and    *)
(* fed to a hash, and challenges are read from a pseudo-random stream      *)
(* seeded with that hash.  Several transcripts run side by side, as the    *)
(* prover's and the verifier's do; what they draw is recorded so that two  *)
(* of them can be compared.                                                *)
(*                                                                         *)
(* The hash state is the sequence of bytes fed to it (SHA-256 without      *)
(* collisions), a stream is named by its seed, and a sample by the seed    *)
(* and the position and number of its bytes.  A length prefix is one byte  *)
(* and not eight.  The writers and generators are generic in the field; a  *)
(* field is known by the number of bytes its elements have, which nothing  *)
(* in the framing tells.                                                   *)
(***************************************************************************)
EXTENDS Integers, Sequences, FiniteSets

CONSTANTS Party,            \* the transcripts
          Element,          \* elements of all the fields, as byte sequences
          Byte,             \* bytes of the byte arrays written
          SessionId,        \* byte sequences a transcript may start with
          Modes,            \* the members of TranscriptMode used
          Rejected(_, _, _),   \* a field's sample_from_source rejects the bytes at a position
          ZeroChunk,        \* size of the zero buffer of write_zero_array
          MaxRejections,    \* bound on the samples rejected in a row
          MaxBindings,      \* LONGFELLOW_ZK_MAX_BINDINGS
          MaxLength,        \* bound on the length of an array written
          MaxZeros,         \* bound on the length of an array of zeros written
          MaxMessages,      \* bound on the messages written to a transcript
          MaxSteps          \* bound on those and the samples drawn after the last of them

ASSUME TranscriptAssumption ==
    /\ Modes \subseteq {"Normal", "V3Compatibility"}
    /\ Byte \subseteq Nat
    /\ Element # {}
    /\ \A x \in Element : x \in Seq(Nat) /\ Len(x) > 0
    /\ \A s \in SessionId : s \in Seq(Nat)
    /\ {ZeroChunk, MaxBindings} \subseteq Nat \ {0}
    /\ {MaxRejections, MaxLength, MaxZeros, MaxMessages, MaxSteps} \subseteq Nat

VARIABLES
    mode,       \* the mode that all transcripts were created with
    seed,       \* fsprf_seed of each transcript: the bytes hashed so far
    fsprf,      \* current_fsprf of each transcript: <<>>, or one stream and its position
    log,        \* history: the messages each transcript was given
    drawn,      \* history: the fields of the samples due since each one's last message
    challenges  \* history: the samples each transcript handed out since its last message

vars == <<mode, seed, fsprf, log, drawn, challenges>>

ArraysOf(S) == UNION {[1..n -> S] : n \in 0..MaxLength}

-----------------------------------------------------------------------------
(* Framing of messages.                                                    *)

\* num_bytes of each field, and its elements.
Widths == {Len(x) : x \in Element}
ElementsOf(width) == {x \in Element : Len(x) = width}

Message(kind, width, data) == [kind |-> kind, width |-> width, data |-> data]
ByteMessage(bytes) == Message("bytes", 1, bytes)

\* Faulty variant of Tag: the two kinds of field messages share a tag in either mode.
Tag_shared(kind) == CASE kind = "bytes" -> 0 [] kind = "element" -> 1 [] kind = "array" -> 1

\* Tag::as_byte
Tag(kind) ==
    CASE kind = "bytes"   -> 0
      [] kind = "element" -> 1
      [] kind = "array"   -> IF mode = "V3Compatibility" THEN 1 ELSE 2

\* The bytes of an array of elements of one field.
Concat(width, elements) ==
    [k \in 1..(width * Len(elements)) |->
        elements[(k - 1) \div width + 1][((k - 1) % width) + 1]]

element_bytes(x) == <<Tag("element")>> \o x
element_array_bytes(width, xs) == <<Tag("array"), Len(xs)>> \o Concat(width, xs)
begin_byte_array(length) == <<Tag("bytes"), length>>

\* The loop of write_zero_array: min(count, chunk) zeros until count is used up.
ZeroBytes(count) ==
    LET after[n \in 0..count] ==
          LET written == IF n < ZeroChunk THEN n ELSE ZeroChunk
          IN  IF n = 0 THEN <<>> ELSE [k \in 1..written |-> 0] \o after[n - written]
    IN  after[count]

-----------------------------------------------------------------------------
NoStream == <<>>
Stream(key, position) == <<[key |-> key, position |-> position]>>

\* Transcript::new writes the session id as its first message.
Init ==
    /\ mode \in Modes
    /\ \E id \in [Party -> SessionId] :
         /\ seed = [p \in Party |-> begin_byte_array(Len(id[p])) \o id[p]]
         /\ log = [p \in Party |-> <<ByteMessage(id[p])>>]
    /\ fsprf = [p \in Party |-> NoStream]
    /\ drawn = [p \in Party |-> <<>>]
    /\ challenges = [p \in Party |-> {}]

\* Faulty variant of write_bytes: keeps the stream that was seeded before.
write_bytes_keeping_stream(p, bytes, message) ==
    /\ seed' = [seed EXCEPT ![p] = @ \o bytes]
    /\ log' = [log EXCEPT ![p] = Append(@, message)]
    /\ drawn' = [drawn EXCEPT ![p] = <<>>]
    /\ challenges' = [challenges EXCEPT ![p] = {}]
    /\ UNCHANGED <<mode, fsprf>>

write_bytes(p, bytes, message) ==
    /\ seed' = [seed EXCEPT ![p] = @ \o bytes]
    /\ fsprf' = [fsprf EXCEPT ![p] = NoStream]
    /\ log' = [log EXCEPT ![p] = Append(@, message)]
    /\ drawn' = [drawn EXCEPT ![p] = <<>>]
    /\ challenges' = [challenges EXCEPT ![p] = {}]
    /\ UNCHANGED mode

MayWrite(p) == Len(log[p]) < MaxMessages

write_field_element(p) ==
    /\ MayWrite(p)
    /\ \E x \in Element : write_bytes(p, element_bytes(x), Message("element", Len(x), x))

\* write_polynomial writes its two values as two field elements.
write_polynomial(p) ==
    /\ Len(log[p]) + 2 <= MaxMessages
    /\ \E width \in Widths : \E p0, p2 \in ElementsOf(width) :
         /\ seed' = [seed EXCEPT ![p] = @ \o element_bytes(p0) \o element_bytes(p2)]
         /\ fsprf' = [fsprf EXCEPT ![p] = NoStream]
         /\ log' = [log EXCEPT ![p] = @ \o <<Message("element", width, p0),
                                              Message("element", width, p2)>>]
         /\ drawn' = [drawn EXCEPT ![p] = <<>>]
         /\ challenges' = [challenges EXCEPT ![p] = {}]
         /\ UNCHANGED mode

write_field_element_array(p) ==
    /\ MayWrite(p)
    /\ \E width \in Widths : \E xs \in ArraysOf(ElementsOf(width)) :
         write_bytes(p, element_array_bytes(width, xs),
                     Message("array", width, Concat(width, xs)))

write_byte_array(p) ==
    /\ MayWrite(p)
    /\ \E bytes \in ArraysOf(Byte) :
         write_bytes(p, begin_byte_array(Len(bytes)) \o bytes, ByteMessage(bytes))

\* Logged as the byte array of zeros it stands for.
write_zero_array(p) ==
    /\ MayWrite(p)
    /\ \E count \in 0..MaxZeros :
         write_bytes(p, begin_byte_array(count) \o ZeroBytes(count),
                     ByteMessage([k \in 1..count |-> 0]))

-----------------------------------------------------------------------------
(* Challenges.                                                             *)

\* get_current_fsprf: seeded lazily with everything written so far.
get_current_fsprf(p) == IF fsprf[p] = NoStream THEN Stream(seed[p], 0)[1] ELSE fsprf[p][1]

\* Bound: at most MaxRejections samples in a row are rejected.
AcceptedInTime(key, width, position) ==
    \E r \in 0..MaxRejections : ~Rejected(key, width, position + width * r)

\* Position of the first accepted sample at or after position (rejection sampling).
Accepted(key, width, position) ==
    position + width *
        CHOOSE r \in 0..MaxRejections :
            /\ ~Rejected(key, width, position + width * r)
            /\ \A q \in 0..(r - 1) : Rejected(key, width, position + width * q)

\* Positions of n samples of one field drawn one after another.
Samples(key, width, position, n) ==
    LET at[k \in 1..n] ==
          Accepted(key, width, IF k = 1 THEN position ELSE at[k - 1] + width)
    IN  at

\* n samples of one field.
Many(n, width) == [k \in 1..n |-> width]

\* Draw n samples and hand out those numbered from..to.
Draw(p, width, n, from, to) ==
    LET f  == get_current_fsprf(p)
        at == Samples(f.key, width, f.position, n)
    IN  /\ \A k \in 1..n :
             AcceptedInTime(f.key, width, IF k = 1 THEN f.position ELSE at[k - 1] + width)
        /\ fsprf' = [fsprf EXCEPT ![p] = Stream(f.key, at[n] + width)]
        /\ challenges' = [challenges EXCEPT ![p] = @ \cup
             {[fields |-> drawn[p] \o Many(k, width), value |-> <<f.key, at[k], width>>] :
                 k \in from..to}]
        /\ UNCHANGED <<mode, seed, log>>

\* Record that n samples of one field were due.
Due(p, width, n) ==
    /\ Len(log[p]) + Len(drawn[p]) + n <= MaxSteps
    /\ drawn' = [drawn EXCEPT ![p] = @ \o Many(n, width)]

generate_challenge(p) ==
    \E width \in Widths, length \in 1..MaxSteps :
        Due(p, width, length) /\ Draw(p, width, length, 1, length)

\* Faulty variant of generate_output_wire_bindings: does not catch up with longfellow-zk.
generate_output_wire_bindings_behind(p) ==
    \E width \in Widths, logw \in 0..MaxBindings :
        /\ Due(p, width, 2 * MaxBindings)
        /\ Draw(p, width, MaxBindings + logw, MaxBindings + 1, MaxBindings + logw)

\* longfellow-zk samples 2 * MaxBindings elements whatever logw is; logw of them are kept.
generate_output_wire_bindings(p) ==
    \E width \in Widths, logw \in 0..MaxBindings :
        /\ Due(p, width, 2 * MaxBindings)
        /\ Draw(p, width, 2 * MaxBindings, MaxBindings + 1, MaxBindings + logw)

-----------------------------------------------------------------------------
Next ==
    \E p \in Party :
        \/ write_field_element(p)
        \/ write_polynomial(p)
        \/ write_field_element_array(p)
        \/ write_byte_array(p)
        \/ write_zero_array(p)
        \/ generate_challenge(p)
        \/ generate_output_wire_bindings(p)

Spec == Init /\ [][Next]_vars

-----------------------------------------------------------------------------
\* The stream a transcript reads from, and each challenge it drew since it last wrote,
\* come from a seed that covers every byte written to it: get_current_fsprf never serves
\* a stream cached before a write.
StreamIsCurrent ==
    \A p \in Party :
        /\ fsprf[p] # NoStream => fsprf[p][1].key = seed[p]
        /\ \A c \in challenges[p] : c.value[1] = seed[p]

\* Whether what was written before decides of two lists of messages which type comes next:
\* where they differ first, there is a message of the same kind and of another field in
\* neither.  Tags do not tell fields apart; that of V3Compatibility neither an array from an
\* element.  The protocols have it so: the circuit, whose id is written, gives the types.
TypesDecided(messages, others) ==
    \A k \in DOMAIN messages \cap DOMAIN others :
        (\A j \in 1..(k - 1) : messages[j] = others[j]) =>
            /\ messages[k].kind = others[k].kind => messages[k].width = others[k].width
            /\ mode = "V3Compatibility" =>
                 {messages[k].kind, others[k].kind} # {"element", "array"}

\* Whether as far as both go, samples of the same fields were due.
SameFields(fields, others) ==
    \A k \in DOMAIN fields \cap DOMAIN others : fields[k] = others[k]

\* Two transcripts whose types are decided draw the same sample only if the same messages
\* came before; and if the samples due were of the same fields, exactly then and if as many
\* were due, whatever the calls were and however many of the samples these handed out.
ChallengeBinding ==
    \A p, q \in Party : TypesDecided(log[p], log[q]) =>
        \A c \in challenges[p], d \in challenges[q] :
            /\ c.value = d.value => log[p] = log[q]
            /\ SameFields(c.fields, d.fields) =>
                 (c.value = d.value <=> log[p] = log[q] /\ c.fields = d.fields)
=============================================================================
