---------------------------- MODULE MCEncodings ----------------------------
(***************************************************************************)
(* What is serialized: the opened columns of proofs, and circuits.  A      *)
(* behaviour is of one of them.                                            *)
(*                                                                         *)
(* The instances for TLC are small.  A size is 13 bits and a word 15,      *)
(* so that nine jumps of the longest kind leave a word; the numbers of     *)
(* inputs, of key shares and of columns are the real ones but for the hash *)
(* circuit's inputs, of which there are 26 as in profile.rs's own tests.   *)
(***************************************************************************)
EXTENDS ProofRuns, CircuitLoading

VARIABLE of_circuits   \* whether the behaviour is of circuits

encodings_vars == <<of_circuits, vars, loading_vars>>

\* A proof without columns, decoded.
NoColumns ==
    /\ column_elements = <<>> /\ written = 0 /\ is_subfield_run = FALSE /\ runs = <<>>
    /\ cut = FALSE /\ decoded = <<>> /\ result = "decoded"

\* A call of load that was refused at once.
NoCircuits ==
    /\ overflow_checks = FALSE /\ job \in [call : {"none"}] /\ step = "refused"
    /\ legacy = <<>> /\ at = Start /\ prev_quad = DefaultQuad /\ altered = FALSE
    /\ circuits = <<>> /\ total_terms = 0

EncodingsInit ==
    \/ of_circuits = FALSE /\ Init /\ NoCircuits
    \/ of_circuits = TRUE /\ LoadingInit /\ NoColumns

Columns == ~of_circuits /\ Next /\ UNCHANGED <<of_circuits, loading_vars>>
Circuits == of_circuits /\ LoadingNext /\ UNCHANGED <<of_circuits, vars>>

EncodingsNext == Columns \/ Circuits

\* A call runs to its end: each iteration of its loop is followed by the next.
EncodingsSpec == EncodingsInit /\ [][EncodingsNext]_encodings_vars /\ WF_encodings_vars(EncodingsNext)

-----------------------------------------------------------------------------
(* Circuits to encode: one layer of two quads, and variations of it.       *)

\* What a size may be altered to.
MCAlterations == {0, 1, 2, 4097, 8190, 8191}

Quad(gate, left, const) == [gate |-> gate, left |-> left, right |-> 1, const |-> const]

WithLayers(layers) ==
    [version |-> 1, field |-> "P256", outputs |-> 1, copies |-> 1, public |-> 1, boundary |-> 0,
     inputs |-> 2, num_layers |-> Len(layers), constants |-> <<0, 1>>, layers |-> layers, id |-> "id"]

Layer(quads) == [logw |-> 1, wires |-> 2, quads |-> quads]

Indices == {0, 1, 4095, 4096, 8191, 32767}

Plain == WithLayers(<<Layer(<<Quad(0, 0, 1), Quad(1, 1, 0)>>), Layer(<<Quad(1, 0, 1)>>)>>)

MCWritten ==
    {WithLayers(<<Layer(<<Quad(g[1], 0, 0), Quad(g[2], g[3], 1)>>)>>) :
        g \in Indices \X Indices \X {0, 4095}}
    \cup {WithLayers(<<Layer(<<Quad(g[1], 0, 0)>>), Layer(<<Quad(g[2], 0, 1)>>)>>) :
            g \in {0, 1, 4095} \X {0, 1, 4095}}
    \cup {Plain, [Plain EXCEPT !.num_layers = 1], [Plain EXCEPT !.inputs = 8192],
          [Plain EXCEPT !.outputs = 8191], [Plain EXCEPT !.layers[2].wires = 8192],
          [Plain EXCEPT !.layers[1].quads[2].const = 8192], WithLayers(<<>>),
          WithLayers(<<Layer([q \in 1..10 |-> Quad(4095 * (q - 1), 0, 0)])>>),
          WithLayers(<<Layer([q \in 1..8192 |-> Quad(0, 0, 0)])>>)}

-----------------------------------------------------------------------------
(* Artifacts: circuits of one layer, with two dictionary entries.          *)

Delta(gate, left) == [gate |-> gate, left |-> left, right |-> 2, const |-> 1]

Lfc2(field, outputs, public, inputs, layers) ==
    [header |-> "LFC2", field |-> field, outputs |-> outputs, copies |-> 1, public |-> public,
     boundary |-> 0, inputs |-> inputs, constants |-> <<0, 1>>, layers |-> layers, id |-> <<>>]

\* With the id of what the circuit computes.
Identified(c) == [c EXCEPT !.id = Meaning(c)]

SigWith(layer) == Identified(Lfc2("P256", 1, 1155, 4765, <<layer>>))

Lfc2Layer(deltas, segments, tokens) ==
    [logw |-> 1, wires |-> 2, deltas |-> deltas, segments |-> segments, tokens |-> tokens]

Usual == Lfc2Layer(<<Delta(2, 0), Delta(1, 2)>>, <<<<0>>, <<0, 1>>>>, <<1, 0, 1>>)
UsualSig == SigWith(Usual)
UsualHash == Identified(Lfc2("GF2_128", 2, 10, 26, <<Usual, [Usual EXCEPT !.tokens = <<0>>]>>))

\* Jumps of 0, 1, -1, 4095, -4095, 4096, -4096 and the longest.
Jumps == {0, 1, 2, 8190, 8189, 8192, 8191, 16382, 16383}

Shapes ==
    {<<<<<<0>>, <<1>>>>, <<0, 1>>>>, <<<<<<0, 1>>, <<0>>>>, <<1, 0>>>>,
     <<<<<<0, 0, 0>>, <<0, 0>>, <<1>>>>, <<0, 0, 1, 2>>>>}

SigCircuits ==
    {SigWith(Lfc2Layer(<<Delta(g[1], 0), Delta(g[2], g[3])>>, shape[1], shape[2])) :
        g \in Jumps \X Jumps \X {0, 3}, shape \in Shapes}

Of(c) == [circuits |-> <<c, UsualHash>>, rest |-> 0]
Published == Of(UsualSig)

\* Circuits with something that does not exist, does not fit or is not so.
FaultyCircuits ==
    {[UsualSig EXCEPT !.header = "LFC1"], [UsualSig EXCEPT !.field = "FP128"],
     [UsualSig EXCEPT !.copies = 2], [UsualSig EXCEPT !.public = 5000],
     [UsualSig EXCEPT !.outputs = 5001], [UsualSig EXCEPT !.id.outputs = 2],
     [UsualSig EXCEPT !.layers[1].deltas[2].const = 2],
     [UsualSig EXCEPT !.layers[1].segments[1][1] = 2],
     [UsualSig EXCEPT !.layers[1].tokens[2] = 2], [UsualSig EXCEPT !.layers[1].wires = 3],
     Identified([UsualSig EXCEPT !.layers[1].logw = 64]),
     Identified([UsualSig EXCEPT !.layers = <<Usual, Usual, Usual, Usual>>]),
     SigWith([Usual EXCEPT !.tokens = <<1, 1, 1, 1, 1, 1, 1, 1, 1>>])}

FaultyArtifacts ==
    {Of(c) : c \in FaultyCircuits}
    \cup {[Published EXCEPT !.rest = 1], [Published EXCEPT !.circuits = <<UsualSig>>],
          [Published EXCEPT !.circuits = <<UsualHash, UsualSig>>],
          [Published EXCEPT !.circuits = <<UsualSig, UsualHash, UsualSig>>],
          Of(SigWith([Usual EXCEPT !.tokens = <<1, 1, 1, 1, 1, 1>>]))}

\* The entry that is made for an artifact, the descriptor of an entry, and the call with both.
EntryFor(artifact) ==
    [hash_circuit_id |-> UsualHash.id, sig_circuit_id |-> artifact.circuits[1].id,
     block_enc_hash |-> 6983, block_enc_sig |-> 4679,
     hash_ninputs |-> 26, hash_npub |-> 10, sig_ninputs |-> 4765, sig_npub |-> 1155,
     artifact |-> artifact, runs |-> <<[slot |-> 10, from |-> 0, len |-> 10]>>]

Descriptor(entry) ==
    [k \in {"hash_circuit_id", "sig_circuit_id", "block_enc_hash", "block_enc_sig"} |-> entry[k]]

Call(entry, artifact) ==
    [call |-> "load", entry |-> entry, params |-> Descriptor(entry), artifact |-> artifact]

Usable == EntryFor(Published)

Run(slot, from, len) == [slot |-> slot, from |-> from, len |-> len]

\* The slot maps of profile.rs's tests, and more.
SlotMaps ==
    {<<Run(10, 5, 5), Run(15, 0, 5)>>, <<Run(12, 0, 8), Run(10, 8, 2)>>, <<Run(10, 0, 0)>>,
     <<Run(10, 0, 10), Run(14, 0, 2)>>, <<Run(10, 0, 17)>>, <<Run(10, 0, 9)>>,
     <<Run(9, 0, 11)>>, <<Run(10, 0, 12)>>, <<Run(10, 5, 10)>>,
     <<Run(10, 0, 5), Run(15, 0, 5)>>, <<Run(10, 0, 5), Run(15, 6, 5)>>}

OtherEntries ==
    {[Usable EXCEPT !.runs = map] : map \in SlotMaps}
    \cup {[Usable EXCEPT !.sig_npub = 1154], [Usable EXCEPT !.sig_ninputs = 4764],
          [Usable EXCEPT !.sig_ninputs = 4766], [Usable EXCEPT !.block_enc_sig = 1187],
          [Usable EXCEPT !.block_enc_hash = 2^22 + 1],
          [Usable EXCEPT !.hash_npub = 9, !.runs = <<Run(9, 0, 11)>>],
          [Usable EXCEPT !.hash_ninputs = 27, !.runs = <<Run(10, 0, 11)>>],
          [Usable EXCEPT !.hash_circuit_id.outputs = 3]}

MCLoads ==
    {Call(EntryFor(Of(c)), Of(c)) : c \in SigCircuits}
    \cup {Call(EntryFor(a), a) : a \in FaultyArtifacts}
    \cup {Call(Usable, a) : a \in FaultyArtifacts \cup {Of(SigWith([Usual EXCEPT !.tokens = <<0>>]))}}
    \cup {Call(e, Published) : e \in OtherEntries}
    \cup {[Call(Usable, Published) EXCEPT !.params = [Descriptor(Usable) EXCEPT ![k] = v]] :
            k \in {"block_enc_hash", "block_enc_sig"}, v \in {4679, 6983}}
    \cup {[Call(Usable, Published) EXCEPT !.params.sig_circuit_id = UsualHash.id],
          [Call(Usable, Published) EXCEPT !.params.hash_circuit_id = UsualSig.id]}
=============================================================================
