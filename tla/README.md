# zk-cred-longfellow in TLA+

This directory is a verification project for the Rust library `zk-cred-longfellow`, which makes
and checks Longfellow zero-knowledge proofs: a sumcheck proof of an arithmetic circuit, whose
secrets are hidden by one-time pads and committed to with Ligero. Two applications put two
circuits together into a proof about a credential: `mdoc_zk` and `nymauth`.

Paths below are relative to the crate's `src/`. The modules are parsed and checked with SANY and
TLC, the modules named `...Proofs`, `TwoCircuitLemmas` and `FeatureFlag` also with TLAPS. `PROJECT.json` lists the
components, the runs, the theorems, the hazards of the code and, for every definition that models
code, the lines it models.

## 1. The system

### 1.1 A proof, from end to end

    circuit + inputs --Circuit::evaluate--> wire values of every layer
            |                                        |
            v                                        v
    WitnessLayout / fill_witness: private inputs, pads, products of pads
            |                                        |
            v                                        v
    Ligero: commit  --root-->  Transcript  <--  sumcheck: run_protocol (claims minus pads)
       |                          |                  |
       |                     challenges         linear constraints on the witness
       v                          v                  v
    Ligero: prove  <-- combined rows, sampled columns, Merkle inclusion proof

The verifier follows the same transcript, runs the same `run_protocol` without secrets to build
the same constraints, and lets `LigeroVerifier::verify` decide. Everything below the foreign
interfaces is sequential. Threads appear in `go_ffi.rs`, where a C or Go caller may use one
verifier from many threads, and in the feature flag that all of them share.

### 1.2 Inventory

| Component | State it keeps | Operations | Interacts with | What is hard | Correct when |
|---|---|---|---|---|---|
| Merkle tree, `ligero/merkle.rs` | heap array of nodes; in proofs a partial tree | `set_leaf`, `build`, `prove`, `verify` | Ligero | leaf counts that are not powers of two; order of requested leaves against order of proof nodes | every proof made is accepted, and only committed leaves are |
| Transcript, `transcript.rs` | hash state; cached AES stream | writes of bytes, elements, arrays, zeros; challenges, bindings, naturals | sumcheck, Ligero, both applications | stream seeded lazily and dropped by a write; framing differs between two modes | a challenge depends on everything before it and nothing else |
| Column sampling, `transcript.rs` | list being shuffled | `generate_natural`, `generate_naturals_without_replacement` | Ligero | bit masks at powers of two, rejection, the shrinking tail | columns are distinct, and the choice is unbiased |
| Circuit and evaluation, `circuit.rs` | layers of quads | `evaluate`, `combined_quad`, codec, `circuit_id` | sumcheck, applications | assertion quads (constant zero) mean one thing evaluated and another proved | evaluation satisfies the quad that sumcheck proves |
| Witness, `witness.rs` | vector of inputs and pads | layout, `fill_witness` | sumcheck, Ligero | positions are computed in one place, elements pushed in another | every pad is used once |
| Sumcheck, `sumcheck/` | claims, bound wires, bound quad, symbolic constraint | `run_protocol` for prover and verifier, constraint builder, dense and sparse `bind` | transcript, witness, Ligero | state updated in place by alternating hands over all rounds and layers; odd lengths; characteristic two | every claim is the sum it stands for |
| Sparse array, `sumcheck/bind/sparse.rs` | sorted list of elements | `bindv_gate`, `bind_hand`, `compute_a` | sumcheck | one-element look-ahead relies on an order that must survive each binding | it is the dense array with zeros left out |
| Ligero, `ligero/` | tableau, Merkle tree, proof | `commit`, `prove`, `verify`, codec | transcript, Merkle tree, fields | three index computations (fill, address, verify) that must agree; blinding rows; the part of a proof that is not sent | completeness, and the verdict says what the constraints say |
| Proof encoding, `ligero/prover.rs` | cursor, run kind | `encode_with_param`, `decode_with_param` | applications | run kinds implied by position; empty runs; maximum run length | what is written is read |
| Reed-Solomon extension, `fields/extend_p.rs`, `fields/ntt.rs`, `fields/field2_128/extend.rs` | precomputed context | `extend_precompute`, `extend` | Ligero | wrapped convolution; truncated additive FFT; lengths between powers of two | the interpolating polynomial's values |
| Fields, `fields/` | elements; the cached CPU feature flag | generated arithmetic, exponentiations, quadratic extension, encodings, subfield test | everything | carries and borrows of word-by-word arithmetic; the flag is initialised by a race; subfield tables belong together row by row | the arithmetic is a field's; the flag never lies; `inject` undoes `uninject` |
| Serialized circuits, `circuit.rs`, `lib.rs` | cursor, wire indices of the quad before | `encode`, `decode`, `circuit_id` | applications | jumps between 32-bit indices, in builds that check arithmetic and builds that do not | what is decoded is what was encoded |
| Go C ABI, `go_ffi.rs` | verifiers and error strings on the heap | initialize, verify, free, free string | foreign callers, feature flag | who owns what after errors and panics; some twenty exits | nothing leaks, dangles, or is freed twice |
| nym_auth, `nymauth/mod.rs` | request, two input vectors, transcript | `prove`, `verify` | circuit, sumcheck, Ligero, transcript | two circuits, one transcript, a MAC key made of two shares; vectors overwritten twice | accepts exactly the proofs made for the request |
| nym_auth loading, `nymauth/mod.rs`, `profile.rs`, `lfc2.rs` | artifact, table entry, circuits | `load`, `decode_pair`, `convert` | nym_auth, serialized circuits | about ten checks in an order that matters; jumps that wrap around | circuits that load are those of the table's entry |
| mdoc_zk, `mdoc_zk/mod.rs`, `prover.rs`, `verifier.rs` | two input vectors, transcript | `prove`, `verify` of three versions, with and without a pseudonym | as nym_auth; witnesses, layouts, parsing | the pseudonym's seed is looked up under one name and disclosed under another; nothing is evaluated before the commitments | accepts what is shown of the credential; the seed is not disclosed |
| mdoc_zk layouts, `mdoc_zk/layout.rs` | four vectors of wires | lengths, slots, Ligero parameters | mdoc_zk, witnesses | three formulas, slots cut off by version and attributes, encoders that cut off or leave out | every wire is written |
| Signatures, `mdoc_zk/ec.rs`, `nymauth/ecdsa.rs` | accumulator of a triple sum | point decoding, addition, multiplication, `fill_ecdsa_witness`, `verification` | mdoc_zk, nym_auth | equal, opposite and infinite points come up; unreduced numbers | valid signatures have witnesses, others are refused |
| mdoc parsing, `mdoc_zk/mdoc/` | CBOR cursor | `parse_device_response`, `parse_mso`, `find_attributes` | mdoc_zk | unknown entries are skipped by counting; offsets are taken while reading | offsets lead where the bytes are |
| One circuit, `zk_one_circuit/` | sumcheck and Ligero provers | `prove`, `verify` | as above | composition of the parts | as the parts |
| nym_auth C ABI, `nymauth/c_abi.rs` | prover and verifier handles, buffers, error strings | load, prove, verify, derive a challenge, two digests, free | C caller (threads), nym_auth | as Go C ABI; panics are caught at two levels | status, string and buffer tell the outcome of the call they are of |
| Other bindings, `ffi_api.rs`, `js_api.rs`, `nymauth/ffi_uniffi.rs` | handles | as the APIs they wrap | foreign callers | | |

## 2. The modules

| Module | Models | Composed of |
|---|---|---|
| `MerkleTree` | `ligero/merkle.rs` | |
| `Transcript` | `transcript.rs`, both modes, several transcripts side by side | |
| `ColumnSampling` | the two samplers of `transcript.rs` | |
| `Challenges` | both of the above, as one system | `Transcript`, `ColumnSampling` |
| `Field` | `fields/mod.rs`: arithmetic over an enumerable field, and the reference definition of an extension | |
| `DenseArray` | the abstract array of `sumcheck/bind/mod.rs` | `Field` |
| `SparseArray` | `sumcheck/bind/sparse.rs` | `Field`; implements `DenseArray` |
| `Circuit` | `circuit.rs`: accessors, `evaluate`, `combined_quad` | `Field` |
| `Sumcheck` | `sumcheck/mod.rs`, `sumcheck/constraints/mod.rs`, dense binding; `witness.rs` | `Circuit`, `SparseArray` |
| `SumcheckFields` | `Sumcheck` over the field of order 5 and over that of order 4 | two instances of `Sumcheck` |
| `Ligero` | `ligero/tableau.rs`, `prover.rs`, `verifier.rs` | `Field` |
| `ProofRuns` | the runs of opened columns in a serialized Ligero proof | |
| `CircuitFile` | `circuit.rs` and `Size` of `lib.rs`: serialized circuits, `circuit_id` | |
| `CircuitLoading` | `nymauth/mod.rs`, `profile.rs`, `lfc2.rs`: how nym_auth gets its circuits | `CircuitFile` |
| `Extend` | `fields/extend_p.rs`, `fields/ntt.rs`, `fields/field2_128/extend.rs` | `Field`, `BinaryField` |
| `BinaryField` | `fields/field2_128`: multiplication, subfield, `inject`, `uninject` | |
| `FiatOps` | `fields/fieldp256/`, `fieldp128/`, `fieldp256_scalar/`: generated arithmetic and conversions | |
| `AdditionChains` | `fields/addition_chains/` | |
| `QuadraticExtension` | `fields/quadratic_extension.rs`, `fields/fieldp256_2.rs` | |
| `Fields` | the operations of the fields, each a behaviour | the modules above |
| `FeatureFlag` | the cached CPU feature flag | |
| `GoFfi` | `go_ffi.rs`, called by several threads | `FeatureFlag` |
| `NymAuthCAbi` | `nymauth/c_abi.rs`, called by several threads | `GoFfi` |
| `TwoCircuitProof` | what both applications share: tags, bits, transcripts, the oracle | `Field` |
| `NymAuth` | `prove` and `verify` of `nymauth/mod.rs` | `TwoCircuitProof` |
| `MdocZk` | `mdoc_zk/mod.rs`, `prover.rs`, `verifier.rs` | `TwoCircuitProof` |
| `Ecdsa` | `mdoc_zk/ec.rs`, `nymauth/ecdsa.rs` | |
| `MdocParsing` | `mdoc_zk/mdoc/mod.rs`, and the offsets `CircuitInputs::new` makes of it | |
| `InputLayout` | `mdoc_zk/layout.rs`, `sha256.rs`'s padding, `bit_plucker.rs`'s widths | |

Modules named `MC...` give the constants small values; `MerkleTreeProofs`, `ChallengesProofs`,
`NymAuthProofs`, `MdocZkProofs`, `EncodingsProofs` and `GoFfiProofs` hold proofs (those about
`FeatureFlag` are few and in the module), and `TwoCircuitLemmas` the lemmas that both applications'
proofs need.
`Challenges`, `MCEncodings` (all that is serialized), `Fields` and `MCMdoc` (what `mdoc_zk` does with a
credential) put parts side by side that share inputs but no state: a behaviour takes up one of them,
and one run checks them all.

### How state and actions correspond to the code

* **MerkleTree.** The heap array is `digests`, the tree that `verify` fills in is `partial_tree`.
  An iteration of a loop is a step; `mark_tree`, which both sides call, is one action used twice.
  A digest is the pair of what was hashed, so that SHA-256 is free of collisions. `verify` starts
  from any list of distinct positions, leaves and proof nodes: from those of `prove`, or from
  arbitrary ones. `DistinctIndices` is the caller's obligation (columns are sampled without
  replacement).
* **Transcript.** The bytes written so far are the seed; the AES stream is named by its seed and a
  position, which is what makes "same challenge" mean "same messages". Every write drops the
  stream, the first challenge after it creates one. Rejected samples are a constant predicate.
  Writers and generators are generic in the field: each call is of one field, which is known by the
  number of bytes of its elements, and a transcript mixes fields, as those of `mdoc_zk` and `nymauth`
  mix elements of 16 and of 32 bytes. Nothing in the framing tells the field: a tag is of a kind of
  message, a count is of elements and not of bytes.
* **ColumnSampling.** One iteration of the shuffle is a step. `generate_natural` returns any value that
  some sampled bytes have once masked and not rejected; the naturals drawn are kept as a history.
  Several samplers run side by side so that their outcomes can be compared.
* **SparseArray / DenseArray.** The actions are the calls `run_protocol` makes. The refinement
  mapping sums the sparse elements at each position. `DenseArray` binds a function on all
  positions and knows nothing of order.
* **Sumcheck.** One action per round of a hand and per layer boundary. The symbolic constraint is
  the vector of factors `constraints/mod.rs` keeps; the prover's and the verifier's code is the same
  `run_protocol`, so the properties compare the constraint with the prover's own claim.
* **Ligero.** One action per step of the protocol: commit, draw challenges, combine rows, open,
  verify, and one in which a single element of the proof is altered on its way. The Merkle root is
  the set of leaves under it. The prover's assertion is an outcome (`"panicked"`).
* **ProofRuns.** One run encoded or decoded per step; an element is only its position and whether it
  lies in the subfield.
* **CircuitFile.** One quad is written or read per step, as jumps from the quad before. An altered file
  has one of the numbers of a quad changed; the numbers of quads and of layers are not, since they
  only say how many quads are read. A build with overflow checks panics where another wraps around.
* **CircuitLoading.** Authentication, the two conversions, the two decodings and the comparison are an
  action each, in `load`'s order; a term is expanded per step. An id is what the circuit
  computes, so that recomputing it means something. The artifact's digest is the artifact.
* **Fields.** `extend_precompute` and `extend` are an action each, the transforms inside are
  recursive functions; `uninject` removes one pivot per step, as the loop does. A Montgomery
  multiplication is a step per word, with every carry the generated code names; an addition chain is
  the sequence of its squarings and products, run on exponents.
* **GoFfi.** A call is a thread's sequence of steps: arguments are checked in the code's order, the
  body runs inside `catch_unwind` and ends in success, an error or a panic; during a verification
  the thread reads the feature flag. Verification itself is an outcome. The caller follows the
  ownership rules of the module's documentation.
* **NymAuthCAbi.** The other C ABI has the conventions of the first, and its module the state of
  `GoFfi` with the buffers it gives out; a behaviour (`abi`) is of one of the two. A call finds null
  arguments, converts the others, and ends in an outcome of the function it wraps, whose status the
  code works out: a panic of the proving system passes `guarded` first.
* **TwoCircuitProof, NymAuth, MdocZk.** Building the inputs, nym_auth's evaluation with a placeholder
  `a_v`, the commitments, the draw of `a_v`, the tags and each circuit's proof are an action each; the
  verifier has one per stage. What the modules above establish is taken from them: a root is named by
  what it commits to, a circuit's proof by the transcript it was made in, and the transcript's stream
  is a random oracle that remembers its answers. Field elements become bits in the signature
  circuit and are read back. In `MdocZk` a device response is a record of what the code reads of it;
  a response that cannot be read, or holds something too long for the circuits, has
  `parses = FALSE`. The circuits themselves are not part of the repository but for their files:
  `HashCircuitSatisfied` and `SignatureCircuitSatisfied` are what `circuit_interface.md` and the
  inputs they are given say of them.
* **Ecdsa.** A behaviour is one signature read and checked by mdoc_zk or by nym_auth, which have keys,
  checks and formulas of their own; the triple sum takes a step per bit. Coordinates are
  integers modulo a small prime, with the complete formulas of each application.
* **MdocParsing.** The bytes are a sequence of CBOR headers with their widths; a step reads one entry.
  Offsets are sums of widths, as the cursor's positions are.
* **InputLayout.** A wire is its slot. The vector is allocated, cut up one slot per step, and
  written one group of slots per step in the order of the code, each by its encoder.

## 3. What is checked

All runs but the two marked *violation* pass. "Faulty variant of X" operators in the modules are
plausible errors in X; each property is known to fail when its variant takes X's place.

| Run | What it shows |
|---|---|
| `merkle_tree` | `Completeness`: `verify` accepts what `prove` wrote; `Soundness`: it accepts no leaf but those of the tree, whatever it is given; `PartialTreeStable`: until `verify` returns, no step changes a node of its partial tree that has a value; `TypeOK`, which the proof of `Soundness` rests on |
| `challenges` | `StreamIsCurrent`: the cached stream is of all bytes written; `ChallengeBinding`: two challenges are equal only if the same messages came before, and exactly then if as many samples of the same fields were due since, for transcripts whose message types are decided by what was written before (`TypesDecided`). The restriction is needed in both modes: an element of two bytes can have the bytes of one of one byte and the message after it, and in `V3Compatibility` an array has the tag of an element besides. The protocols meet it: `mdoc_zk` and `nymauth` write the same types of messages in the same order, and a circuit's proof begins with the circuit's id, which fixes those that follow. `ColumnsDistinct`; `SamplingUnbiased`: the columns determine the naturals drawn, and every natural below a bound comes from equally many byte strings, so every list of columns has the same probability |
| `sparse_array` | `RefinesDense`: every call implements the dense array's |
| `sparse_array_documented` (*violation*) | A comment at `Ord` of the sparse array's elements says they are sorted by gate first; the comparison has the gate last |
| `sumcheck` | `OnlyTrueClaimsSurvive`: in every round the symbolic claim, with the witness filled in, is the sum of the bound quad over the bound wires, and a claim that is wrong stays so for all but two challenges, whatever polynomial is sent; `WitnessSatisfiesConstraints`: the honest witness meets the linear and the quadratic constraints handed to Ligero; `PadsUsedOnce`; `EvaluationSatisfiesQuads`: what `evaluate` computes satisfies every layer's combined quad for every challenge, where the prover panics over it some output is not zero for any challenge, and where it finds an assertion to fail no challenge but zero hides it |
| `ligero` | `HonestProofAccepted`; `VerdictIsLinearResidual`: a proof made by `prove` is accepted exactly when the challenges' combination of what the linear constraints lack is zero; `PanicsOnMissedProduct`: `prove` asserts exactly when a product is missed at some position; `AlteredProofRejected`: any single altered element is noticed |
| `encodings` | `RoundTrip`: opened columns that are decoded are those that were encoded, and an error means the bytes were cut short; `CircuitRoundTrip`: the same of circuits, encoding fails exactly where a size, an index or a jump is too long, and of an altered file a build that checks its arithmetic reads where the jumps lead or panics, where another wraps around; `ConversionIsExact`: the circuits that come of an artifact are term by term those it describes, and no build panics on the way; `LoadedIsDescribed`: what is loaded is a usable entry's artifact with the ids, numbers of inputs and widths of entry and descriptor, what is refused is not, and nothing is converted before it is authenticated; `CallsEnd` (liveness): the loops over opened columns end |
| `proof_runs_mixed` (*violation*) | Encoding fails for subfield, other and again subfield elements: the loop that should "seek to end of current run" counts all elements of the kind instead |
| `fields` | `ExtendIsInterpolation`: both extensions are Lagrange interpolation, from contexts that hold what they should; `ArithmeticIsOfAField`: generated arithmetic and conversions compute what they stand for, exponentiations reach the exponents of inverses and square roots, and the quadratic extension is a field with the roots of unity its table lists; `UninjectInverts`: the subfield is recognised, and `inject` gives the element back |
| `go_ffi` | `VerifiersAreTheCallers`, `VerifierOutlivesCalls`: ownership of handles under every interleaving of two threads, in both ABIs; `OutcomeIsReported`: a call leaves an error string exactly if it fails and a buffer exactly if it gives one out, none of another call's is left or lost, and the status of nym_auth's ABI tells the kind of error; `AnswersAreDetected`: the flag answers what the CPU supports although threads race to set it. Deadlock is checked |
| `nym_auth` | `HolderAccepted`: a proof handed on whole is accepted for its request; `AcceptedIsOneProof`: nothing else is, also when parts of two proofs are put together; `RefusedBeforeCommitment`: a false statement is refused before anything is committed to; `MacBindsCircuits`: when `a_v` is drawn, at most one of its values would let circuits that speak of different credentials pass with the same tags |
| `mdoc_zk` | `PresentationAccepted`: what is made for a request is accepted for it; `AcceptedIsShown`: what is accepted is true of a credential, for the verifier's issuer key, time, session and context; `SeedNotDisclosed`: whatever version 8 is asked for, an attribute it states is an item of that very name which is not the seed's, or, as the pseudonym, the hash of the seed for the call's context; `CheckedBeforeCommitment`: what the circuits would refuse is refused before the commitments, but for the cases named below; `SignaturesAreVerified`: either application makes the witness of a signature exactly if it verifies, but for the cases named below, and each recorded sum is that of the bits read so far; `ItemsAreRead`: what was issued is read, in every order and encoding, and every offset given to the circuit is that of what it looks for there; `EveryWireIsSet`: no vector panics for being cut up or filled, only what is too long is refused, and in the end no wire has the zero it was made with |

### What the runs say of corners of the code

* Asked for `pairwise_pseudonym`, a prover of version 6 looks the seed up and shows it under its own
  name; there is no pseudonym in that version. `PresentationAccepted` exempts the request, and
  `SeedNotDisclosed` speaks of version 8, whose circuit interface promises it.
* In version 8 a request for `pseudonym_seed` itself is not answered together with one for the
  pseudonym: `find_attributes` gives the item to the first request and leaves the loop.
* A device key wrapped in a byte string, and in version 7 any request for `pairwise_pseudonym`, are
  never proved, and what `CircuitInputs::new` passes of them fails only after both commitments, by the
  sumcheck prover's assertion. In version 7 the circuit compares the pseudonym with the item. Without
  a context, `CircuitInputs::new` refuses a seed and passes an attribute of that name that is none;
  with one it passes both. `prove` gives no context and `prove_with_ppid` refuses versions but 8, but
  `prove_with_ppid_wasm` gives one whatever the version. `CheckedBeforeCommitment` exempts exactly
  these cases (`Unseen`).
* `OutOfReach` names the valid signatures that `fill_ecdsa_witness` refuses: with a hash not below the
  field's modulus, with a point whose x-coordinate is not below the group's order, or with two of
  the three points cancelling each other in the table of sums. `verification` of nym_auth reduces the
  hash and the x-coordinate, and refuses a point whose x-coordinate is zero, for it writes an inverse.
* In version 6 the offset of an element's identifier counts on its key being encoded in 18 bytes;
  `ItemsAreRead` exempts items with another encoding of that key, whose proof the circuit refuses.
* The header and `c_abi.rs:9` give status -100 to a caught panic. `guarded` turns a panic in `new`,
  `prove` or `verify` into a failure of the prover before the entry point can catch it, so a
  verification that panics ends with -6 and only the derivation of challenges and digests with -100;
  `StatusTellsError` says which.
* An item of 256 bytes or more meets a debug assertion; a build without it refuses the item for its
  length. `DebugBuild` is a constant of the module.

### Bounds, and why they are enough

* `MCMerkleTree`: one to four leaves (three is the first count with leaves on two levels, and four the
  first with an inner level without leaves), every list of distinct positions, up to three forged
  nodes of two levels.
* `MCChallenges`: two transcripts (nothing tells them apart, so the run is symmetric in them) of up to
  three messages, the session's included, and as many samples after the last as make four with the
  messages (`MaxSteps`), so that something is drawn after the bindings, and of fields that may differ
  from one sample to the next; elements of one byte and of two, which are enough for two lists of
  messages with the same bytes in `Normal` mode; bytes that are also tags and lengths,
  zero counts before, at and after a whole chunk of two, and rejected samples. For columns,
  bytes of two bits, so bounds of one and of two bytes occur, at powers of two and between them;
  two samplers of the same request draw every pair of lists of naturals.
* `MCSparseArray`: every layer of up to three quads with two gates and four wires on each side, and
  every sequence of two challenges. Three quads are the least for a pair and a stranger between.
* `MCSumcheck`: three circuits: two layers with shared wires and an assertion, one layer with an
  assertion of two quads, and a layer with one wire (no rounds); every input, in a field of large
  characteristic and in one of characteristic two, with three streams of pads.
* `MCLigero`: two witness rows, a full and an empty row of copies (QR < WR), two linear constraints;
  the field of order 11 has exactly the columns needed; four challenge streams, among them zeros.
* `MCEncodings`: every mix of up to seven elements with runs of at most three, so runs are split, empty
  and cut short. Sizes have 13 bits and words 15, so that nine of the longest jumps leave a
  word; indices and jumps before, at and over each limit, in both directions; an artifact with
  every single fault `load` looks for, and the slot maps of `profile.rs`'s tests.
* `MCFields`: every pair of lengths up to 6 nodes and 16 values over order 17; over order 64 every
  pair of lengths within the subfield of order 8 (before, at and after powers of two), and each of
  the 64 elements for `uninject`. The nodes are vectors of 0 and 7 in the first field and, extension
  being linear, multiples of unit vectors in the second. The generated arithmetic runs on words of
  2, 4 and 3 bits with primes 199, 241 and 59, whose limbs have the shape of the code's (a
  zero word, a word of ones, a final carry); exponents have their real 128 and 256 bits.
* `MCGoFfi`: two threads, two handles, two strings and two buffers, and calls with none, one or two
  bad arguments. Nothing tells a thread or an address from the others, so the run is symmetric in
  each.
* `MCNymAuth`: two calls of `prove` with every combination of a request (one per field that may
  differ), a credential, a seed and key shares, then one of `verify` with any parts of the two. The
  messages of the three credentials differ in one or in both tags.
* `MCMdoc`: fifteen responses (one good, one for each thing that can be wrong, and one of another
  issuer), requests for one attribute, two, twice the same and one that is not there, times
  before, at and after validity, two contexts and none. The curve y^2 = x^3 - 3x + 15 over the field
  of order 23 has 17 points, a prime, so every sum of multiples of two points comes up, some with an
  x-coordinate over the order; hashes, r and s are taken at zero, around the order and over it.
  Items in all 24 orders of their entries, with indefinite lengths, segmented keys and values that
  hold the name of an entry. Layouts have the real numbers: versions 6 to 8 with zero to five
  attributes, contents at and over each bound.

`CHECK_DEADLOCK FALSE` is set where a behaviour is a fixed number of calls that end; the foreign
callers of `go_ffi` never end, so that deadlock means an error there. Only `merkle_tree` runs a type
invariant: elsewhere a value out of its type breaks the evaluation of the properties that are run.

### Fairness

Only `ProofRuns` states fairness, WF of the whole next-state relation, for `CallsEnd`: a call is a
sequential loop on one thread, so an iteration is followed by the next as long as the loop's
condition holds. Losing the end of an encoded proof can happen once at most. No other module
promises that something happens; in particular the foreign caller need never call.

### What the models take from the code as obligations

* Circuits meet what `check_invariants` tests of them (wires exist, quads are sorted):
  `CircuitsAssumption`. `run_protocol`'s `bind` panics if `logw` exceeds the bits of the number of wires.
* `QR <= WR` in Ligero's parameters. Row triples are counted by QR and filled WR to a row, so a
  larger QR would leave constraints out; the parameters that both applications compute have QR equal
  to WR (`EveryWireIsSet` checks it of those of `mdoc_zk`).
* `extend` is asked for more evaluations than nodes, as its debug assertion says; in the binary field
  as many as nodes are allowed too.
* `evaluate` reports a failed assertion but not an output that is not zero, which `prove` then
  asserts; `EvaluationSatisfiesQuads` is stated accordingly.

## 4. What is proved

TLAPS checks the following for every value of the constants allowed by the named assumptions.

* `MerkleTreeProofs`: `TypeCorrect` and `InclusionSound` (`Spec => []Soundness`). `Soundness` is about
  the last step only, so it is strengthened to `SoundnessInv`, the conjunction of what each loop has
  done so far: marked nodes are ancestors of requested leaves (`MarkedLeaves`, `MarkedInner`), received nodes are
  placed where `prove` reads them (`Placed`), leaves are filled in (`Filled`), and a hashed node that
  equals the true one has true children (`Hashed`). The last holds because digests are pairs; at the
  root it gives true leaves by induction down the path, for which `LeastElement` states that
  a set of numbers has a least one.
  `DigestsStable` (`Spec => PartialTreeStable`) is an action property: `verify` fills, hashes and
  compares in one array, and no step replaces a digest by another. `KnownInv` says where a digest
  that is known comes from: it is the unmarked child of a marked node, which the proof supplies,
  first only for the nodes the loop has passed (`OneParent` tells such children apart), or later a
  marked node, but no inner one still to be hashed. So each loop writes to empty places.
  `HonestAccepted` (`Spec => []Completeness`): a proof made for distinct leaves, listed in any order,
  is accepted. `prove` and `verify` mark the same nodes although neither knows what the other marked,
  for a marking is determined by the leaves (`SameMarking`). `HonestInv` relates the two loops:
  `prove` lists the siblings of needed nodes from the end, so the place of a sibling in the proof is the
  number of needed nodes not before it (`Count`), and `verify`, which counts the other way, takes out
  at each node what was put in for it (`Lists`); all digests it knows are the tree's, the root's parts
  are among them (`RootMarked`), and in the end the proof is used up.
* `ChallengesProofs`: `ChallengesAreCurrent` (`Spec => []StreamIsCurrent`), from one lemma for all
  writers (the stream is dropped) and one for all generators (the stream is of the current seed).
  `ChallengesBind` (`Spec => []ChallengeBinding`) says which challenges are equal. `BindingInv` has, of
  every transcript, that its bytes are those of its messages one after another, each a tag, a count
  where the kind has one, and the data (`Framed`, with the offsets where they end), and that its
  challenges are samples of the one stream of these bytes, at positions that only rise (`Chain`).
  Lists of messages with the same bytes are the same list (`FramesAreRead`): where they would differ
  first, both have the same tag, hence by `TypesDecided` the same kind and field, hence the same
  length and data. Without `TypesDecided` this is false in either mode, since no frame tells the width
  of its elements; with it, it holds for any number of fields of any widths. Conversely a list of
  messages has one list of bytes (`FramesAreWritten`), and a stream one sample in each
  place (`ChainIsUnique`, `ChainRises`), however the
  samples are spread over calls of the generators (`ChainGoesOn`). On the way, the loop of
  `write_zero_array` is shown to write as many zeros as it was asked for, for every size of its
  buffer (`AllZerosAreWritten`). The model's bound on samples rejected in a row is a guard
  (`AcceptedInTime`); the theorem holds for every value of it and every `Rejected`.
  `DistinctColumns` (`SamplingSpec => []ColumnsDistinct`): a draw is a swap of two
  positions (`DrawIsSwap`), so the list stays a permutation, and columns are its prefix.
  `ColumnsAreUnbiased` (`SamplingSpec => []SamplingUnbiased`) has two halves. A value once drawn stays
  where it is (`DrawnStays`) and no list repeats a value (`ShufflesAreInjective`), so the columns
  returned give back each natural they were drawn with (`DrawsDetermined`); that each list comes from
  such a shuffle is the inductive invariant `ListsAreShuffled`. And the strings of sampled bytes are as
  the numbers below their number (`StringsAreNumbers`: every number is the value of one string, found
  by dividing), which is a multiple of the power of two the excess bits are masked off to, at least
  the bound (`BytesAreEnough`), so each remainder is as frequent as 0 (`ResiduesAlike`). The
  provers know nothing of powers of two; `PowersOfTwo` counts subsets to get `2^(n + 1) = 2 * 2^n`.
* `FeatureFlag`: `FlagIsRaceFree` for any number of threads: `IInv` says that the shared state and every
  thread's copy are either empty or what detection yields, which `fetch_or` preserves.
* `GoFfiProofs`: `HandlesAreOwned` (`ForeignSpec => []VerifiersAreTheCallers`) and `HandlesOutliveCalls`
  (`ForeignSpec => []VerifierOutlivesCalls`), for any number of threads and calls of both C ABIs. A
  call takes whatever handle it is given, so `HandleInv` says that a handle a call has yet to use is
  held, or is null and will be found by the checks before its use. `CallersShareFlag` shows that
  the composed system implements `FeatureFlag`, so `FlagIsRaceFree` holds of it.
  `OutcomesAreReported` (`ForeignSpec => []OutcomeIsReported`): `ReportInv` says of every slot for a
  string or a buffer that what is in it is live and in no other slot (`Slots`), which the property
  does not, but a call that fills its slot while another's string is freed must not be given the same
  one; and of every call what its slots hold at each stage, up to the status it returns, which
  `guarded` and the entry points work out from the outcome (`StatusFitsOutcome`).
* `NymAuthProofs`: `RefusesInTime` (`Spec => []RefusedBeforeCommitment`). The invariant `IInv` adds that
  both vectors are filled from the same key shares and messages (`SameShares`), that
  the statement holds but for the tags once the first evaluation passed (`StatementHolds`), and that
  the tags are rewritten in place and nothing else is (`TaggedKeep`). With that, the second evaluation
  passes for every `a_v`, because bits read back are the element (`VectorRoundTrip`). It is for
  all requests, credentials and key shares and any number of proofs, over the field of order four
  and two messages (`NymAuthAssumption`). `WholeProofsAccepted` (`Spec => []HolderAccepted`) and
  `OnlyOneProofAccepted` (`Spec => []AcceptedIsOneProof`) are over the same instances, and also rest on
  the assumption that a request has the fields of `NymAuthRequest` and no others. `AllInv` adds what
  each call has done to `IInv`: every proof is `Genuine`, that is, both parts were made for one request
  with the share drawn for its prefix (`ProofsInv`); the vectors and the transcript of the call in
  progress are those of its request (`CallInv`); and so are the verifier's (`VerifierInv`). A share
  once drawn stays what it is (`ProofsKept`), so a whole proof is checked in the transcript it was made
  in. That a transcript can be read back gives the
  converse: the signature part, made last, fixes the request, the pseudonym, both commitments, the
  tags and with them the rest of the proof (`AcceptedWhole`).
  `TagsBindCircuits` (`Spec => []MacBindsCircuits`): `BindInv` says that every commitment is of
  elements, a hash circuit's directly and a signature circuit's as bits, and that a verifier draws
  `a_v` when it has read both. Then `a_v` comes after the key shares it must hide from, and if the
  messages of the two circuits differ in one place, the tags of that place agree for one value of
  `a_v` at most, since two lines of different slope meet once (`OneShareHides`).
* `MdocZkProofs`, over versions 6 to 8, every set of device responses, requests and key shares
  (`MdocZkAssumption`, on the form of the records that stand for them): `PresentationsAccepted`,
  `OnlyShownIsAccepted`, `RefusedBeforeCommitment` and `SeedIsNotDisclosed`, which state the four properties of
  `MdocZk` that the run checks. `AllInv` is the conjunction of `ProverInv` (from the step in
  which `CircuitInputs::new` returns, both vectors are those of the arguments and pass its checks; each part of
  the proof is then of these vectors, in the transcript that the parts before it give), of
  `DrawnFromShares` and of `VerifierInv` (what each stage of the verifier has compared). The circuits
  are satisfied by vectors that pass the checks (`HashIsSatisfied`, `SignatureIsSatisfied`), but for the
  cases of `Unseen`, by which they are not (`UnseenIsRefused`). A request is looked up by a chain of searches, so
  the lemmas `ItemIsFound`, `CallItem` and `PseudonymIsOfASeed` say which item stands behind a stated
  attribute; `SeedIsNotDisclosed` needs them for lists in which the pseudonym is asked for twice, or
  together with its seed. `OnlyShownIsAccepted` goes back from what a verifier accepts: the transcript
  that a part was made in gives the statement (`TwoCircuitLemmas`), the tags tie the two circuits
  together, and both statements are then those of one credential.
* `EncodingsProofs`: `ColumnsRoundTrip` (`Spec => []RoundTrip` of `ProofRuns`), for every mix of elements and
  every `MAX_RUN_LENGTH`. The encoder makes a run as long as there are elements of its kind further
  on, which is not where the kind changes, so the invariant says what runs hold rather than why they
  end: they cover the elements not yet read, one after another, alternate in kind, and begin at an
  element that there is (`Cover`). Appending a run, losing the last one and reading the first one keep
  that (`CoverAppended`, `CoverCutShort`, `CoverRead`). Since a run begins at an element, losing the
  last one leaves less than all, which the decoder notices; otherwise none of its checks fails.
  `CircuitFilesAreRead` and `ConversionsAreExact` (`LoadingSpec => []CircuitRoundTrip` and
  `[]ConversionIsExact`) are for all circuits and all artifacts, whatever the limits of sizes and
  words (`CircuitFileAssumption`, `WrittenAssumption`, `LoadsAssumption`: the types of what is
  written and read, and that the limits of `lfc2.rs` fit a size). Their inductive invariant is
  `FilesInv`. Neither property says anything before a circuit is decoded as a whole, so it must say
  what is there of one at each quad: while a file is written, its jumps are those of the circuit meant
  up to `at`, each fits a size, and no index left a word (`WritingInv`); while it is read, what is
  decoded is the sum of the jumps up to `at`, modulo a word where the build wraps around
  (`ReadingInv`); and an error or a panic has its reason in the circuit, or in the file if that was
  altered (`VerdictInv`). The circuit meant by a conversion is `FromLfc2`, the indices of the terms
  as sums over the integers (`IndicesIn`); that the wrapping additions of `lfc2.rs` compute them is the
  step `ConvertTerm`: where they would differ the jump to be written is at least half a size, and
  the conversion stops. So the indices of a converted file are within a word, and decoding
  it cannot panic. Sums and concatenations are recursive functions, of which the lemmas give the
  equations (`SumsExist` and those after it), proved by the least counterexample.
  `LoadsAreDescribed` (`LoadingSpec => []LoadedIsDescribed`) adds both directions of what `load`
  answers. What was found of an artifact so far is `LoadInv`: the entry is usable from `profile` on,
  the artifact the entry's from `convert` on; as far as circuits and layers have been converted they
  are within the limits (`Checked`) and their terms counted; the fields agree as far as they have been
  decoded. So each refusal contradicts one conjunct of `Described` (`LoadEnds`): the partial sums of
  terms do not exceed the whole (`TermsGrow`), and a term is refused just if its jump is too long
  or leads out of a word (`ShortFits`). Conversely a file that was written whole has only short
  jumps (`FittingIsShort`). `BuildIs` is the part about slot maps: `build` looks at positions in a
  concatenation, `EverySlotHasItsBit` at pairs of a run and an offset, and the lemmas from
  `Enumerates` on give the one-to-one correspondence between the two.
* `TwoCircuitLemmas`: bits read back are the element, sums and products stay in the field, and a
  transcript tells what was written to it. The field is the one of order four in both applications
  (`TwoCircuitAssumption`); its tables are worked out by cases.

Induction over data is done with the least counterexample throughout: `LeastElement` is the only
instance of well-founded induction used. Where the code's value is a recursive function
(`Samples`, `ZeroBytes`), its equation is proved the same way.

Only model-checked:

* liveness (`CallsEnd`), which needs `ENABLED`;
* the refinement of `DenseArray`, the sums of sumcheck (`OnlyTrueClaimsSurvive`,
  `WitnessSatisfiesConstraints`, `EvaluationSatisfiesQuads`) and the interpolations
  (`ExtendIsInterpolation`), whose definitions are folds and recursive operators over the data, and
  Ligero, which is built on interpolation;
* `ArithmeticIsOfAField` and `UninjectInverts`: products of words modulo a prime and powers in a field of
  polynomials, non-linear arithmetic that no prover here decides for all values;
* `SignaturesAreVerified`: it needs that the points of a curve are a group;
* `PadsUsedOnce`, `ItemsAreRead` and `EveryWireIsSet`, which could be proved and are not yet.

## 5. What is not modelled, and the plan

Left out for good: SIMD and bit-sliced backends, the rounds of SHA-256 and of AES, the values of
plucked bits, dates and certificates, what serde derives for the outer structure of a device
response, and wrappers without state. SHA-256 and AES are idealised, so statements about probability
are not made: where the protocol is sound except with small probability, a property says which
challenges are the exceptions (`VerdictIsLinearResidual`, `MacBindsCircuits`). COSE headers and
the chain of certificates are a flag of a response. Offsets over 4095 are not in
`MdocParsing`; `EveryWireIsSet` shows that they cannot occur once the credential fits its blocks.

What is left, in order:

1. `zk_one_circuit`: `Transcript`, `Sumcheck` and `Ligero` composed, with an abstract specification (a
   proof is accepted for the statements it was made for) that it, `NymAuth` and `MdocZk` implement.
2. The rest of nym_auth's witnesses (`nymauth/sha.rs`, `mdoc.rs`, `cbor.rs`, `challenge.rs`), which are
   sequential conversions.
3. The encoding of the sumcheck proof and the fixed-length fields around the opened columns.
4. Theorems: `PadsUsedOnce`, `ItemsAreRead` and `EveryWireIsSet`.
