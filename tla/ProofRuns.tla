----------------------------- MODULE ProofRuns -----------------------------
(***************************************************************************)
(* The opened columns of a Ligero proof as they are serialized             *)
(* (ligero/prover.rs, encode_with_param and decode_with_param): runs, each *)
(* behind its length, of field elements and of elements written as members *)
(* of the subfield by turns.  The encoder writes one run to a step, the    *)
(* decoder reads one to a step.                                            *)
(***************************************************************************)
EXTENDS Integers, Sequences, FiniteSets

CONSTANTS
    MaxElements,       \* bound: the elements of a proof
    MAX_RUN_LENGTH

ASSUME ProofRunsAssumption == MaxElements \in Nat /\ MAX_RUN_LENGTH \in Nat \ {0}

VARIABLES
    column_elements,   \* is element i in the subfield?
    written,           \* column_elements_written
    is_subfield_run,   \* the kind of the next run, for encoder or decoder
    runs,              \* the runs in the serialized proof that are not yet read
    cut,               \* history: was the serialized proof cut short?
    decoded,           \* the elements decoded, by their positions
    result             \* what the call in progress returns

vars == <<column_elements, written, is_subfield_run, runs, cut, decoded, result>>

Count == Len(column_elements)

Init ==
    /\ \E n \in 0..MaxElements : column_elements \in [1..n -> BOOLEAN]
    /\ written = 0
    /\ is_subfield_run = FALSE
    /\ runs = <<>>
    /\ cut = FALSE
    /\ decoded = <<>>
    /\ result = "encoding"

-----------------------------------------------------------------------------
(* encode_with_param.                                                      *)

AtMost(bound, n) == IF n > bound THEN bound ELSE n

\* The loop counts the elements of the current kind among all that are left,
\* up to the maximum: it does not stop at one of the other kind.
run_length ==
    AtMost(MAX_RUN_LENGTH,
           Cardinality({i \in (written + 1)..Count : column_elements[i] = is_subfield_run}))

\* encode_in_subfield fails for an element outside the subfield.
Encodable(from, length) ==
    is_subfield_run => \A i \in from..(from + length - 1) : column_elements[i]

\* Faulty variant of encode_run: empty runs are not written.
encode_run_nonempty ==
    /\ result = "encoding" /\ written < Count
    /\ Encodable(written + 1, run_length)
    /\ runs' = IF run_length = 0 THEN runs
               ELSE Append(runs, [in_subfield |-> is_subfield_run, length |-> run_length,
                                  first |-> written + 1])
    /\ written' = written + run_length
    /\ is_subfield_run' = ~is_subfield_run
    /\ UNCHANGED <<column_elements, cut, decoded, result>>

\* Faulty variant of encode_run: an empty run does not change the kind.
encode_run_unchanged ==
    /\ result = "encoding" /\ written < Count
    /\ Encodable(written + 1, run_length)
    /\ runs' = IF run_length = 0 THEN runs
               ELSE Append(runs, [in_subfield |-> is_subfield_run, length |-> run_length,
                                  first |-> written + 1])
    /\ written' = written + run_length
    /\ is_subfield_run' = IF run_length = 0 THEN is_subfield_run ELSE ~is_subfield_run
    /\ UNCHANGED <<column_elements, cut, decoded, result>>

encode_run ==
    /\ result = "encoding" /\ written < Count
    /\ Encodable(written + 1, run_length)
    /\ runs' = Append(runs, [in_subfield |-> is_subfield_run, length |-> run_length,
                             first |-> written + 1])
    /\ written' = written + run_length
    /\ is_subfield_run' = ~is_subfield_run
    /\ UNCHANGED <<column_elements, cut, decoded, result>>

encode_fails ==
    /\ result = "encoding" /\ written < Count
    /\ ~Encodable(written + 1, run_length)
    /\ result' = "encode error"
    /\ UNCHANGED <<column_elements, written, is_subfield_run, runs, cut, decoded>>

\* The proof is complete; another party starts to decode it.
encode_ends ==
    /\ result = "encoding" /\ written = Count
    /\ result' = "decoding"
    /\ is_subfield_run' = FALSE
    /\ UNCHANGED <<column_elements, written, runs, cut, decoded>>

\* The serialized proof is cut short in its last run.
lose_end ==
    /\ result = "decoding" /\ decoded = <<>> /\ ~cut /\ runs # <<>>
    /\ cut' = TRUE
    /\ runs' = SubSeq(runs, 1, Len(runs) - 1)
    /\ UNCHANGED <<column_elements, written, is_subfield_run, decoded, result>>

-----------------------------------------------------------------------------
(* decode_with_param, which knows how many elements there must be.         *)

decode_run ==
    /\ result = "decoding" /\ Len(decoded) < Count /\ runs # <<>>
    /\ Head(runs).length <= MAX_RUN_LENGTH
    /\ Head(runs).length + Len(decoded) <= Count
    /\ Head(runs).in_subfield = is_subfield_run
    /\ decoded' = decoded \o [i \in 1..Head(runs).length |-> Head(runs).first + i - 1]
    /\ runs' = Tail(runs)
    /\ is_subfield_run' = ~is_subfield_run
    /\ UNCHANGED <<column_elements, written, cut, result>>

\* The proof ends early, a run is too long, or elements of the wrong size
\* are read.
decode_fails ==
    /\ result = "decoding" /\ Len(decoded) < Count
    /\ \/ runs = <<>>
       \/ /\ runs # <<>>
          /\ \/ Head(runs).length > MAX_RUN_LENGTH
             \/ Head(runs).length + Len(decoded) > Count
             \/ Head(runs).in_subfield # is_subfield_run
    /\ result' = "decode error"
    /\ UNCHANGED <<column_elements, written, is_subfield_run, runs, cut, decoded>>

decode_ends ==
    /\ result = "decoding" /\ Len(decoded) = Count
    /\ result' = "decoded"
    /\ UNCHANGED <<column_elements, written, is_subfield_run, runs, cut, decoded>>

Next ==
    \/ encode_run \/ encode_fails \/ encode_ends \/ lose_end
    \/ decode_run \/ decode_fails \/ decode_ends

\* A call runs to its end: each iteration of its loop is followed by the next.
Spec == Init /\ [][Next]_vars /\ WF_vars(Next)

-----------------------------------------------------------------------------
(* Properties.                                                             *)

\* A proof that was encoded and arrives whole is decoded to the elements it
\* was made from, in their order, though the encoder's runs hold elements
\* of both kinds; a proof cut short is an error.
RoundTrip ==
    /\ result = "decoded" => decoded = [i \in 1..Count |-> i]
    /\ result \in {"decoded", "decode error"} =>
          (result = "decode error" <=> cut)

\* Both calls end, with a result, for every mix of elements: no two runs in a
\* row are empty, so that the loops make progress.
CallsEnd == <>(result \in {"decoded", "encode error", "decode error"})

\* Every proof can be encoded: "Seek to end of current run" ends a run where
\* an element of the other kind comes, and no subfield run holds a field element.
EncodeSucceeds == result # "encode error"
=============================================================================
