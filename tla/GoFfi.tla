------------------------------- MODULE GoFfi -------------------------------
(***************************************************************************)
(* The C ABI of go_ffi.rs, called by many threads at once.  Rust           *)
(* allocates verifiers and error strings and gives them to the caller, who *)
(* gives each back exactly once.  While a verification multiplies field    *)
(* elements its thread reads the feature flag that all threads share.      *)
(*                                                                         *)
(* The caller keeps the obligations of the module documentation: it uses a *)
(* verifier only before it frees it, frees it only when no call uses it,   *)
(* and frees an error string before it uses its error_out again.  An       *)
(* allocation that is freed may be handed out again under the same name.   *)
(***************************************************************************)
EXTENDS FeatureFlag, Integers, Sequences, FiniteSets, TLC

CONSTANTS
    Verifiers,     \* addresses of verifiers
    Strings,       \* addresses of error strings
    Versions,      \* the values of circuit_version passed
    BadArguments   \* the sets of arguments that a call may get wrong

\* The checks on the arguments, in the order in which they are made.
InitializeChecks == <<"circuit null", "circuit empty", "circuit_version">>
VerifyChecks ==
    <<"verifier", "issuer_pk", "attributes", "identifier", "value_cbor", "doc_type",
      "device_name_spaces_bytes", "session_transcript", "time", "verifier_context_len",
      "verifier_context", "proof", "proof empty">>

Null == "null"
Garbage == "garbage"    \* what *error_out holds before its first use

\* Every failing call can have its string; nothing is allocated at the null address, or at
\* the value of a pointer that was never set.
ASSUME GoFfiAssumption ==
    /\ Cardinality(Strings) >= Cardinality(Threads)
    /\ Strings \cap {Null, Garbage} = {}
    /\ Null \notin Verifiers
    /\ BadArguments \subseteq
         (SUBSET {VerifyChecks[k] : k \in DOMAIN VerifyChecks}) \cup
         (SUBSET {InitializeChecks[k] : k \in DOMAIN InitializeChecks})
    /\ Versions \subseteq 0..255

VARIABLES
    verifiers,   \* live verifiers, with the circuit version of each
    strings,     \* live error strings
    held,        \* the verifiers the caller may pass
    error_slot,  \* what each thread's *error_out holds
    call         \* the call each thread is in

ffi_vars == <<verifiers, strings, held, error_slot, call>>
all_vars == <<ffi_vars, vars>>

NoCall == [stage |-> "none"]

FfiInit ==
    /\ Init
    /\ verifiers = <<>>
    /\ strings = {}
    /\ held = {}
    /\ error_slot = [t \in Threads |-> Garbage]
    /\ call = [t \in Threads |-> NoCall]

-----------------------------------------------------------------------------

InStage(t, function, stage) ==
    call[t].stage = stage /\ call[t].function = function

\* The first check that fails, of those in a sequence.
FirstFailing(checks, bad) ==
    checks[CHOOSE k \in DOMAIN checks :
              checks[k] \in bad /\ \A j \in 1..(k - 1) : checks[j] \notin bad]

Fails(checks, bad) == \E k \in DOMAIN checks : checks[k] \in bad

Ok == [kind |-> "ok", message |-> "none"]
Error(message) == [kind |-> "error", message |-> message]
Panic == [kind |-> "panic", message |-> "panic in FFI call"]

\* Faulty variant of clear_error_out: left to the caller.
clear_error_out_never(t, wants_error) == error_slot' = error_slot

clear_error_out(t, wants_error) ==
    error_slot' = IF wants_error THEN [error_slot EXCEPT ![t] = Null] ELSE error_slot

\* A record with the fields of another added, or replaced.
Over(new, old) ==
    [field \in DOMAIN new \cup DOMAIN old |-> IF field \in DOMAIN new THEN new[field] ELSE old[field]]

\* A call begins; the caller has freed the string of its last one.
Enter(t, new_call) ==
    /\ call[t] = NoCall
    /\ error_slot[t] \in {Null, Garbage}
    /\ \E wants_error \in BOOLEAN :
         /\ clear_error_out(t, wants_error)
         /\ call' = [call EXCEPT ![t] =
                       Over(new_call, [stage |-> "running", wants_error |-> wants_error])]
    /\ UNCHANGED <<vars, verifiers, strings, held>>

\* catch_unwind of the closure: Ok, an error or the payload of a panic.
Caught(t, result) ==
    /\ call' = [call EXCEPT ![t] = Over([result |-> result, stage |-> "caught"], call[t])]
    /\ UNCHANGED <<strings, held, error_slot>>

\* What the call returns, with its message.
set_error_out(t) ==
    IF call[t].wants_error
    THEN \E s \in Strings \ strings :
           /\ strings' = strings \cup {s}
           /\ error_slot' = [error_slot EXCEPT ![t] = s]
    ELSE UNCHANGED <<strings, error_slot>>

Return(t, value) ==
    call' = [call EXCEPT ![t] = Over(value, Over([stage |-> "returned"], call[t]))]

-----------------------------------------------------------------------------
(* rust_initialize_verifier.                                               *)

\* Bound: as many verifiers as there are addresses, those of calls included.
MayInitialize ==
    Cardinality(DOMAIN verifiers)
        + Cardinality({t \in Threads : /\ call[t] # NoCall /\ call[t].function = "initialize"
                                       /\ call[t].stage # "returned"})
      < Cardinality(Verifiers)

initialize_enter(t) ==
    /\ MayInitialize
    /\ \E bad \in BadArguments, version \in Versions :
         /\ bad \subseteq {"circuit null", "circuit empty"}
         /\ Enter(t, [function |-> "initialize", version |-> version,
                      bad |-> bad \cup (IF version \in {6, 7, 8} THEN {} ELSE {"circuit_version"})])

\* MdocZkVerifier::new decodes a circuit: it may refuse it or panic.
initialize_run(t) ==
    /\ InStage(t, "initialize", "running")
    /\ IF Fails(InitializeChecks, call[t].bad)
       THEN Caught(t, Error(FirstFailing(InitializeChecks, call[t].bad)))
       ELSE \E result \in {Ok, Error("new"), Panic} : Caught(t, result)
    /\ UNCHANGED <<vars, verifiers>>

\* Box::into_raw, or null and the message.
initialize_return(t) ==
    /\ InStage(t, "initialize", "caught")
    /\ \/ /\ call[t].result = Ok
          /\ \E v \in Verifiers \ DOMAIN verifiers :
               /\ verifiers' = [w \in DOMAIN verifiers \cup {v} |->
                                   IF w = v THEN call[t].version ELSE verifiers[w]]
               /\ held' = held \cup {v}
               /\ Return(t, [pointer |-> v])
          /\ UNCHANGED <<strings, error_slot>>
       \/ /\ call[t].result # Ok
          /\ set_error_out(t)
          /\ Return(t, [pointer |-> Null])
          /\ UNCHANGED <<verifiers, held>>
    /\ UNCHANGED vars

-----------------------------------------------------------------------------
(* rust_verify_with_ppid.                                                  *)

verify_enter(t) ==
    \E bad \in BadArguments, verifier \in held \cup {Null} :
        /\ bad \subseteq {VerifyChecks[k] : k \in 2..Len(VerifyChecks)}
        /\ Enter(t, [function |-> "verify", verifier |-> verifier,
                     bad |-> bad \cup (IF verifier = Null THEN {"verifier"} ELSE {})])

\* Faulty variant of verify_check: the verifier is used before it is checked.
verify_check_late(t) ==
    /\ InStage(t, "verify", "running")
    /\ IF Fails(Tail(VerifyChecks), call[t].bad)
       THEN Caught(t, Error(FirstFailing(Tail(VerifyChecks), call[t].bad)))
       ELSE /\ call' = [call EXCEPT ![t].stage = "verifying"]
            /\ UNCHANGED <<strings, held, error_slot>>
    /\ UNCHANGED <<vars, verifiers>>

\* The arguments are converted one by one; the first that is wrong is an error.
verify_check(t) ==
    /\ InStage(t, "verify", "running")
    /\ IF Fails(VerifyChecks, call[t].bad)
       THEN Caught(t, Error(FirstFailing(VerifyChecks, call[t].bad)))
       ELSE /\ call' = [call EXCEPT ![t].stage = "verifying"]
            /\ UNCHANGED <<strings, held, error_slot>>
    /\ UNCHANGED <<vars, verifiers>>

\* The verification multiplies, which reads the feature flag.
multiply(t) ==
    /\ InStage(t, "verify", "verifying")
    /\ verifiers[call[t].verifier] = 8
    /\ load(t) \/ callback(t) \/ fetch_or(t) \/ return(t)
    /\ UNCHANGED ffi_vars

\* MdocZkVerifier::verify_with_ppid borrows the verifier, and leaves it alone
\* however it ends.  Only a V8 verifier goes on to multiply.
verify_conclude(t) ==
    /\ InStage(t, "verify", "verifying")
    /\ pc[t] = "load"
    /\ IF verifiers[call[t].verifier] # 8
       THEN Caught(t, Error("version"))
       ELSE \E result \in {Error("proof"), Panic} \cup (IF answer[t] = "none" THEN {} ELSE {Ok}) :
               Caught(t, result)
    /\ UNCHANGED <<vars, verifiers>>

\* Faulty variant of verify_return: the verifier was taken back as a Box, and
\* is dropped at the end of the call.
verify_return_dropping(t) ==
    /\ InStage(t, "verify", "caught")
    /\ \/ call[t].result = Ok /\ Return(t, [status |-> 0]) /\ UNCHANGED <<strings, error_slot>>
       \/ call[t].result.kind = "error" /\ Return(t, [status |-> -1]) /\ set_error_out(t)
       \/ call[t].result.kind = "panic" /\ Return(t, [status |-> -2]) /\ set_error_out(t)
    /\ verifiers' = [w \in DOMAIN verifiers \ {call[t].verifier} |-> verifiers[w]]
    /\ UNCHANGED <<vars, held>>

verify_return(t) ==
    /\ InStage(t, "verify", "caught")
    /\ \/ call[t].result = Ok /\ Return(t, [status |-> 0]) /\ UNCHANGED <<strings, error_slot>>
       \/ call[t].result.kind = "error" /\ Return(t, [status |-> -1]) /\ set_error_out(t)
       \/ call[t].result.kind = "panic" /\ Return(t, [status |-> -2]) /\ set_error_out(t)
    /\ UNCHANGED <<vars, verifiers, held>>

-----------------------------------------------------------------------------
(* The caller, and what it frees.                                          *)

\* The caller has read what its call returned.
resume(t) ==
    /\ call[t].stage = "returned"
    /\ call' = [call EXCEPT ![t] = NoCall]
    /\ UNCHANGED <<vars, verifiers, strings, held, error_slot>>

InUse(v) == \E t \in Threads : call[t] # NoCall /\ call[t].function = "verify"
                               /\ call[t].stage # "returned" /\ call[t].verifier = v

rust_free_verifier(t) ==
    /\ call[t] = NoCall
    /\ \E v \in held :
         /\ ~InUse(v)
         /\ verifiers' = [w \in DOMAIN verifiers \ {v} |-> verifiers[w]]
         /\ held' = held \ {v}
    /\ UNCHANGED <<vars, strings, error_slot, call>>

\* Faulty variant of rust_free_error_string: borrows the string instead of
\* taking it back.
rust_free_error_string_borrowing(t) ==
    /\ call[t] = NoCall
    /\ error_slot[t] \in strings
    /\ error_slot' = [error_slot EXCEPT ![t] = Null]
    /\ UNCHANGED <<vars, strings, verifiers, held, call>>

rust_free_error_string(t) ==
    /\ call[t] = NoCall
    /\ error_slot[t] \in strings
    /\ strings' = strings \ {error_slot[t]}
    /\ error_slot' = [error_slot EXCEPT ![t] = Null]
    /\ UNCHANGED <<vars, verifiers, held, call>>

-----------------------------------------------------------------------------

FfiNext ==
    \E t \in Threads :
        \/ initialize_enter(t) \/ initialize_run(t) \/ initialize_return(t)
        \/ verify_enter(t) \/ verify_check(t) \/ multiply(t) \/ verify_conclude(t)
        \/ verify_return(t)
        \/ resume(t) \/ rust_free_verifier(t) \/ rust_free_error_string(t)

FfiSpec == FfiInit /\ [][FfiNext]_all_vars

-----------------------------------------------------------------------------
(* Properties.                                                             *)

Succeeded(t) ==
    IF "pointer" \in DOMAIN call[t] THEN call[t].pointer # Null ELSE call[t].status = 0

\* A verifier is live exactly as long as the caller holds it: no call leaves
\* one behind, frees one or hands one out twice, whatever other threads do.
VerifiersAreTheCallers == DOMAIN verifiers = held

\* A verification runs on a live verifier to its end, and never on null.
VerifierOutlivesCalls ==
    \A t \in Threads :
        call[t].stage = "verifying" => call[t].verifier \in DOMAIN verifiers

\* Error strings: every live one is in the slot of exactly one thread, so that none leaks
\* and no slot is left dangling; and what a call returns agrees with its message.  A caller
\* that gave a slot finds a string in it when the call failed and null when it did not, so
\* that it never frees what it left in the slot itself.
ErrorExactlyOnFailure ==
    /\ strings = {error_slot[t] : t \in Threads} \ {Null, Garbage}
    /\ \A t, u \in Threads : error_slot[t] = error_slot[u] /\ error_slot[t] \in strings => t = u
    /\ \A t \in Threads :
        call[t].stage = "returned" /\ call[t].wants_error =>
            IF Succeeded(t) THEN error_slot[t] = Null ELSE error_slot[t] \in strings
=============================================================================
