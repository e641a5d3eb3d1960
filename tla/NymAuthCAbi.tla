---------------------------- MODULE NymAuthCAbi ----------------------------
(***************************************************************************)
(* The C ABI of nymauth/c_abi.rs, which follows the conventions of         *)
(* go_ffi.rs, beside that of module GoFfi.  Its handles are provers and    *)
(* verifiers; a proof, or a session transcript, is a buffer that the       *)
(* caller gives back.  A panic may be caught twice: the entry points of    *)
(* the proving system have a catch_unwind of their own, guarded.           *)
(*                                                                         *)
(* The caller keeps what the module documentation asks: it frees a handle  *)
(* when no call uses it, and a buffer or a string before it uses the same  *)
(* slot again.  A behaviour is of the one ABI or of the other.             *)
(***************************************************************************)
EXTENDS GoFfi

CONSTANT Buffers   \* addresses of proofs and transcripts

ASSUME BuffersAssumption ==
    /\ Cardinality(Buffers) >= Cardinality(Threads)
    /\ Garbage \notin Buffers

VARIABLES
    abi,       \* which of the two the behaviour is of
    buffers,   \* live buffers
    out        \* what each thread's *proof_out or *transcript_out holds

c_vars == <<abi, buffers, out>>
foreign_vars == <<all_vars, c_vars>>

Kinds == {"prover", "verifier"}
Digests == {"challenge_digest", "verifier_input"}
Functions == {"prove", "verify", "derive_challenge"} \cup Digests

\* The handle a function is given, and whether it gives out a buffer.
HandleOf == [prove |-> "prover", verify |-> "verifier"]
GivesBuffer(function) == function \in {"prove", "derive_challenge"}

-----------------------------------------------------------------------------
(* Results.                                                                *)

status(error) ==
    CASE error = "InvalidInput" -> -1
      [] error = "Circuit" -> -2
      [] error = "UnsupportedCircuit" -> -3
      [] error = "Credential" -> -4
      [] error = "Unsatisfied" -> -5
      [] error = "Prover" -> -6
      [] error = "Verification" -> -7

\* A panic of the proving system is an error of it.
guarded(outcome) == IF outcome = "panic" THEN "Prover" ELSE outcome

\* The status of what a closure ended in.
run(outcome) == CASE outcome = "ok" -> 0
                  [] outcome = "panic" -> -100
                  [] OTHER -> status(outcome)

\* What the function called by an entry point may end in, given arguments that could be
\* converted; new, prove and verify of NymAuthProver and NymAuthVerifier are guarded.
Outcomes(function) ==
    CASE function = "new" -> {"ok", "Circuit", "UnsupportedCircuit", "panic"}
      [] function = "prove" ->
            {"ok", "InvalidInput", "Credential", "Unsatisfied", "Prover", "panic"}
      [] function = "verify" -> {"ok", "InvalidInput", "Verification", "panic"}
      [] OTHER -> {"ok", "InvalidInput", "panic"}

IsGuarded(function) == function \in {"new", "prove", "verify"}

StatusOf(function, outcome) == run(IF IsGuarded(function) THEN guarded(outcome) ELSE outcome)

-----------------------------------------------------------------------------
(* nymauth_prover_new and nymauth_verifier_new.                            *)

\* Bound: as many handles as there are addresses, those of calls included.
MayLoad ==
    Cardinality(DOMAIN verifiers)
        + Cardinality({t \in Threads : call[t].stage = "running" /\ call[t].function = "new"})
      < Cardinality(Verifiers)

new_enter(t) ==
    /\ MayLoad
    /\ \E kind \in Kinds, arguments \in {"good", "wrong"} :
         Enter(t, [function |-> "new", kind |-> kind, arguments |-> arguments])
    /\ UNCHANGED c_vars

\* c_params refuses null; then a handle, or null and the message.
new_return(t) ==
    /\ InStage(t, "new", "running")
    /\ \E outcome \in IF call[t].arguments = "wrong" THEN {"InvalidInput"} ELSE Outcomes("new") :
         IF outcome = "ok"
         THEN \E h \in Verifiers \ DOMAIN verifiers :
                /\ verifiers' = [w \in DOMAIN verifiers \cup {h} |->
                                    IF w = h THEN call[t].kind ELSE verifiers[w]]
                /\ held' = held \cup {h}
                /\ Return(t, [pointer |-> h])
                /\ UNCHANGED <<strings, error_slot>>
         ELSE /\ set_error_out(t)
              /\ Return(t, [pointer |-> Null])
              /\ UNCHANGED <<verifiers, held>>
    /\ UNCHANGED <<vars, c_vars>>

-----------------------------------------------------------------------------
(* nymauth_prove, nymauth_verify, nymauth_derive_challenge,                *)
(* nymauth_challenge_digest and nymauth_verifier_input.                    *)

HandlesOf(function) ==
    {Null} \cup {h \in held : function \in DOMAIN HandleOf /\ verifiers[h] = HandleOf[function]}

\* Null where there should be a handle is a null argument, as that of any other pointer is.
ArgumentsWith(function, h) ==
    IF function \in DOMAIN HandleOf /\ h = Null THEN {"null"} ELSE {"good", "null", "wrong"}

call_enter(t) ==
    /\ out[t] = Garbage
    /\ \E function \in Functions : \E h \in HandlesOf(function) :
         \E arguments \in ArgumentsWith(function, h) :
            Enter(t, [function |-> function, verifier |-> h, arguments |-> arguments])
    /\ UNCHANGED c_vars

Ends(t, outcome, code) == Return(t, [outcome |-> outcome, status |-> code])

\* Faulty variant of null_argument: without a message.
null_argument_silent(t) ==
    /\ call[t].stage = "running" /\ call[t].function \in Functions
    /\ call[t].arguments = "null"
    /\ UNCHANGED <<strings, error_slot>>
    /\ Ends(t, "null_argument", -1)
    /\ UNCHANGED <<vars, verifiers, held, c_vars>>

\* Null pointers are found before anything is run.
null_argument(t) ==
    /\ call[t].stage = "running" /\ call[t].function \in Functions
    /\ call[t].arguments = "null"
    /\ set_error_out(t)
    /\ Ends(t, "null_argument", -1)
    /\ UNCHANGED <<vars, verifiers, held, c_vars>>

\* Buffers and texts are converted; then the function is called, with its handle borrowed.
convert(t) ==
    /\ call[t].stage = "running" /\ call[t].function \in Functions
    /\ IF call[t].arguments = "wrong"
       THEN /\ set_error_out(t)
            /\ Ends(t, "InvalidInput", run("InvalidInput"))
       ELSE /\ call[t].arguments = "good"
            /\ call' = [call EXCEPT ![t].stage = IF call[t].function \in DOMAIN HandleOf
                                                 THEN "verifying" ELSE "working"]
            /\ UNCHANGED <<strings, error_slot>>
    /\ UNCHANGED <<vars, verifiers, held, c_vars>>

\* Faulty variant of conclude: the proof is given out before the panic is noticed.
conclude_early(t) ==
    /\ call[t].stage \in {"verifying", "working"} /\ call[t].function \in Functions
    /\ \E outcome \in Outcomes(call[t].function) :
         /\ Ends(t, outcome, StatusOf(call[t].function, outcome))
         /\ IF outcome = "ok" THEN UNCHANGED <<strings, error_slot>> ELSE set_error_out(t)
         /\ IF GivesBuffer(call[t].function) /\ outcome \in {"ok", "panic"}
            THEN \E b \in Buffers \ buffers :
                    buffers' = buffers \cup {b} /\ out' = [out EXCEPT ![t] = b]
            ELSE UNCHANGED <<buffers, out>>
    /\ UNCHANGED <<vars, verifiers, held, abi>>

\* On success the outputs are written, else the error; prover and verifier are left alone.
conclude(t) ==
    /\ call[t].stage \in {"verifying", "working"} /\ call[t].function \in Functions
    /\ \E outcome \in Outcomes(call[t].function) :
         /\ Ends(t, outcome, StatusOf(call[t].function, outcome))
         /\ IF outcome = "ok" THEN UNCHANGED <<strings, error_slot>> ELSE set_error_out(t)
         /\ IF GivesBuffer(call[t].function) /\ outcome = "ok"
            THEN \E b \in Buffers \ buffers :
                    buffers' = buffers \cup {b} /\ out' = [out EXCEPT ![t] = b]
            ELSE UNCHANGED <<buffers, out>>
    /\ UNCHANGED <<vars, verifiers, held, abi>>

-----------------------------------------------------------------------------
(* The caller, and what it frees.                                          *)

HandleInUse(h) ==
    \E t \in Threads : /\ call[t].stage \in {"running", "verifying"}
                       /\ call[t].function \in DOMAIN HandleOf /\ call[t].verifier = h

\* nymauth_prover_free and nymauth_verifier_free.
free_handle(t) ==
    /\ call[t] = NoCall
    /\ \E h \in held :
         /\ ~HandleInUse(h)
         /\ verifiers' = [w \in DOMAIN verifiers \ {h} |-> verifiers[w]]
         /\ held' = held \ {h}
    /\ UNCHANGED <<vars, strings, error_slot, call, c_vars>>

nymauth_free_buffer(t) ==
    /\ call[t] = NoCall
    /\ out[t] \in buffers
    /\ buffers' = buffers \ {out[t]}
    /\ out' = [out EXCEPT ![t] = Garbage]
    /\ UNCHANGED <<all_vars, abi>>

nymauth_free_error_string(t) == rust_free_error_string(t) /\ UNCHANGED c_vars

c_resume(t) == resume(t) /\ UNCHANGED c_vars

-----------------------------------------------------------------------------

ForeignInit ==
    /\ FfiInit
    /\ abi \in {"go_ffi", "nymauth"}
    /\ buffers = {}
    /\ out = [t \in Threads |-> Garbage]

GoNext == abi = "go_ffi" /\ FfiNext /\ UNCHANGED c_vars

NymAuthNext ==
    /\ abi = "nymauth"
    /\ \E t \in Threads :
        \/ new_enter(t) \/ new_return(t)
        \/ call_enter(t) \/ null_argument(t) \/ convert(t) \/ conclude(t)
        \/ c_resume(t) \/ free_handle(t) \/ nymauth_free_buffer(t) \/ nymauth_free_error_string(t)

ForeignNext == GoNext \/ NymAuthNext

ForeignSpec == ForeignInit /\ [][ForeignNext]_foreign_vars

-----------------------------------------------------------------------------
(* Properties.                                                             *)

\* A buffer is live as long as it is in the slot of the one thread that asked for it; a call
\* that failed has written none.
BuffersExactlyOnSuccess ==
    /\ buffers = {out[t] : t \in Threads} \ {Garbage}
    /\ \A t, u \in Threads : out[t] = out[u] /\ out[t] # Garbage => t = u
    /\ \A t \in Threads : call[t].stage = "returned" /\ "status" \in DOMAIN call[t] =>
          (out[t] # Garbage <=> call[t].status = 0 /\ GivesBuffer(call[t].function))

\* every_error_has_its_own_status: a caller can tell from the status what went wrong, but
\* for a null argument, which is invalid input, and for a panic of the proving system, which
\* is reported as a failure of the prover although the header keeps -100 for it.
StatusTellsError ==
    \A t \in Threads : call[t].stage = "returned" /\ "status" \in DOMAIN call[t] =>
        /\ (call[t].status = 0) = (call[t].outcome = "ok")
        /\ call[t].status = -100 => call[t].outcome = "panic" /\ ~IsGuarded(call[t].function)
        /\ call[t].outcome = "panic" => call[t].status \in {-6, -100}
        /\ (call[t].status = -1) = (call[t].outcome \in {"InvalidInput", "null_argument"})
        /\ \A u \in Threads : call[u].stage = "returned" /\ "status" \in DOMAIN call[u] =>
              \/ call[t].status # call[u].status
              \/ call[t].status \in {-1, -6}
              \/ call[t].outcome = call[u].outcome

\* A caller of either ABI learns from what is returned and from its slots, and from nothing
\* left over in them, whether its call succeeded: a string exactly if it failed, a buffer
\* exactly if it gave one out, and of nymauth a status that says why.
OutcomeIsReported ==
    /\ ErrorExactlyOnFailure
    /\ BuffersExactlyOnSuccess
    /\ abi = "nymauth" => StatusTellsError
=============================================================================
