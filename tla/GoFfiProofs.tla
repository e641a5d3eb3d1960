----------------------------- MODULE GoFfiProofs -----------------------------
(***************************************************************************)
(* Handles of the two C ABIs belong to the caller, for any number of       *)
(* threads, handles, buffers and strings: of go_ffi.rs and nymauth/c_abi.rs *)
(* as modules GoFfi and NymAuthCAbi model them.                            *)
(*                                                                         *)
(* That no call uses a freed handle depends on what a call has checked by  *)
(* the time it uses one, so the invariant says where a call's handle may   *)
(* be null, and that every other one is held until the call ends.  What a  *)
(* call reports depends on what its thread's slots held when it began, so a *)
(* second invariant follows the slots through the call.                    *)
(***************************************************************************)
EXTENDS NymAuthCAbi

\* Calls that may still use a handle.
Open(c) == c.stage \in {"running", "verifying"} /\ c.function \in {"prove", "verify"}

\* Null is only there until the arguments are checked, which will find it.
MarkedNull(c) ==
    /\ c.stage = "running"
    /\ abi = "go_ffi" => "verifier" \in c.bad
    /\ abi = "nymauth" => c.arguments = "null"

CallOk(c) ==
    /\ "stage" \in DOMAIN c
    /\ c.stage = "running" => "function" \in DOMAIN c
    /\ Open(c) => "verifier" \in DOMAIN c
    /\ abi = "go_ffi" /\ c.stage = "running" => c.function # "prove"
    /\ abi = "go_ffi" /\ c.stage = "verifying" => c.function = "verify"
    /\ c.stage = "verifying" => c.function \in {"prove", "verify"}
    /\ Open(c) => c.verifier \in held \/ MarkedNull(c)

HandleInv ==
    /\ abi \in {"go_ffi", "nymauth"}
    /\ DOMAIN verifiers = held
    /\ DOMAIN call = Threads
    /\ \A t \in Threads : CallOk(call[t])

-----------------------------------------------------------------------------
(* Records of calls.                                                       *)

\* The fields that are put over a record are its own, and the others it keeps.
LEMMA Fields ==
    ASSUME NEW new, NEW old
    PROVE  /\ DOMAIN Over(new, old) = DOMAIN new \cup DOMAIN old
           /\ \A field \in DOMAIN new : Over(new, old)[field] = new[field]
           /\ \A field \in DOMAIN old \ DOMAIN new : Over(new, old)[field] = old[field]
  BY DEF Over

\* What a call returns does not change the stage it returns in.
LEMMA StageReturned ==
    ASSUME NEW value, NEW c, "stage" \notin DOMAIN value
    PROVE  LET r == Over(value, Over([stage |-> "returned"], c))
           IN  "stage" \in DOMAIN r /\ r.stage = "returned"
<1> DEFINE returned == [stage |-> "returned"]
           ended == Over(returned, c)
<1>1. DOMAIN returned = {"stage"} /\ returned["stage"] = "returned"
  OBVIOUS
<1>2. DOMAIN ended = {"stage"} \cup DOMAIN c /\ ended["stage"] = "returned"
  <2>1. DOMAIN ended = DOMAIN returned \cup DOMAIN c
    BY Fields
  <2>2. \A field \in DOMAIN returned : ended[field] = returned[field]
    BY Fields
  <2>3. QED
    BY <1>1, <2>1, <2>2
<1>3. "stage" \in DOMAIN ended \ DOMAIN value
  BY <1>2
<1>4. DOMAIN Over(value, ended) = DOMAIN value \cup DOMAIN ended
  BY Fields
<1>5. \A field \in DOMAIN ended \ DOMAIN value : Over(value, ended)[field] = ended[field]
  BY Fields
<1>6. QED
  BY <1>2, <1>3, <1>4, <1>5

\* A call begins in the stage "running", with the fields it is given.
LEMMA Entered ==
    ASSUME NEW new_call, NEW wants_error, "stage" \notin DOMAIN new_call
    PROVE  LET r == Over(new_call, [stage |-> "running", wants_error |-> wants_error])
           IN  /\ "stage" \in DOMAIN r /\ r.stage = "running"
               /\ DOMAIN new_call \subseteq DOMAIN r
               /\ \A field \in DOMAIN new_call : r[field] = new_call[field]
<1> DEFINE start == [stage |-> "running", wants_error |-> wants_error]
<1>1. "stage" \in DOMAIN start \ DOMAIN new_call /\ start["stage"] = "running"
  OBVIOUS
<1> HIDE DEF start
<1>2. DOMAIN Over(new_call, start) = DOMAIN new_call \cup DOMAIN start
  BY Fields
<1>3. \A field \in DOMAIN start \ DOMAIN new_call : Over(new_call, start)[field] = start[field]
  BY Fields
<1>4. \A field \in DOMAIN new_call : Over(new_call, start)[field] = new_call[field]
  BY Fields
<1>5. QED
  BY <1>1, <1>2, <1>3, <1>4 DEF start

-----------------------------------------------------------------------------
(* Steps.                                                                  *)

\* The invariant is kept when no handle is given up and one thread's call changes.
LEMMA OneCall ==
    ASSUME HandleInv, abi' = abi, held \subseteq held', DOMAIN verifiers' = held',
           NEW t \in Threads, DOMAIN call' = DOMAIN call,
           \A u \in Threads \ {t} : call'[u] = call[u], CallOk(call[t])'
    PROVE  HandleInv'
<1>1. ASSUME NEW u \in Threads \ {t}
      PROVE  CallOk(call[u])'
  BY <1>1 DEF HandleInv, CallOk, Open, MarkedNull
<1>2. QED
  BY <1>1 DEF HandleInv

\* Calls that no longer use a handle, or do not use one yet.
LEMMA NotOpen ==
    ASSUME NEW t \in Threads, "stage" \in DOMAIN call'[t],
           call'[t].stage \in {"none", "caught", "returned", "working"}
    PROVE  CallOk(call[t])'
  BY DEF CallOk, Open

\* A call that returns gives up no handle.
LEMMA ReturnKeeps ==
    ASSUME HandleInv, abi' = abi, held \subseteq held', DOMAIN verifiers' = held',
           NEW t \in Threads, NEW value, "stage" \notin DOMAIN value, Return(t, value)
    PROVE  HandleInv'
<1>1. /\ DOMAIN call' = DOMAIN call /\ \A u \in Threads \ {t} : call'[u] = call[u]
      /\ call'[t] = Over(value, Over([stage |-> "returned"], call[t]))
  BY DEF Return, HandleInv
<1>2. "stage" \in DOMAIN call'[t] /\ call'[t].stage = "returned"
  BY <1>1, StageReturned
<1>3. QED
  BY <1>1, <1>2, NotOpen, OneCall

\* Nor does one whose closure ended.
LEMMA CaughtKeeps ==
    ASSUME HandleInv, abi' = abi, verifiers' = verifiers,
           NEW t \in Threads, NEW result, Caught(t, result)
    PROVE  HandleInv'
<1> DEFINE new == [result |-> result, stage |-> "caught"]
<1>1. /\ DOMAIN call' = DOMAIN call /\ \A u \in Threads \ {t} : call'[u] = call[u]
      /\ call'[t] = Over(new, call[t]) /\ held' = held
  BY DEF Caught, HandleInv
<1>2. "stage" \in DOMAIN new /\ new["stage"] = "caught"
  OBVIOUS
<1> HIDE DEF new
<1>3. DOMAIN Over(new, call[t]) = DOMAIN new \cup DOMAIN call[t]
  BY Fields
<1>4. \A field \in DOMAIN new : Over(new, call[t])[field] = new[field]
  BY Fields
<1>5. "stage" \in DOMAIN call'[t] /\ call'[t].stage = "caught"
  BY <1>1, <1>2, <1>3, <1>4
<1>6. CallOk(call[t])'
  BY <1>5, NotOpen
<1>7. DOMAIN verifiers' = held' /\ held \subseteq held'
  BY <1>1 DEF HandleInv
<1>8. QED
  BY <1>1, <1>6, <1>7, OneCall

\* A call that goes on only changes its stage.
LEMMA StageKeeps ==
    ASSUME HandleInv, abi' = abi, verifiers' = verifiers, held' = held,
           NEW t \in Threads, NEW stage, call' = [call EXCEPT ![t].stage = stage]
    PROVE  /\ DOMAIN call' = DOMAIN call /\ \A u \in Threads \ {t} : call'[u] = call[u]
           /\ DOMAIN call'[t] = DOMAIN call[t] /\ call'[t].stage = stage
           /\ \A field \in DOMAIN call[t] \ {"stage"} : call'[t][field] = call[t][field]
           /\ CallOk(call[t])' => HandleInv'
<1>1. /\ DOMAIN call' = DOMAIN call /\ \A u \in Threads \ {t} : call'[u] = call[u]
      /\ call'[t] = [call[t] EXCEPT !.stage = stage]
  BY DEF HandleInv
<1>2. "stage" \in DOMAIN call[t]
  BY DEF HandleInv, CallOk
<1>3. /\ DOMAIN call'[t] = DOMAIN call[t] /\ call'[t].stage = stage
      /\ \A field \in DOMAIN call[t] \ {"stage"} : call'[t][field] = call[t][field]
  BY <1>1, <1>2
<1>4. DOMAIN verifiers' = held' /\ held \subseteq held'
  BY DEF HandleInv
<1>5. QED
  BY <1>1, <1>3, <1>4, OneCall

\* A call that begins is given fields, and changes no handle.
LEMMA EnterKeeps ==
    ASSUME HandleInv, abi' = abi, NEW t \in Threads, NEW new_call,
           "stage" \notin DOMAIN new_call, Enter(t, new_call)
    PROVE  /\ "stage" \in DOMAIN call'[t] /\ call'[t].stage = "running"
           /\ DOMAIN new_call \subseteq DOMAIN call'[t]
           /\ \A field \in DOMAIN new_call : call'[t][field] = new_call[field]
           /\ CallOk(call[t])' => HandleInv'
<1>1. PICK wants_error \in BOOLEAN :
        call' = [call EXCEPT ![t] =
                    Over(new_call, [stage |-> "running", wants_error |-> wants_error])]
  BY DEF Enter
<1>2. /\ DOMAIN call' = DOMAIN call /\ \A u \in Threads \ {t} : call'[u] = call[u]
      /\ call'[t] = Over(new_call, [stage |-> "running", wants_error |-> wants_error])
  BY <1>1 DEF HandleInv
<1>3. DOMAIN verifiers' = held' /\ held \subseteq held'
  BY DEF HandleInv, Enter
<1>4. QED
  BY <1>2, <1>3, Entered, OneCall

\* The caller, between two calls.
LEMMA ResumeKeeps ==
    ASSUME HandleInv, abi' = abi, NEW t \in Threads, resume(t)
    PROVE  HandleInv'
<1>1. /\ DOMAIN call' = DOMAIN call /\ \A u \in Threads \ {t} : call'[u] = call[u]
      /\ call'[t] = NoCall /\ verifiers' = verifiers /\ held' = held
  BY DEF resume, HandleInv
<1>2. "stage" \in DOMAIN call'[t] /\ call'[t].stage = "none"
  BY <1>1 DEF NoCall
<1>3. QED
  BY <1>1, <1>2, NotOpen, OneCall DEF HandleInv

\* A handle that no open call has may be freed.
LEMMA FreeKeeps ==
    ASSUME HandleInv, abi' = abi, call' = call, NEW h, held' = held \ {h},
           verifiers' = [w \in DOMAIN verifiers \ {h} |-> verifiers[w]],
           \A u \in Threads : Open(call[u]) => call[u].verifier # h
    PROVE  HandleInv'
<1>1. ASSUME NEW u \in Threads
      PROVE  CallOk(call[u])'
  BY DEF HandleInv, CallOk, Open, MarkedNull
<1>2. QED
  BY <1>1 DEF HandleInv

\* The calls of go_ffi.rs.
LEMMA GoKeeps == HandleInv /\ GoNext => HandleInv'
<1> SUFFICES ASSUME HandleInv, abi = "go_ffi", FfiNext, abi' = abi
             PROVE  HandleInv'
  BY DEF GoNext, c_vars
<1>1. ASSUME NEW t \in Threads, initialize_enter(t)
      PROVE  HandleInv'
  <2>1. PICK bad \in BadArguments, version \in Versions :
          Enter(t, [function |-> "initialize", version |-> version,
                    bad |-> bad \cup (IF version \in {6, 7, 8} THEN {} ELSE {"circuit_version"})])
    BY <1>1 DEF initialize_enter
  <2> DEFINE new == [function |-> "initialize", version |-> version,
                     bad |-> bad \cup (IF version \in {6, 7, 8} THEN {} ELSE {"circuit_version"})]
  <2>2. "stage" \notin DOMAIN new /\ "function" \in DOMAIN new /\ new["function"] = "initialize"
    OBVIOUS
  <2>3. Enter(t, new)
    BY <2>1
  <2> HIDE DEF new
  <2>4. /\ "stage" \in DOMAIN call'[t] /\ call'[t].stage = "running"
        /\ "function" \in DOMAIN call'[t] /\ call'[t].function = "initialize"
        /\ CallOk(call[t])' => HandleInv'
    BY <2>2, <2>3, EnterKeeps
  <2>5. QED
    BY <2>4 DEF CallOk, Open
<1>2. ASSUME NEW t \in Threads, initialize_run(t)
      PROVE  HandleInv'
  BY <1>2, CaughtKeeps DEF initialize_run
<1>3. ASSUME NEW t \in Threads, initialize_return(t)
      PROVE  HandleInv'
  <2>1. ASSUME NEW v \in Verifiers, verifiers' = [w \in DOMAIN verifiers \cup {v} |->
                                   IF w = v THEN call[t].version ELSE verifiers[w]],
               held' = held \cup {v}, Return(t, [pointer |-> v])
        PROVE  HandleInv'
    <3>1. DOMAIN verifiers' = held' /\ held \subseteq held'
      BY <2>1 DEF HandleInv
    <3>2. QED
      BY <2>1, <3>1, ReturnKeeps
  <2>2. ASSUME verifiers' = verifiers, held' = held, Return(t, [pointer |-> Null])
        PROVE  HandleInv'
    BY <2>2, ReturnKeeps DEF HandleInv
  <2>3. QED
    BY <1>3, <2>1, <2>2 DEF initialize_return
<1>4. ASSUME NEW t \in Threads, verify_enter(t)
      PROVE  HandleInv'
  <2>1. PICK bad \in BadArguments, verifier \in held \cup {Null} :
          Enter(t, [function |-> "verify", verifier |-> verifier,
                    bad |-> bad \cup (IF verifier = Null THEN {"verifier"} ELSE {})])
    BY <1>4 DEF verify_enter
  <2> DEFINE new == [function |-> "verify", verifier |-> verifier,
                     bad |-> bad \cup (IF verifier = Null THEN {"verifier"} ELSE {})]
  <2>2. /\ "stage" \notin DOMAIN new /\ DOMAIN new = {"function", "verifier", "bad"}
        /\ new["function"] = "verify" /\ new["verifier"] = verifier
        /\ verifier = Null => "verifier" \in new["bad"]
    OBVIOUS
  <2>3. Enter(t, new)
    BY <2>1
  <2> HIDE DEF new
  <2>4. /\ "stage" \in DOMAIN call'[t] /\ call'[t].stage = "running"
        /\ "function" \in DOMAIN call'[t] /\ call'[t].function = "verify"
        /\ "verifier" \in DOMAIN call'[t] /\ call'[t].verifier = verifier
        /\ verifier = Null => "verifier" \in call'[t].bad
        /\ CallOk(call[t])' => HandleInv'
    BY <2>2, <2>3, EnterKeeps
  <2>5. held' = held
    BY <2>3 DEF Enter
  <2>6. QED
    BY <2>4, <2>5 DEF CallOk, Open, MarkedNull
<1>5. ASSUME NEW t \in Threads, verify_check(t)
      PROVE  HandleInv'
  <2>1. CASE Fails(VerifyChecks, call[t].bad)
    BY <1>5, <2>1, CaughtKeeps DEF verify_check
  <2>2. CASE ~Fails(VerifyChecks, call[t].bad)
    <3>1. "verifier" \notin call[t].bad
      <4>1. 1 \in DOMAIN VerifyChecks /\ VerifyChecks[1] = "verifier"
        BY DEF VerifyChecks
      <4>2. QED
        BY <2>2, <4>1 DEF Fails
    <3>2. /\ call[t].stage = "running" /\ call[t].function = "verify"
          /\ call' = [call EXCEPT ![t].stage = "verifying"]
          /\ held' = held /\ verifiers' = verifiers
      BY <1>5, <2>2 DEF verify_check, InStage
    <3>3. /\ "function" \in DOMAIN call[t] /\ "verifier" \in DOMAIN call[t]
          /\ call[t].verifier \in held
      BY <3>1, <3>2 DEF HandleInv, CallOk, Open, MarkedNull
    <3>4. /\ DOMAIN call'[t] = DOMAIN call[t] /\ call'[t].stage = "verifying"
          /\ \A field \in DOMAIN call[t] \ {"stage"} : call'[t][field] = call[t][field]
          /\ CallOk(call[t])' => HandleInv'
      BY <3>2, StageKeeps
    <3>5. "stage" \in DOMAIN call[t]
      BY DEF HandleInv, CallOk
    <3>6. QED
      BY <3>2, <3>3, <3>4, <3>5 DEF CallOk, Open
  <2>3. QED
    BY <2>1, <2>2
<1>6. ASSUME NEW t \in Threads, multiply(t)
      PROVE  HandleInv'
  BY <1>6 DEF multiply, ffi_vars, HandleInv, CallOk, Open, MarkedNull
<1>7. ASSUME NEW t \in Threads, verify_conclude(t)
      PROVE  HandleInv'
  BY <1>7, CaughtKeeps DEF verify_conclude
<1>8. ASSUME NEW t \in Threads, verify_return(t)
      PROVE  HandleInv'
  <2>1. PICK code : Return(t, [status |-> code])
    BY <1>8 DEF verify_return
  <2>2. verifiers' = verifiers /\ held' = held
    BY <1>8 DEF verify_return
  <2>3. QED
    BY <2>1, <2>2, ReturnKeeps DEF HandleInv
<1>9. ASSUME NEW t \in Threads, resume(t)
      PROVE  HandleInv'
  BY <1>9, ResumeKeeps
<1>10. ASSUME NEW t \in Threads, rust_free_verifier(t)
       PROVE  HandleInv'
  <2>1. PICK v \in held : /\ ~InUse(v) /\ held' = held \ {v}
                           /\ verifiers' = [w \in DOMAIN verifiers \ {v} |-> verifiers[w]]
    BY <1>10 DEF rust_free_verifier
  <2>2. call' = call
    BY <1>10 DEF rust_free_verifier
  <2>3. ASSUME NEW u \in Threads, Open(call[u])
        PROVE  call[u].verifier # v
    <3>1. /\ call[u].stage \notin {"none", "returned"} /\ call[u].function = "verify"
      BY <2>3 DEF HandleInv, CallOk, Open
    <3>2. call[u] # NoCall
      BY <3>1 DEF NoCall
    <3>3. QED
      BY <2>1, <3>1, <3>2 DEF InUse
  <2>4. QED
    BY <2>1, <2>2, <2>3, FreeKeeps
<1>11. ASSUME NEW t \in Threads, rust_free_error_string(t)
       PROVE  HandleInv'
  BY <1>11 DEF rust_free_error_string, HandleInv, CallOk, Open, MarkedNull
<1>12. QED
  BY <1>1, <1>2, <1>3, <1>4, <1>5, <1>6, <1>7, <1>8, <1>9, <1>10, <1>11 DEF FfiNext

\* The calls of nymauth/c_abi.rs.
LEMMA NymAuthKeeps == HandleInv /\ NymAuthNext => HandleInv'
<1> SUFFICES ASSUME HandleInv, NymAuthNext
             PROVE  HandleInv'
  OBVIOUS
<1>a. abi = "nymauth"
  BY DEF NymAuthNext
<1>1. ASSUME NEW t \in Threads, new_enter(t)
      PROVE  HandleInv'
  <2>1. PICK kind \in Kinds, arguments \in {"good", "wrong"} :
          Enter(t, [function |-> "new", kind |-> kind, arguments |-> arguments])
    BY <1>1 DEF new_enter
  <2> DEFINE new == [function |-> "new", kind |-> kind, arguments |-> arguments]
  <2>2. "stage" \notin DOMAIN new /\ "function" \in DOMAIN new /\ new["function"] = "new"
    OBVIOUS
  <2>3. Enter(t, new) /\ abi' = abi
    BY <1>1, <2>1 DEF new_enter, c_vars
  <2> HIDE DEF new
  <2>4. /\ "stage" \in DOMAIN call'[t] /\ call'[t].stage = "running"
        /\ "function" \in DOMAIN call'[t] /\ call'[t].function = "new"
        /\ CallOk(call[t])' => HandleInv'
    BY <2>2, <2>3, EnterKeeps
  <2>5. QED
    BY <2>4 DEF CallOk, Open
<1>2. ASSUME NEW t \in Threads, new_return(t)
      PROVE  HandleInv'
  <2>1. abi' = abi
    BY <1>2 DEF new_return, c_vars
  <2>2. ASSUME NEW h \in Verifiers, verifiers' = [w \in DOMAIN verifiers \cup {h} |->
                                   IF w = h THEN call[t].kind ELSE verifiers[w]],
               held' = held \cup {h}, Return(t, [pointer |-> h])
        PROVE  HandleInv'
    <3>1. DOMAIN verifiers' = held' /\ held \subseteq held'
      BY <2>2 DEF HandleInv
    <3>2. QED
      BY <2>1, <2>2, <3>1, ReturnKeeps
  <2>3. ASSUME verifiers' = verifiers, held' = held, Return(t, [pointer |-> Null])
        PROVE  HandleInv'
    BY <2>1, <2>3, ReturnKeeps DEF HandleInv
  <2>4. QED
    BY <1>2, <2>2, <2>3 DEF new_return
<1>3. ASSUME NEW t \in Threads, call_enter(t)
      PROVE  HandleInv'
  <2>1. PICK function \in Functions : \E h \in HandlesOf(function) :
          \E arguments \in ArgumentsWith(function, h) :
            Enter(t, [function |-> function, verifier |-> h, arguments |-> arguments])
    BY <1>3 DEF call_enter
  <2>2. PICK h \in HandlesOf(function) : \E arguments \in ArgumentsWith(function, h) :
            Enter(t, [function |-> function, verifier |-> h, arguments |-> arguments])
    BY <2>1
  <2>3. PICK arguments \in ArgumentsWith(function, h) :
            Enter(t, [function |-> function, verifier |-> h, arguments |-> arguments])
    BY <2>2
  <2> DEFINE new == [function |-> function, verifier |-> h, arguments |-> arguments]
  <2>4. /\ "stage" \notin DOMAIN new /\ DOMAIN new = {"function", "verifier", "arguments"}
        /\ new["function"] = function /\ new["verifier"] = h /\ new["arguments"] = arguments
    OBVIOUS
  <2>5. Enter(t, new) /\ abi' = abi
    BY <1>3, <2>3 DEF call_enter, c_vars
  <2> HIDE DEF new
  <2>6. /\ "stage" \in DOMAIN call'[t] /\ call'[t].stage = "running"
        /\ "function" \in DOMAIN call'[t] /\ call'[t].function = function
        /\ "verifier" \in DOMAIN call'[t] /\ call'[t].verifier = h
        /\ call'[t].arguments = arguments
        /\ CallOk(call[t])' => HandleInv'
    BY <2>4, <2>5, EnterKeeps
  <2>7. held' = held
    BY <2>5 DEF Enter
  <2>8. function \in {"prove", "verify"} => h \in held \/ arguments = "null"
    <3>1. DOMAIN HandleOf = {"prove", "verify"}
      BY DEF HandleOf
    <3>2. QED
      BY <3>1 DEF HandlesOf, ArgumentsWith
  <2>9. QED
    BY <1>a, <2>5, <2>6, <2>7, <2>8 DEF CallOk, Open, MarkedNull
<1>4. ASSUME NEW t \in Threads, null_argument(t)
      PROVE  HandleInv'
  BY <1>4, ReturnKeeps DEF null_argument, Ends, c_vars, HandleInv
<1>5. ASSUME NEW t \in Threads, convert(t)
      PROVE  HandleInv'
  <2>1. abi' = abi /\ verifiers' = verifiers /\ held' = held /\ call[t].stage = "running"
    BY <1>5 DEF convert, c_vars
  <2>2. CASE call[t].arguments = "wrong"
    BY <1>5, <2>1, <2>2, ReturnKeeps DEF convert, Ends, HandleInv
  <2>3. CASE call[t].arguments # "wrong"
    <3>1. PICK stage \in {"verifying", "working"} :
            /\ call' = [call EXCEPT ![t].stage = stage]
            /\ stage = "verifying" => call[t].function \in {"prove", "verify"}
      <4>1. DOMAIN HandleOf = {"prove", "verify"}
        BY DEF HandleOf
      <4>2. QED
        BY <1>5, <2>3, <4>1 DEF convert
    <3>2. call[t].arguments = "good"
      BY <1>5, <2>3 DEF convert
    <3>3. /\ DOMAIN call'[t] = DOMAIN call[t] /\ call'[t].stage = stage
          /\ \A field \in DOMAIN call[t] \ {"stage"} : call'[t][field] = call[t][field]
          /\ CallOk(call[t])' => HandleInv'
      BY <2>1, <3>1, StageKeeps
    <3>4. "stage" \in DOMAIN call[t] /\ "function" \in DOMAIN call[t]
      BY <2>1 DEF HandleInv, CallOk
    <3>5. CASE stage = "working"
      BY <3>3, <3>4, <3>5, NotOpen
    <3>6. CASE stage = "verifying"
      <4>1. "verifier" \in DOMAIN call[t] /\ call[t].verifier \in held
        BY <1>a, <2>1, <3>1, <3>2, <3>6 DEF HandleInv, CallOk, Open, MarkedNull
      <4>2. QED
        BY <1>a, <2>1, <3>1, <3>3, <3>4, <3>6, <4>1 DEF CallOk, Open
    <3>7. QED
      BY <3>5, <3>6
  <2>4. QED
    BY <2>2, <2>3
<1>6. ASSUME NEW t \in Threads, conclude(t)
      PROVE  HandleInv'
  <2>1. PICK outcome, code : Ends(t, outcome, code)
    BY <1>6 DEF conclude
  <2>2. QED
    BY <1>6, <2>1, ReturnKeeps DEF conclude, Ends, HandleInv
<1>7. ASSUME NEW t \in Threads, c_resume(t)
      PROVE  HandleInv'
  BY <1>7, ResumeKeeps DEF c_resume, c_vars
<1>8. ASSUME NEW t \in Threads, free_handle(t)
      PROVE  HandleInv'
  <2>1. PICK h \in held : /\ ~HandleInUse(h) /\ held' = held \ {h}
                           /\ verifiers' = [w \in DOMAIN verifiers \ {h} |-> verifiers[w]]
    BY <1>8 DEF free_handle
  <2>2. call' = call /\ abi' = abi
    BY <1>8 DEF free_handle, c_vars
  <2>3. \A u \in Threads : Open(call[u]) => call[u].verifier # h
    <3>1. DOMAIN HandleOf = {"prove", "verify"}
      BY DEF HandleOf
    <3>2. QED
      BY <2>1, <3>1 DEF HandleInUse, Open
  <2>4. QED
    BY <2>1, <2>2, <2>3, FreeKeeps
<1>9. ASSUME NEW t \in Threads, nymauth_free_buffer(t) \/ nymauth_free_error_string(t)
      PROVE  HandleInv'
  BY <1>9 DEF nymauth_free_buffer, nymauth_free_error_string, rust_free_error_string, c_vars,
       all_vars, ffi_vars, HandleInv, CallOk, Open, MarkedNull
<1>10. QED
  BY <1>1, <1>2, <1>3, <1>4, <1>5, <1>6, <1>7, <1>8, <1>9 DEF NymAuthNext

-----------------------------------------------------------------------------
(* Theorems.                                                               *)

LEMMA HandlesKept == ForeignSpec => []HandleInv
<1>1. ForeignInit => HandleInv
  <2>1. DOMAIN <<>> = {}
    OBVIOUS
  <2>2. QED
    BY <2>1 DEF ForeignInit, FfiInit, HandleInv, CallOk, Open, NoCall
<1>2. HandleInv /\ [ForeignNext]_foreign_vars => HandleInv'
  <2> SUFFICES ASSUME HandleInv, [ForeignNext]_foreign_vars
               PROVE  HandleInv'
    OBVIOUS
  <2>1. CASE ForeignNext
    BY <2>1, GoKeeps, NymAuthKeeps DEF ForeignNext
  <2>2. CASE UNCHANGED foreign_vars
    BY <2>2 DEF foreign_vars, all_vars, ffi_vars, c_vars, HandleInv, CallOk, Open, MarkedNull
  <2>3. QED
    BY <2>1, <2>2
<1>3. QED
  BY <1>1, <1>2, PTL DEF ForeignSpec

\* No call leaks a handle, frees one or gives one out twice: the live handles are those the
\* caller holds, for any number of threads.
THEOREM HandlesAreOwned == ForeignSpec => []VerifiersAreTheCallers
<1>1. HandleInv => VerifiersAreTheCallers
  BY DEF HandleInv, VerifiersAreTheCallers
<1>2. QED
  BY <1>1, HandlesKept, PTL

\* No call of any thread uses null or a handle that was freed, from the end of its checks to
\* the end of the verification or proof.
THEOREM HandlesOutliveCalls == ForeignSpec => []VerifierOutlivesCalls
<1>1. HandleInv => VerifierOutlivesCalls
  BY DEF HandleInv, CallOk, Open, MarkedNull, VerifierOutlivesCalls
<1>2. QED
  BY <1>1, HandlesKept, PTL

\* The threads of either ABI leave the feature flag to the steps of module FeatureFlag, so
\* what is proved of any number of threads that race for it holds of the C callers.
THEOREM CallersShareFlag == ForeignSpec => Spec /\ []AnswersAreDetected
<1>1. ForeignInit => Init
  BY DEF ForeignInit, FfiInit
<1>2. [ForeignNext]_foreign_vars => [Next]_vars
  <2> SUFFICES ASSUME [ForeignNext]_foreign_vars
               PROVE  Next \/ UNCHANGED vars
    OBVIOUS
  <2>1. CASE GoNext
    BY <2>1 DEF GoNext, FfiNext, Next, multiply, initialize_enter, initialize_run,
         initialize_return, verify_enter, verify_check, verify_conclude, verify_return, resume,
         rust_free_verifier, rust_free_error_string, Enter
  <2>2. CASE NymAuthNext
    BY <2>2 DEF NymAuthNext, new_enter, new_return, call_enter, null_argument, convert, conclude,
         c_resume, free_handle, nymauth_free_buffer, nymauth_free_error_string, Enter,
         resume, rust_free_error_string, all_vars
  <2>3. CASE UNCHANGED foreign_vars
    BY <2>3 DEF foreign_vars, all_vars
  <2>4. QED
    BY <2>1, <2>2, <2>3 DEF ForeignNext
<1>3. QED
  BY <1>1, <1>2, FlagIsRaceFree, PTL DEF ForeignSpec, Spec

-----------------------------------------------------------------------------
(* What a call reports.  An error string lives in the slot of the thread   *)
(* that was given it, and so does a buffer; a call that runs has an empty  *)
(* slot for each, and none of the fields that it will return.              *)

\* Each live object is in one slot, and no slot holds anything else but what is empty.
Slots(slots, live, empty) ==
    /\ live = {slots[t] : t \in Threads} \ empty
    /\ \A t, u \in Threads : slots[t] = slots[u] /\ slots[t] \notin empty => t = u

Busy(c) == c.stage \in {"running", "verifying", "working", "caught"}

\* The status that a function of nymauth/c_abi.rs returns for what it ended in.
StatusFits(function, outcome, code) ==
    \/ outcome = "ok" /\ code = 0
    \/ outcome \in {"null_argument", "InvalidInput"} /\ code = -1
    \/ outcome = "Credential" /\ code = -4
    \/ outcome = "Unsatisfied" /\ code = -5
    \/ outcome = "Prover" /\ code = -6
    \/ outcome = "Verification" /\ code = -7
    \/ outcome = "panic" /\ code = (IF IsGuarded(function) THEN -6 ELSE -100)

BusyOk(t) ==
    /\ {"function", "wants_error"} \subseteq DOMAIN call[t]
    /\ DOMAIN call[t] \cap {"pointer", "status", "outcome"} = {}
    /\ abi = "go_ffi" => call[t].function \in {"initialize", "verify"}
    /\ error_slot[t] \in {Null, Garbage}
    /\ call[t].wants_error => error_slot[t] = Null
    /\ call[t].function \in Functions => out[t] = Garbage

ReturnedOk(t) ==
    /\ call[t].wants_error =>
          IF Succeeded(t) THEN error_slot[t] = Null ELSE error_slot[t] \in strings
    /\ "status" \in DOMAIN call[t] =>
          /\ out[t] # Garbage <=> call[t].status = 0 /\ GivesBuffer(call[t].function)
          /\ abi = "nymauth" => StatusFits(call[t].function, call[t].outcome, call[t].status)

ReportOk(t) ==
    /\ call[t].stage \in {"none", "running", "verifying", "working", "caught", "returned"}
    /\ Busy(call[t]) => BusyOk(t)
    /\ call[t].stage = "returned" => ReturnedOk(t)

ReportInv ==
    /\ DOMAIN error_slot = Threads /\ DOMAIN out = Threads
    /\ Slots(error_slot, strings, {Null, Garbage})
    /\ Slots(out, buffers, {Garbage})
    /\ abi = "go_ffi" => buffers = {}
    /\ \A t \in Threads : ReportOk(t)

\* A slot that is filled holds the new object, and one that is emptied gives its own up.
LEMMA Filled ==
    ASSUME NEW slots, NEW live, NEW empty, DOMAIN slots = Threads, Slots(slots, live, empty),
           NEW t \in Threads, slots[t] \in empty, NEW s, s \notin live, s \notin empty
    PROVE  Slots([slots EXCEPT ![t] = s], live \cup {s}, empty)
<1> DEFINE new == [slots EXCEPT ![t] = s]
<1>1. new[t] = s /\ \A u \in Threads \ {t} : new[u] = slots[u]
  OBVIOUS
<1> HIDE DEF new
<1>2. live \cup {s} = {new[u] : u \in Threads} \ empty
  <2>1. ASSUME NEW x \in live \cup {s}
        PROVE  x \in {new[u] : u \in Threads} \ empty
    BY <1>1, <2>1 DEF Slots
  <2>2. ASSUME NEW x \in {new[u] : u \in Threads} \ empty
        PROVE  x \in live \cup {s}
    BY <1>1, <2>2 DEF Slots
  <2>3. QED
    BY <2>1, <2>2
<1>3. ASSUME NEW u \in Threads, NEW v \in Threads, new[u] = new[v], new[u] \notin empty
      PROVE  u = v
  BY <1>1, <1>3 DEF Slots
<1>4. QED
  BY <1>2, <1>3 DEF Slots, new

LEMMA Emptied ==
    ASSUME NEW slots, NEW live, NEW empty, DOMAIN slots = Threads, Slots(slots, live, empty),
           NEW t \in Threads, NEW s \in empty
    PROVE  Slots([slots EXCEPT ![t] = s], live \ {slots[t]}, empty)
<1> DEFINE new == [slots EXCEPT ![t] = s]
<1>1. new[t] = s /\ \A u \in Threads \ {t} : new[u] = slots[u]
  OBVIOUS
<1> HIDE DEF new
<1>2. live \ {slots[t]} = {new[u] : u \in Threads} \ empty
  <2>1. ASSUME NEW x \in live \ {slots[t]}
        PROVE  x \in {new[u] : u \in Threads} \ empty
    BY <1>1, <2>1 DEF Slots
  <2>2. ASSUME NEW x \in {new[u] : u \in Threads} \ empty
        PROVE  x \in live \ {slots[t]}
    BY <1>1, <2>2 DEF Slots
  <2>3. QED
    BY <2>1, <2>2
<1>3. ASSUME NEW u \in Threads, NEW v \in Threads, new[u] = new[v], new[u] \notin empty
      PROVE  u = v
  BY <1>1, <1>3 DEF Slots
<1>4. QED
  BY <1>2, <1>3 DEF Slots, new

\* What one thread does leaves the reports of the others alone.
LEMMA OneReport ==
    ASSUME ReportInv, abi' = abi, NEW t \in Threads,
           DOMAIN error_slot' = Threads, DOMAIN out' = Threads,
           \A u \in Threads \ {t} :
              call'[u] = call[u] /\ error_slot'[u] = error_slot[u] /\ out'[u] = out[u],
           \A u \in Threads \ {t} : error_slot[u] \in strings => error_slot[u] \in strings',
           Slots(error_slot, strings, {Null, Garbage})', Slots(out, buffers, {Garbage})',
           abi = "go_ffi" => buffers' = {}, ReportOk(t)'
    PROVE  ReportInv'
<1>1. ASSUME NEW u \in Threads \ {t}
      PROVE  ReportOk(u)'
  <2>1. /\ call'[u] = call[u] /\ error_slot'[u] = error_slot[u] /\ out'[u] = out[u]
        /\ error_slot[u] \in strings => error_slot[u] \in strings'
    BY <1>1
  <2>2. ReportOk(u)
    BY <1>1 DEF ReportInv
  <2>3. QED
    BY <2>1, <2>2 DEF ReportOk, Busy, BusyOk, ReturnedOk, Succeeded
<1>2. QED
  BY <1>1 DEF ReportInv

\* A call that fails has its string, if its caller asked for one.
LEMMA ErrorSet ==
    ASSUME ReportInv, NEW t \in Threads, error_slot[t] \in {Null, Garbage}, set_error_out(t)
    PROVE  /\ DOMAIN error_slot' = Threads
           /\ \A u \in Threads \ {t} : error_slot'[u] = error_slot[u]
           /\ strings \subseteq strings'
           /\ Slots(error_slot, strings, {Null, Garbage})'
           /\ call[t].wants_error => error_slot'[t] \in strings'
<1>1. CASE call[t].wants_error
  <2>1. PICK s \in Strings \ strings : /\ strings' = strings \cup {s}
                                       /\ error_slot' = [error_slot EXCEPT ![t] = s]
    BY <1>1 DEF set_error_out
  <2>2. s \notin {Null, Garbage}
    BY <2>1, GoFfiAssumption
  <2>3. DOMAIN error_slot = Threads /\ Slots(error_slot, strings, {Null, Garbage})
    BY DEF ReportInv
  <2>4. Slots([error_slot EXCEPT ![t] = s], strings \cup {s}, {Null, Garbage})
    BY <2>1, <2>2, <2>3, Filled
  <2>5. Slots(error_slot', strings', {Null, Garbage})
    BY <2>1, <2>4
  <2>6. QED
    BY <2>1, <2>3, <2>5 DEF Slots
<1>2. CASE ~call[t].wants_error
  BY <1>2 DEF set_error_out, ReportInv, Slots
<1>3. QED
  BY <1>1, <1>2

\* A call returns what it reports: its error, if it failed, and its buffer, if it gives one.
LEMMA Reported ==
    ASSUME HandleInv, ReportInv, abi' = abi, NEW t \in Threads, Busy(call[t]),
           NEW value, Return(t, value),
           DOMAIN value \in {{"pointer"}, {"status"}, {"outcome", "status"}},
           NEW success \in BOOLEAN,
           success => UNCHANGED <<strings, error_slot>>,
           ~success => set_error_out(t),
           success <=> IF "pointer" \in DOMAIN value THEN value.pointer # Null
                                                     ELSE value.status = 0,
           DOMAIN out' = Threads, \A u \in Threads \ {t} : out'[u] = out[u],
           Slots(out, buffers, {Garbage})', abi = "go_ffi" => buffers' = {},
           "status" \in DOMAIN value =>
              /\ out'[t] # Garbage <=> value.status = 0 /\ GivesBuffer(call[t].function)
              /\ abi = "nymauth" => /\ "outcome" \in DOMAIN value
                                    /\ StatusFits(call[t].function, value.outcome, value.status)
    PROVE  ReportInv'
<1>0. PICK c, returned : c = call[t] /\ returned = [stage |-> "returned"]
  OBVIOUS
<1>1. BusyOk(t)
  BY DEF ReportInv, ReportOk
<1>2. /\ \A u \in Threads \ {t} : call'[u] = call[u]
      /\ call'[t] = Over(value, Over(returned, c))
  BY <1>0 DEF Return, HandleInv
<1>3. "stage" \notin DOMAIN value
  OBVIOUS
<1>4. /\ DOMAIN call'[t] = DOMAIN value \cup DOMAIN c \cup {"stage"}
      /\ call'[t].stage = "returned"
      /\ \A field \in DOMAIN value : call'[t][field] = value[field]
      /\ \A field \in DOMAIN c \ (DOMAIN value \cup {"stage"}) : call'[t][field] = c[field]
  <2>1. DOMAIN returned = {"stage"} /\ returned["stage"] = "returned"
    BY <1>0
  <2>2. PICK ended : ended = Over(returned, c)
    OBVIOUS
  <2>3. DOMAIN ended = {"stage"} \cup DOMAIN c
    BY <2>1, <2>2 DEF Over
  <2>4. /\ ended["stage"] = "returned"
        /\ \A field \in DOMAIN c \ {"stage"} : ended[field] = c[field]
    BY <2>1, <2>2 DEF Over
  <2>5. call'[t] = Over(value, ended)
    BY <1>2, <2>2
  <2>6. DOMAIN call'[t] = DOMAIN value \cup DOMAIN ended
    BY <2>5 DEF Over
  <2>7. /\ \A field \in DOMAIN value : call'[t][field] = value[field]
        /\ \A field \in DOMAIN ended \ DOMAIN value : call'[t][field] = ended[field]
    BY <2>5 DEF Over
  <2>8. DOMAIN call'[t] = DOMAIN value \cup DOMAIN c \cup {"stage"}
    BY <2>3, <2>6
  <2>9. call'[t].stage = "returned"
    BY <1>3, <2>3, <2>4, <2>7
  <2>10. ASSUME NEW field \in DOMAIN c \ (DOMAIN value \cup {"stage"})
         PROVE  call'[t][field] = c[field]
    BY <2>3, <2>4, <2>7
  <2>11. QED
    BY <2>7, <2>8, <2>9, <2>10
<1>5. /\ call'[t].function = call[t].function
      /\ call'[t].wants_error = call[t].wants_error
  <2>1. "function" \in DOMAIN c \ (DOMAIN value \cup {"stage"})
    BY <1>0, <1>1 DEF BusyOk
  <2>2. "wants_error" \in DOMAIN c \ (DOMAIN value \cup {"stage"})
    BY <1>0, <1>1 DEF BusyOk
  <2>3. QED
    BY <1>0, <1>4, <2>1, <2>2
<1>6. /\ "pointer" \in DOMAIN call'[t] <=> "pointer" \in DOMAIN value
      /\ "status" \in DOMAIN call'[t] <=> "status" \in DOMAIN value
  <2>1. "pointer" \notin DOMAIN c /\ "status" \notin DOMAIN c
    BY <1>0, <1>1 DEF BusyOk
  <2>2. QED
    BY <1>4, <2>1
<1>7. /\ DOMAIN error_slot' = Threads
      /\ \A u \in Threads \ {t} : error_slot'[u] = error_slot[u]
      /\ strings \subseteq strings'
      /\ Slots(error_slot, strings, {Null, Garbage})'
      /\ ~success /\ call[t].wants_error => error_slot'[t] \in strings'
  <2>1. CASE success
    BY <2>1 DEF ReportInv, Slots
  <2>2. CASE ~success
    BY <1>1, <2>2, ErrorSet DEF BusyOk
  <2>3. QED
    BY <2>1, <2>2
<1>8. Succeeded(t)' <=> success
  <2>1. CASE "pointer" \in DOMAIN value
    BY <1>4, <1>6, <2>1 DEF Succeeded
  <2>2. CASE "pointer" \notin DOMAIN value
    BY <1>4, <1>6, <2>2 DEF Succeeded
  <2>3. QED
    BY <2>1, <2>2
<1>9. call[t].wants_error /\ success => error_slot'[t] = Null
  BY <1>1 DEF BusyOk
<1>10. ReportOk(t)'
  <2>1. (call[t].wants_error =>
           IF Succeeded(t) THEN error_slot[t] = Null ELSE error_slot[t] \in strings)'
    BY <1>5, <1>7, <1>8, <1>9
  <2>2. ("status" \in DOMAIN call[t] =>
          /\ out[t] # Garbage <=> call[t].status = 0 /\ GivesBuffer(call[t].function)
          /\ abi = "nymauth" => StatusFits(call[t].function, call[t].outcome, call[t].status))'
    BY <1>4, <1>5, <1>6
  <2>3. ReturnedOk(t)'
    BY <2>1, <2>2 DEF ReturnedOk
  <2>4. QED
    BY <1>4, <2>3 DEF ReportOk, Busy
<1>11. QED
  BY <1>2, <1>7, <1>10, OneReport

\* A call begins with the slots of its thread empty.
LEMMA Begun ==
    ASSUME HandleInv, ReportInv, abi' = abi, out' = out, buffers' = buffers,
           NEW t \in Threads, NEW new_call, Enter(t, new_call), "function" \in DOMAIN new_call,
           DOMAIN new_call \cap {"pointer", "status", "outcome", "stage", "wants_error"} = {},
           abi = "go_ffi" => new_call["function"] \in {"initialize", "verify"},
           new_call["function"] \in Functions => out[t] = Garbage
    PROVE  ReportInv'
<1>1. PICK wants_error \in BOOLEAN :
        /\ clear_error_out(t, wants_error)
        /\ call' = [call EXCEPT ![t] =
                      Over(new_call, [stage |-> "running", wants_error |-> wants_error])]
  BY DEF Enter
<1>2. PICK start : start = [stage |-> "running", wants_error |-> wants_error]
  OBVIOUS
<1>3. /\ \A u \in Threads \ {t} : call'[u] = call[u]
      /\ call'[t] = Over(new_call, start)
  BY <1>1, <1>2 DEF HandleInv
<1>4. /\ DOMAIN start = {"stage", "wants_error"}
      /\ start["stage"] = "running" /\ start["wants_error"] = wants_error
  BY <1>2
<1>5. DOMAIN call'[t] = DOMAIN new_call \cup {"stage", "wants_error"}
  BY <1>3, <1>4 DEF Over
<1>6. /\ call'[t].stage = "running" /\ call'[t].wants_error = wants_error
      /\ call'[t].function = new_call["function"]
  <2>1. /\ \A field \in DOMAIN new_call : call'[t][field] = new_call[field]
        /\ \A field \in DOMAIN start \ DOMAIN new_call : call'[t][field] = start[field]
    BY <1>3 DEF Over
  <2>2. QED
    BY <1>4, <2>1
<1>7. strings' = strings /\ error_slot[t] \in {Null, Garbage}
  BY DEF Enter
<1>8. /\ DOMAIN error_slot' = Threads
      /\ \A u \in Threads \ {t} : error_slot'[u] = error_slot[u]
      /\ Slots(error_slot, strings, {Null, Garbage})'
      /\ error_slot'[t] \in {Null, Garbage} /\ (wants_error => error_slot'[t] = Null)
  <2>1. DOMAIN error_slot = Threads /\ Slots(error_slot, strings, {Null, Garbage})
    BY DEF ReportInv
  <2>2. CASE wants_error
    <3>1. error_slot' = [error_slot EXCEPT ![t] = Null]
      BY <1>1, <2>2 DEF clear_error_out
    <3>2. Slots([error_slot EXCEPT ![t] = Null], strings \ {error_slot[t]}, {Null, Garbage})
      BY <2>1, Emptied
    <3>3. strings \ {error_slot[t]} = strings
      BY <1>7, <2>1 DEF Slots
    <3>4. Slots(error_slot', strings', {Null, Garbage})
      BY <1>7, <3>1, <3>2, <3>3
    <3>5. QED
      BY <2>1, <3>1, <3>4 DEF Slots
  <2>3. CASE ~wants_error
    BY <1>1, <1>7, <2>1, <2>3 DEF clear_error_out, Slots
  <2>4. QED
    BY <2>2, <2>3
<1>9. ReportOk(t)'
  <2>1. BusyOk(t)'
    BY <1>5, <1>6, <1>8 DEF BusyOk
  <2>2. QED
    BY <1>6, <2>1 DEF ReportOk
<1>10. DOMAIN out' = Threads /\ Slots(out, buffers, {Garbage})' /\ (abi = "go_ffi" => buffers' = {})
  BY DEF ReportInv, Slots
<1>11. QED
  BY <1>3, <1>7, <1>8, <1>9, <1>10, OneReport

\* A call that goes on has the fields and the slots that it had.
LEMMA GoesOn ==
    ASSUME HandleInv, ReportInv, abi' = abi, out' = out, buffers' = buffers,
           strings' = strings, error_slot' = error_slot,
           NEW t \in Threads, Busy(call[t]), DOMAIN call' = Threads,
           \A u \in Threads \ {t} : call'[u] = call[u],
           DOMAIN call'[t] \subseteq DOMAIN call[t] \cup {"result"},
           DOMAIN call[t] \subseteq DOMAIN call'[t],
           \A field \in DOMAIN call[t] \ {"stage", "result"} : call'[t][field] = call[t][field],
           Busy(call[t])'
    PROVE  ReportInv'
<1>1. BusyOk(t)
  BY DEF ReportInv, ReportOk
<1>2. call'[t].function = call[t].function /\ call'[t].wants_error = call[t].wants_error
  BY <1>1 DEF BusyOk
<1>3. BusyOk(t)'
  BY <1>1, <1>2 DEF BusyOk
<1>4. ReportOk(t)'
  BY <1>3 DEF ReportOk, Busy
<1>5. /\ DOMAIN out' = Threads /\ Slots(out, buffers, {Garbage})'
      /\ abi = "go_ffi" => buffers' = {}
      /\ DOMAIN error_slot' = Threads /\ Slots(error_slot, strings, {Null, Garbage})'
  BY DEF ReportInv, Slots
<1>6. QED
  BY <1>4, <1>5, OneReport

\* So does one whose closure ended.
LEMMA CaughtReport ==
    ASSUME HandleInv, ReportInv, abi' = abi, out' = out, buffers' = buffers,
           NEW t \in Threads, Busy(call[t]), NEW result, Caught(t, result)
    PROVE  ReportInv'
<1>1. PICK new : new = [result |-> result, stage |-> "caught"]
  OBVIOUS
<1>2. /\ DOMAIN call' = Threads /\ \A u \in Threads \ {t} : call'[u] = call[u]
      /\ call'[t] = Over(new, call[t])
      /\ strings' = strings /\ error_slot' = error_slot
  BY <1>1 DEF Caught, HandleInv
<1>3. DOMAIN new = {"result", "stage"} /\ new["stage"] = "caught"
  BY <1>1
<1>4. DOMAIN call'[t] = {"result", "stage"} \cup DOMAIN call[t]
  BY <1>2, <1>3 DEF Over
<1>5. /\ call'[t].stage = "caught"
      /\ \A field \in DOMAIN call[t] \ {"stage", "result"} : call'[t][field] = call[t][field]
  BY <1>2, <1>3 DEF Over
<1>6. "stage" \in DOMAIN call[t]
  BY DEF HandleInv, CallOk
<1>7. DOMAIN call'[t] \subseteq DOMAIN call[t] \cup {"result"}
  BY <1>4, <1>6
<1>8. Busy(call[t])'
  BY <1>5 DEF Busy
<1>9. QED
  BY <1>2, <1>4, <1>5, <1>7, <1>8, GoesOn

\* Between two calls there is nothing to report.
LEMMA Resumed ==
    ASSUME HandleInv, ReportInv, abi' = abi, out' = out, buffers' = buffers,
           NEW t \in Threads, resume(t)
    PROVE  ReportInv'
<1>1. /\ \A u \in Threads \ {t} : call'[u] = call[u]
      /\ call'[t] = NoCall /\ strings' = strings /\ error_slot' = error_slot
  BY DEF resume, HandleInv
<1>2. ReportOk(t)'
  BY <1>1 DEF ReportOk, Busy, NoCall
<1>3. /\ DOMAIN out' = Threads /\ Slots(out, buffers, {Garbage})'
      /\ abi = "go_ffi" => buffers' = {}
      /\ DOMAIN error_slot' = Threads /\ Slots(error_slot, strings, {Null, Garbage})'
  BY <1>1 DEF ReportInv, Slots
<1>4. QED
  BY <1>1, <1>2, <1>3, OneReport

LEMMA StringFreed ==
    ASSUME HandleInv, ReportInv, abi' = abi, out' = out, buffers' = buffers,
           NEW t \in Threads, rust_free_error_string(t)
    PROVE  ReportInv'
<1>1. /\ call[t] = NoCall /\ error_slot[t] \in strings /\ call' = call
      /\ strings' = strings \ {error_slot[t]}
      /\ error_slot' = [error_slot EXCEPT ![t] = Null]
  BY DEF rust_free_error_string
<1>2. DOMAIN error_slot = Threads /\ Slots(error_slot, strings, {Null, Garbage})
  BY DEF ReportInv
<1>3. Slots([error_slot EXCEPT ![t] = Null], strings \ {error_slot[t]}, {Null, Garbage})
  BY <1>2, Emptied
<1>4. Slots(error_slot', strings', {Null, Garbage})
  BY <1>1, <1>3
<1>5. ASSUME NEW u \in Threads \ {t}, error_slot[u] \in strings
      PROVE  error_slot[u] \in strings'
  BY <1>1, <1>2, <1>5 DEF Slots
<1>6. ReportOk(t)'
  BY <1>1 DEF ReportOk, Busy, NoCall
<1>7. /\ DOMAIN out' = Threads /\ Slots(out, buffers, {Garbage})'
      /\ abi = "go_ffi" => buffers' = {}
      /\ DOMAIN error_slot' = Threads
      /\ \A u \in Threads \ {t} : error_slot'[u] = error_slot[u]
  BY <1>1 DEF ReportInv, Slots
<1>8. QED
  BY <1>1, <1>4, <1>5, <1>6, <1>7, OneReport

LEMMA BufferFreed ==
    ASSUME HandleInv, ReportInv, NEW t \in Threads, nymauth_free_buffer(t)
    PROVE  ReportInv'
<1>1. /\ call[t] = NoCall /\ out[t] \in buffers /\ abi' = abi
      /\ call' = call /\ strings' = strings /\ error_slot' = error_slot
      /\ buffers' = buffers \ {out[t]} /\ out' = [out EXCEPT ![t] = Garbage]
  BY DEF nymauth_free_buffer, all_vars, ffi_vars
<1>2. DOMAIN out = Threads /\ Slots(out, buffers, {Garbage})
  BY DEF ReportInv
<1>3. Slots([out EXCEPT ![t] = Garbage], buffers \ {out[t]}, {Garbage})
  BY <1>2, Emptied
<1>4. Slots(out', buffers', {Garbage})
  BY <1>1, <1>3
<1>5. ReportOk(t)'
  BY <1>1 DEF ReportOk, Busy, NoCall
<1>6. /\ DOMAIN out' = Threads /\ \A u \in Threads \ {t} : out'[u] = out[u]
      /\ abi = "go_ffi" => buffers' = {}
      /\ DOMAIN error_slot' = Threads /\ Slots(error_slot, strings, {Null, Garbage})'
  BY <1>1, <1>2 DEF ReportInv, Slots
<1>7. QED
  BY <1>1, <1>4, <1>5, <1>6, OneReport

\* A call that returns no buffer.
LEMMA ReportedPlain ==
    ASSUME HandleInv, ReportInv, abi' = abi, out' = out, buffers' = buffers,
           NEW t \in Threads, Busy(call[t]),
           NEW value, Return(t, value),
           DOMAIN value \in {{"pointer"}, {"status"}, {"outcome", "status"}},
           NEW success \in BOOLEAN,
           success => UNCHANGED <<strings, error_slot>>,
           ~success => set_error_out(t),
           success <=> IF "pointer" \in DOMAIN value THEN value.pointer # Null
                                                     ELSE value.status = 0,
           "status" \in DOMAIN value =>
              /\ call[t].function \in Functions
              /\ ~(value.status = 0 /\ GivesBuffer(call[t].function))
              /\ abi = "nymauth" => /\ "outcome" \in DOMAIN value
                                    /\ StatusFits(call[t].function, value.outcome, value.status)
    PROVE  ReportInv'
<1>1. /\ DOMAIN out' = Threads /\ Slots(out, buffers, {Garbage})'
      /\ abi = "go_ffi" => buffers' = {}
  BY DEF ReportInv, Slots
<1>2. "status" \in DOMAIN value => out'[t] = Garbage
  BY DEF ReportInv, ReportOk, BusyOk
<1>3. "status" \in DOMAIN value =>
              /\ out'[t] # Garbage <=> value.status = 0 /\ GivesBuffer(call[t].function)
              /\ abi = "nymauth" => /\ "outcome" \in DOMAIN value
                                    /\ StatusFits(call[t].function, value.outcome, value.status)
  BY <1>2
<1>4. QED
  BY <1>1, <1>3, Reported

\* The calls of go_ffi.rs report what they return.
LEMMA GoReports == HandleInv /\ ReportInv /\ GoNext => ReportInv'
<1> SUFFICES ASSUME HandleInv, ReportInv, abi = "go_ffi", FfiNext, abi' = abi,
                    out' = out, buffers' = buffers
             PROVE  ReportInv'
  BY DEF GoNext, c_vars
<1>a. \A t \in Threads : out[t] = Garbage
  BY DEF ReportInv, Slots
<1>b. \A t \in Threads :
         call[t].stage \in {"running", "verifying", "working", "caught"} => Busy(call[t])
  BY DEF Busy
<1>1. ASSUME NEW t \in Threads, initialize_enter(t)
      PROVE  ReportInv'
  <2>1. PICK bad \in BadArguments, version \in Versions :
          Enter(t, [function |-> "initialize", version |-> version,
                    bad |-> bad \cup (IF version \in {6, 7, 8} THEN {} ELSE {"circuit_version"})])
    BY <1>1 DEF initialize_enter
  <2>2. PICK new : new = [function |-> "initialize", version |-> version,
                     bad |-> bad \cup (IF version \in {6, 7, 8} THEN {} ELSE {"circuit_version"})]
    OBVIOUS
  <2>3. DOMAIN new = {"function", "version", "bad"} /\ new["function"] = "initialize"
    BY <2>2
  <2>4. Enter(t, new)
    BY <2>1, <2>2
  <2>5. QED
    BY <1>a, <2>3, <2>4, Begun
<1>2. ASSUME NEW t \in Threads, initialize_run(t)
      PROVE  ReportInv'
  BY <1>2, <1>b, CaughtReport DEF initialize_run, InStage
<1>3. ASSUME NEW t \in Threads, initialize_return(t)
      PROVE  ReportInv'
  <2>1. ASSUME NEW v \in Verifiers, Return(t, [pointer |-> v]), UNCHANGED <<strings, error_slot>>
        PROVE  ReportInv'
    <3>1. PICK value : value = [pointer |-> v]
      OBVIOUS
    <3>2. DOMAIN value = {"pointer"} /\ value.pointer # Null
      BY <3>1, GoFfiAssumption
    <3>3. Return(t, value)
      BY <2>1, <3>1
    <3>4. QED
      BY <1>3, <1>b, <2>1, <3>2, <3>3, ReportedPlain DEF initialize_return, InStage
  <2>2. ASSUME Return(t, [pointer |-> Null]), set_error_out(t)
        PROVE  ReportInv'
    <3>1. PICK value : value = [pointer |-> Null]
      OBVIOUS
    <3>2. DOMAIN value = {"pointer"} /\ value.pointer = Null
      BY <3>1
    <3>3. Return(t, value)
      BY <2>2, <3>1
    <3>4. QED
      BY <1>3, <1>b, <2>2, <3>2, <3>3, ReportedPlain DEF initialize_return, InStage
  <2>3. QED
    BY <1>3, <2>1, <2>2 DEF initialize_return
<1>4. ASSUME NEW t \in Threads, verify_enter(t)
      PROVE  ReportInv'
  <2>1. PICK bad \in BadArguments, verifier \in held \cup {Null} :
          Enter(t, [function |-> "verify", verifier |-> verifier,
                    bad |-> bad \cup (IF verifier = Null THEN {"verifier"} ELSE {})])
    BY <1>4 DEF verify_enter
  <2>2. PICK new : new = [function |-> "verify", verifier |-> verifier,
                          bad |-> bad \cup (IF verifier = Null THEN {"verifier"} ELSE {})]
    OBVIOUS
  <2>3. DOMAIN new = {"function", "verifier", "bad"} /\ new["function"] = "verify"
    BY <2>2
  <2>4. Enter(t, new)
    BY <2>1, <2>2
  <2>5. QED
    BY <1>a, <2>3, <2>4, Begun
<1>5. ASSUME NEW t \in Threads, verify_check(t)
      PROVE  ReportInv'
  <2>1. CASE Fails(VerifyChecks, call[t].bad)
    BY <1>5, <1>b, <2>1, CaughtReport DEF verify_check, InStage
  <2>2. CASE ~Fails(VerifyChecks, call[t].bad)
    <3>1. /\ call[t].stage = "running" /\ call' = [call EXCEPT ![t].stage = "verifying"]
          /\ held' = held /\ verifiers' = verifiers
          /\ strings' = strings /\ error_slot' = error_slot
      BY <1>5, <2>2 DEF verify_check, InStage
    <3>2. /\ DOMAIN call' = DOMAIN call /\ \A u \in Threads \ {t} : call'[u] = call[u]
          /\ DOMAIN call'[t] = DOMAIN call[t] /\ call'[t].stage = "verifying"
          /\ \A field \in DOMAIN call[t] \ {"stage"} : call'[t][field] = call[t][field]
      BY <3>1, StageKeeps
    <3>3. DOMAIN call' = Threads /\ Busy(call[t])' /\ Busy(call[t])
      BY <1>b, <3>1, <3>2 DEF HandleInv, Busy
    <3>4. QED
      BY <3>1, <3>2, <3>3, GoesOn
  <2>3. QED
    BY <2>1, <2>2
<1>6. ASSUME NEW t \in Threads, multiply(t)
      PROVE  ReportInv'
  BY <1>6 DEF multiply, ffi_vars, ReportInv, Slots, ReportOk, Busy, BusyOk, ReturnedOk, Succeeded
<1>7. ASSUME NEW t \in Threads, verify_conclude(t)
      PROVE  ReportInv'
  BY <1>7, <1>b, CaughtReport DEF verify_conclude, InStage
<1>8. ASSUME NEW t \in Threads, verify_return(t)
      PROVE  ReportInv'
  <2>1. PICK code \in {0, -1, -2} :
          /\ Return(t, [status |-> code])
          /\ IF code = 0 THEN UNCHANGED <<strings, error_slot>> ELSE set_error_out(t)
    BY <1>8 DEF verify_return
  <2>2. PICK value : value = [status |-> code]
    OBVIOUS
  <2>3. DOMAIN value = {"status"} /\ value.status = code /\ Return(t, value)
    BY <2>1, <2>2
  <2>4. call[t].function \in Functions /\ ~GivesBuffer(call[t].function) /\ Busy(call[t])
    BY <1>8, <1>b DEF verify_return, InStage, Functions, GivesBuffer
  <2>5. PICK success \in BOOLEAN : success <=> code = 0
    OBVIOUS
  <2>6. QED
    BY <2>1, <2>3, <2>4, <2>5, ReportedPlain
<1>9. ASSUME NEW t \in Threads, resume(t)
      PROVE  ReportInv'
  BY <1>9, Resumed
<1>10. ASSUME NEW t \in Threads, rust_free_verifier(t)
       PROVE  ReportInv'
  BY <1>10 DEF rust_free_verifier, ReportInv, Slots, ReportOk, Busy, BusyOk, ReturnedOk, Succeeded
<1>11. ASSUME NEW t \in Threads, rust_free_error_string(t)
       PROVE  ReportInv'
  BY <1>11, StringFreed
<1>12. QED
  BY <1>1, <1>2, <1>3, <1>4, <1>5, <1>6, <1>7, <1>8, <1>9, <1>10, <1>11 DEF FfiNext

\* What a function of nymauth/c_abi.rs may end in fits the status it returns.
LEMMA StatusFitsOutcome ==
    ASSUME NEW function \in Functions, NEW outcome \in Outcomes(function)
    PROVE  /\ StatusFits(function, outcome, StatusOf(function, outcome))
           /\ outcome = "ok" <=> StatusOf(function, outcome) = 0
<1>1. /\ run("ok") = 0 /\ run("panic") = -100
      /\ run("InvalidInput") = -1 /\ run("Credential") = -4 /\ run("Unsatisfied") = -5
      /\ run("Prover") = -6 /\ run("Verification") = -7
  BY DEF run, status
<1>2. /\ guarded("panic") = "Prover"
      /\ \A other \in {"ok", "InvalidInput", "Credential", "Unsatisfied", "Prover",
                       "Verification"} :
            guarded(other) = other
  BY DEF guarded
<1>3. CASE function = "prove"
  <2>1. outcome \in {"ok", "InvalidInput", "Credential", "Unsatisfied", "Prover", "panic"}
    BY <1>3 DEF Outcomes
  <2>2. StatusOf(function, outcome) = run(guarded(outcome)) /\ IsGuarded(function)
    BY <1>3 DEF StatusOf, IsGuarded
  <2>3. PICK code : code = StatusOf(function, outcome)
    OBVIOUS
  <2>4. /\ outcome = "ok" => code = 0
        /\ outcome = "InvalidInput" => code = -1
        /\ outcome = "Credential" => code = -4
        /\ outcome = "Unsatisfied" => code = -5
        /\ outcome = "Prover" => code = -6
        /\ outcome = "panic" => code = -6
    BY <1>1, <1>2, <2>2, <2>3
  <2>5. StatusFits(function, outcome, code)
    BY <2>1, <2>2, <2>4 DEF StatusFits
  <2>6. outcome = "ok" <=> code = 0
    BY <2>1, <2>4
  <2>7. QED
    BY <2>3, <2>5, <2>6
<1>4. CASE function = "verify"
  <2>1. outcome \in {"ok", "InvalidInput", "Verification", "panic"}
    BY <1>4 DEF Outcomes
  <2>2. StatusOf(function, outcome) = run(guarded(outcome)) /\ IsGuarded(function)
    BY <1>4 DEF StatusOf, IsGuarded
  <2>3. PICK code : code = StatusOf(function, outcome)
    OBVIOUS
  <2>4. /\ outcome = "ok" => code = 0
        /\ outcome = "InvalidInput" => code = -1
        /\ outcome = "Verification" => code = -7
        /\ outcome = "panic" => code = -6
    BY <1>1, <1>2, <2>2, <2>3
  <2>5. StatusFits(function, outcome, code)
    BY <2>1, <2>2, <2>4 DEF StatusFits
  <2>6. outcome = "ok" <=> code = 0
    BY <2>1, <2>4
  <2>7. QED
    BY <2>3, <2>5, <2>6
<1>5. CASE function \in Digests \cup {"derive_challenge"}
  <2>1. outcome \in {"ok", "InvalidInput", "panic"}
    BY <1>5 DEF Outcomes, Digests
  <2>2. StatusOf(function, outcome) = run(outcome) /\ ~IsGuarded(function)
    BY <1>5 DEF StatusOf, IsGuarded, Digests
  <2>3. PICK code : code = StatusOf(function, outcome)
    OBVIOUS
  <2>4. /\ outcome = "ok" => code = 0
        /\ outcome = "InvalidInput" => code = -1
        /\ outcome = "panic" => code = -100
    BY <1>1, <1>2, <2>2, <2>3
  <2>5. StatusFits(function, outcome, code)
    BY <2>1, <2>2, <2>4 DEF StatusFits
  <2>6. outcome = "ok" <=> code = 0
    BY <2>1, <2>4
  <2>7. QED
    BY <2>3, <2>5, <2>6
<1>6. QED
  BY <1>3, <1>4, <1>5 DEF Functions

\* The calls of nymauth/c_abi.rs report what they return.
LEMMA NymAuthReports == HandleInv /\ ReportInv /\ NymAuthNext => ReportInv'
<1> SUFFICES ASSUME HandleInv, ReportInv, NymAuthNext
             PROVE  ReportInv'
  OBVIOUS
<1>a. abi = "nymauth"
  BY DEF NymAuthNext
<1>b. \A t \in Threads :
         call[t].stage \in {"running", "verifying", "working", "caught"} => Busy(call[t])
  BY DEF Busy
<1>1. ASSUME NEW t \in Threads, new_enter(t)
      PROVE  ReportInv'
  <2>1. PICK kind \in Kinds, arguments \in {"good", "wrong"} :
          Enter(t, [function |-> "new", kind |-> kind, arguments |-> arguments])
    BY <1>1 DEF new_enter
  <2>2. PICK new : new = [function |-> "new", kind |-> kind, arguments |-> arguments]
    OBVIOUS
  <2>3. DOMAIN new = {"function", "kind", "arguments"} /\ new["function"] = "new"
    BY <2>2
  <2>4. Enter(t, new) /\ abi' = abi /\ out' = out /\ buffers' = buffers
    BY <1>1, <2>1, <2>2 DEF new_enter, c_vars
  <2>5. "new" \notin Functions
    BY DEF Functions, Digests
  <2>6. QED
    BY <1>a, <2>3, <2>4, <2>5, Begun
<1>2. ASSUME NEW t \in Threads, new_return(t)
      PROVE  ReportInv'
  <2>1. abi' = abi /\ out' = out /\ buffers' = buffers /\ Busy(call[t])
    BY <1>2, <1>b DEF new_return, c_vars, InStage
  <2>2. ASSUME NEW h \in Verifiers, Return(t, [pointer |-> h]), UNCHANGED <<strings, error_slot>>
        PROVE  ReportInv'
    <3>1. PICK value : value = [pointer |-> h]
      OBVIOUS
    <3>2. DOMAIN value = {"pointer"} /\ value.pointer # Null
      BY <3>1, GoFfiAssumption
    <3>3. Return(t, value)
      BY <2>2, <3>1
    <3>4. QED
      BY <2>1, <2>2, <3>2, <3>3, ReportedPlain
  <2>3. ASSUME Return(t, [pointer |-> Null]), set_error_out(t)
        PROVE  ReportInv'
    <3>1. PICK value : value = [pointer |-> Null]
      OBVIOUS
    <3>2. DOMAIN value = {"pointer"} /\ value.pointer = Null
      BY <3>1
    <3>3. Return(t, value)
      BY <2>3, <3>1
    <3>4. QED
      BY <2>1, <2>3, <3>2, <3>3, ReportedPlain
  <2>4. QED
    BY <1>2, <2>2, <2>3 DEF new_return
<1>3. ASSUME NEW t \in Threads, call_enter(t)
      PROVE  ReportInv'
  <2>1. PICK function \in Functions : \E h, arguments :
            Enter(t, [function |-> function, verifier |-> h, arguments |-> arguments])
    BY <1>3 DEF call_enter
  <2>2. PICK h, arguments :
            Enter(t, [function |-> function, verifier |-> h, arguments |-> arguments])
    BY <2>1
  <2>a. PICK new : new = [function |-> function, verifier |-> h, arguments |-> arguments]
    OBVIOUS
  <2>3. DOMAIN new = {"function", "verifier", "arguments"} /\ new["function"] = function
    BY <2>a
  <2>4. Enter(t, new) /\ abi' = abi /\ out' = out /\ buffers' = buffers /\ out[t] = Garbage
    BY <1>3, <2>a, <2>2 DEF call_enter, c_vars
  <2>5. QED
    BY <1>a, <2>3, <2>4, Begun
<1>4. ASSUME NEW t \in Threads, NEW outcome \in {"null_argument", "InvalidInput"},
             call[t].stage = "running", call[t].function \in Functions,
             set_error_out(t), Ends(t, outcome, -1), UNCHANGED c_vars
      PROVE  ReportInv'
  <2>1. PICK value : value = [outcome |-> outcome, status |-> -1]
    OBVIOUS
  <2>2. /\ DOMAIN value = {"outcome", "status"} /\ value.status # 0
        /\ value.outcome = outcome /\ value.status = -1 /\ Return(t, value)
    <3>1. DOMAIN value = {"outcome", "status"} /\ value.outcome = outcome
      BY <2>1
    <3>a. value.status = -1
      BY <2>1
    <3>2. Return(t, value)
      BY <1>4, <2>1 DEF Ends
    <3>3. value.status # 0
      BY <3>a
    <3>4. QED
      BY <3>1, <3>2, <3>3, <3>a
  <2>3. StatusFits(call[t].function, value.outcome, value.status)
    BY <2>2 DEF StatusFits
  <2>4. abi' = abi /\ out' = out /\ buffers' = buffers /\ Busy(call[t])
    BY <1>4, <1>b DEF c_vars
  <2>5. QED
    BY <1>4, <2>2, <2>3, <2>4, ReportedPlain
<1>5. ASSUME NEW t \in Threads, null_argument(t)
      PROVE  ReportInv'
  BY <1>4, <1>5 DEF null_argument
<1>6. ASSUME NEW t \in Threads, convert(t)
      PROVE  ReportInv'
  <2>1. CASE call[t].arguments = "wrong"
    <3>1. run("InvalidInput") = -1
      BY DEF run, status
    <3>2. QED
      BY <1>4, <1>6, <2>1, <3>1 DEF convert
  <2>2. CASE call[t].arguments # "wrong"
    <3>1. PICK stage \in {"verifying", "working"} : call' = [call EXCEPT ![t].stage = stage]
      BY <1>6, <2>2 DEF convert
    <3>2. /\ call[t].stage = "running" /\ held' = held /\ verifiers' = verifiers
          /\ strings' = strings /\ error_slot' = error_slot
          /\ abi' = abi /\ out' = out /\ buffers' = buffers
      BY <1>6, <2>2 DEF convert, c_vars
    <3>3. /\ DOMAIN call' = DOMAIN call /\ \A u \in Threads \ {t} : call'[u] = call[u]
          /\ DOMAIN call'[t] = DOMAIN call[t] /\ call'[t].stage = stage
          /\ \A field \in DOMAIN call[t] \ {"stage"} : call'[t][field] = call[t][field]
      BY <3>1, <3>2, StageKeeps
    <3>4. DOMAIN call' = Threads /\ Busy(call[t])' /\ Busy(call[t])
      BY <1>b, <3>2, <3>3 DEF HandleInv, Busy
    <3>5. QED
      BY <3>2, <3>3, <3>4, GoesOn
  <2>3. QED
    BY <2>1, <2>2
<1>7. ASSUME NEW t \in Threads, conclude(t)
      PROVE  ReportInv'
  <2>1. PICK outcome \in Outcomes(call[t].function) :
         /\ Ends(t, outcome, StatusOf(call[t].function, outcome))
         /\ IF outcome = "ok" THEN UNCHANGED <<strings, error_slot>> ELSE set_error_out(t)
         /\ IF GivesBuffer(call[t].function) /\ outcome = "ok"
            THEN \E b \in Buffers \ buffers :
                    buffers' = buffers \cup {b} /\ out' = [out EXCEPT ![t] = b]
            ELSE UNCHANGED <<buffers, out>>
    BY <1>7 DEF conclude
  <2>2. call[t].function \in Functions /\ Busy(call[t]) /\ abi' = abi
    BY <1>7, <1>b DEF conclude
  <2>3. PICK value : value = [outcome |-> outcome, status |-> StatusOf(call[t].function, outcome)]
    OBVIOUS
  <2>4. /\ DOMAIN value = {"outcome", "status"} /\ Return(t, value)
        /\ value.outcome = outcome /\ value.status = StatusOf(call[t].function, outcome)
    BY <2>1, <2>3 DEF Ends
  <2>5. /\ StatusFits(call[t].function, value.outcome, value.status)
        /\ outcome = "ok" <=> value.status = 0
    BY <2>1, <2>2, <2>4, StatusFitsOutcome
  <2>6. PICK success \in BOOLEAN : success <=> outcome = "ok"
    OBVIOUS
  <2>7. BusyOk(t) /\ out[t] = Garbage /\ DOMAIN out = Threads /\ Slots(out, buffers, {Garbage})
    BY <2>2 DEF ReportInv, ReportOk, BusyOk
  <2>8. CASE GivesBuffer(call[t].function) /\ outcome = "ok"
    <3>1. PICK b \in Buffers \ buffers : buffers' = buffers \cup {b} /\ out' = [out EXCEPT ![t] = b]
      BY <2>1, <2>8
    <3>2. b # Garbage
      BY <3>1, BuffersAssumption
    <3>3. Slots([out EXCEPT ![t] = b], buffers \cup {b}, {Garbage})
      BY <2>7, <3>1, <3>2, Filled
    <3>4. Slots(out, buffers, {Garbage})'
      BY <3>1, <3>3
    <3>5. /\ DOMAIN out' = Threads /\ \A u \in Threads \ {t} : out'[u] = out[u]
          /\ out'[t] # Garbage
      BY <2>7, <3>1, <3>2
    <3>6. QED
      BY <1>a, <2>1, <2>2, <2>4, <2>5, <2>6, <2>8, <3>4, <3>5, Reported
  <2>9. CASE ~(GivesBuffer(call[t].function) /\ outcome = "ok")
    BY <1>a, <2>1, <2>2, <2>4, <2>5, <2>6, <2>9, ReportedPlain
  <2>10. QED
    BY <2>8, <2>9
<1>8. ASSUME NEW t \in Threads, c_resume(t)
      PROVE  ReportInv'
  BY <1>8, Resumed DEF c_resume, c_vars
<1>9. ASSUME NEW t \in Threads, free_handle(t)
      PROVE  ReportInv'
  BY <1>9 DEF free_handle, c_vars, ReportInv, Slots, ReportOk, Busy, BusyOk, ReturnedOk, Succeeded
<1>10. ASSUME NEW t \in Threads, nymauth_free_buffer(t)
       PROVE  ReportInv'
  BY <1>10, BufferFreed
<1>11. ASSUME NEW t \in Threads, nymauth_free_error_string(t)
       PROVE  ReportInv'
  BY <1>11, StringFreed DEF nymauth_free_error_string, c_vars
<1>12. QED
  BY <1>1, <1>2, <1>3, <1>5, <1>6, <1>7, <1>8, <1>9, <1>10, <1>11 DEF NymAuthNext

\* The status tells the outcome but for two statuses, and no other outcome has status 0 or -1.
LEMMA StatusTells ==
    ASSUME NEW function, NEW outcome, NEW code, StatusFits(function, outcome, code)
    PROVE  /\ code = 0 <=> outcome = "ok"
           /\ code = -100 => outcome = "panic" /\ ~IsGuarded(function)
           /\ outcome = "panic" => code \in {-6, -100}
           /\ code = -1 <=> outcome \in {"InvalidInput", "null_argument"}
           /\ code = -4 => outcome = "Credential"
           /\ code = -5 => outcome = "Unsatisfied"
           /\ code = -7 => outcome = "Verification"
           /\ code \in {0, -1, -4, -5, -6, -7, -100}
<1>1. CASE outcome = "ok" /\ code = 0
  BY <1>1
<1>2. CASE outcome \in {"null_argument", "InvalidInput"} /\ code = -1
  BY <1>2
<1>3. CASE outcome = "Credential" /\ code = -4
  BY <1>3
<1>4. CASE outcome = "Unsatisfied" /\ code = -5
  BY <1>4
<1>5. CASE outcome = "Prover" /\ code = -6
  BY <1>5
<1>6. CASE outcome = "Verification" /\ code = -7
  BY <1>6
<1>7. CASE outcome = "panic" /\ code = (IF IsGuarded(function) THEN -6 ELSE -100)
  BY <1>7
<1>8. QED
  BY <1>1, <1>2, <1>3, <1>4, <1>5, <1>6, <1>7 DEF StatusFits

LEMMA ReportsKept == ForeignSpec => []ReportInv
<1>1. ForeignInit => ReportInv
  <2> SUFFICES ASSUME ForeignInit
               PROVE  ReportInv
    OBVIOUS
  <2>1. /\ error_slot = [t \in Threads |-> Garbage] /\ out = [t \in Threads |-> Garbage]
        /\ strings = {} /\ buffers = {} /\ \A t \in Threads : call[t] = NoCall
    BY DEF ForeignInit, FfiInit
  <2>2. Slots(error_slot, strings, {Null, Garbage}) /\ Slots(out, buffers, {Garbage})
    BY <2>1 DEF Slots
  <2>3. \A t \in Threads : ReportOk(t)
    BY <2>1 DEF ReportOk, Busy, NoCall
  <2>4. QED
    BY <2>1, <2>2, <2>3 DEF ReportInv
<1>2. HandleInv /\ ReportInv /\ [ForeignNext]_foreign_vars => ReportInv'
  <2> SUFFICES ASSUME HandleInv, ReportInv, [ForeignNext]_foreign_vars
               PROVE  ReportInv'
    OBVIOUS
  <2>1. CASE ForeignNext
    BY <2>1, GoReports, NymAuthReports DEF ForeignNext
  <2>2. CASE UNCHANGED foreign_vars
    BY <2>2 DEF foreign_vars, all_vars, ffi_vars, c_vars, ReportInv, Slots, ReportOk, Busy,
         BusyOk, ReturnedOk, Succeeded
  <2>3. QED
    BY <2>1, <2>2
<1>3. QED
  BY <1>1, <1>2, HandlesKept, PTL DEF ForeignSpec

\* A caller of either ABI learns from what is returned and from its slots whether its call
\* succeeded, whatever the other threads do: a string in the slot of exactly the call that
\* failed, a buffer in that of exactly the call that gives one, and a status that says why.
THEOREM OutcomesAreReported == ForeignSpec => []OutcomeIsReported
<1>1. ReportInv => OutcomeIsReported
  <2> SUFFICES ASSUME ReportInv
               PROVE  OutcomeIsReported
    OBVIOUS
  <2>1. ErrorExactlyOnFailure
    BY DEF ReportInv, Slots, ReportOk, ReturnedOk, ErrorExactlyOnFailure
  <2>2. BuffersExactlyOnSuccess
    BY DEF ReportInv, Slots, ReportOk, ReturnedOk, BuffersExactlyOnSuccess
  <2>3. ASSUME abi = "nymauth"
        PROVE  StatusTellsError
    <3>1. ASSUME NEW t \in Threads, call[t].stage = "returned", "status" \in DOMAIN call[t]
          PROVE  StatusFits(call[t].function, call[t].outcome, call[t].status)
      BY <2>3, <3>1 DEF ReportInv, ReportOk, ReturnedOk
    <3>2. ASSUME NEW t \in Threads, call[t].stage = "returned", "status" \in DOMAIN call[t]
          PROVE  /\ call[t].status = 0 <=> call[t].outcome = "ok"
                 /\ call[t].status = -100 =>
                       call[t].outcome = "panic" /\ ~IsGuarded(call[t].function)
                 /\ call[t].outcome = "panic" => call[t].status \in {-6, -100}
                 /\ call[t].status = -1 <=> call[t].outcome \in {"InvalidInput", "null_argument"}
                 /\ call[t].status = -4 => call[t].outcome = "Credential"
                 /\ call[t].status = -5 => call[t].outcome = "Unsatisfied"
                 /\ call[t].status = -7 => call[t].outcome = "Verification"
                 /\ call[t].status \in {0, -1, -4, -5, -6, -7, -100}
      BY <3>1, <3>2, StatusTells
    <3>3. ASSUME NEW t \in Threads, call[t].stage = "returned", "status" \in DOMAIN call[t],
                 NEW u \in Threads, call[u].stage = "returned", "status" \in DOMAIN call[u]
          PROVE  \/ call[t].status # call[u].status
                 \/ call[t].status \in {-1, -6}
                 \/ call[t].outcome = call[u].outcome
      BY <3>2, <3>3
    <3>4. ASSUME NEW t \in Threads, call[t].stage = "returned", "status" \in DOMAIN call[t]
          PROVE  /\ (call[t].status = 0) = (call[t].outcome = "ok")
                 /\ (call[t].status = -1) = (call[t].outcome \in {"InvalidInput", "null_argument"})
      <4>1. /\ call[t].status = 0 <=> call[t].outcome = "ok"
            /\ call[t].status = -1 <=> call[t].outcome \in {"InvalidInput", "null_argument"}
        BY <3>2, <3>4
      <4>2. (call[t].status = 0) = (call[t].outcome = "ok")
        BY <4>1
      <4>3. (call[t].status = -1) = (call[t].outcome \in {"InvalidInput", "null_argument"})
        BY <4>1
      <4>4. QED
        BY <4>2, <4>3
    <3>5. QED
      BY <3>2, <3>3, <3>4, Zenon DEF StatusTellsError
  <2>4. QED
    BY <2>1, <2>2, <2>3 DEF OutcomeIsReported
<1>2. QED
  BY <1>1, ReportsKept, PTL
=============================================================================
