---------------------------- MODULE FeatureFlag ----------------------------
(***************************************************************************)
(* CachedFeatureFlag of fields/field2_128/mod.rs: threads that multiply    *)
(* race to find out, once, whether the processor has an instruction.  The  *)
(* flag is one atomic byte; a byte is the set of its masks.                *)
(***************************************************************************)
EXTENDS TLAPS

CONSTANT Threads

VARIABLES
    supported,   \* what the callback returns: a fact about the processor
    state,       \* the atomic byte
    pc,          \* where each thread is in get
    local,       \* each thread's variable state
    answer       \* what get last returned to each thread

vars == <<supported, state, pc, local, answer>>

Init ==
    /\ supported \in BOOLEAN
    /\ state = {}
    /\ pc = [t \in Threads |-> "load"]
    /\ local = [t \in Threads |-> {}]
    /\ answer = [t \in Threads |-> "none"]

load(t) ==
    /\ pc[t] = "load"
    /\ local' = [local EXCEPT ![t] = state]
    /\ pc' = [pc EXCEPT ![t] = IF "INITIALIZED" \in state THEN "return" ELSE "callback"]
    /\ UNCHANGED <<supported, state, answer>>

\* The callback, and the masks set in the local copy.
callback(t) ==
    /\ pc[t] = "callback"
    /\ local' = [local EXCEPT ![t] = @ \cup {"INITIALIZED"}
                                       \cup (IF supported THEN {"SUPPORTED"} ELSE {})]
    /\ pc' = [pc EXCEPT ![t] = "fetch_or"]
    /\ UNCHANGED <<supported, state, answer>>

\* Faulty variant of fetch_or: the byte is marked before it holds the result.
fetch_or_initialized_first(t) ==
    /\ pc[t] = "fetch_or"
    /\ IF "INITIALIZED" \in state
       THEN state' = state \cup local[t] /\ pc' = [pc EXCEPT ![t] = "return"]
       ELSE state' = state \cup {"INITIALIZED"} /\ pc' = pc
    /\ UNCHANGED <<supported, local, answer>>

fetch_or(t) ==
    /\ pc[t] = "fetch_or"
    /\ state' = state \cup local[t]
    /\ pc' = [pc EXCEPT ![t] = "return"]
    /\ UNCHANGED <<supported, local, answer>>

\* get returns; the thread may call it again.
return(t) ==
    /\ pc[t] = "return"
    /\ answer' = [answer EXCEPT ![t] = IF "SUPPORTED" \in local[t] THEN "yes" ELSE "no"]
    /\ pc' = [pc EXCEPT ![t] = "load"]
    /\ UNCHANGED <<supported, state, local>>

Next == \E t \in Threads : load(t) \/ callback(t) \/ fetch_or(t) \/ return(t)

Spec == Init /\ [][Next]_vars

-----------------------------------------------------------------------------
(* Properties.                                                             *)

\* get never returns anything but what the callback found, to any thread in
\* any interleaving: a thread that finds the flag initialised by another
\* finds the result in it too.
AnswersAreDetected ==
    \A t \in Threads : answer[t] # "none" => answer[t] = (IF supported THEN "yes" ELSE "no")

\* The byte and every thread's copy of it hold the result as soon as they are
\* initialised, and a thread returns from an initialised copy only.
Detected == {"INITIALIZED"} \cup (IF supported THEN {"SUPPORTED"} ELSE {})

IInv ==
    /\ state \in {{}, Detected}
    /\ local \in [Threads -> {{}, Detected}]
    /\ pc \in [Threads -> {"load", "callback", "fetch_or", "return"}]
    /\ answer \in [Threads -> {"none", IF supported THEN "yes" ELSE "no"}]
    /\ \A t \in Threads : pc[t] \in {"fetch_or", "return"} => local[t] = Detected

-----------------------------------------------------------------------------

\* The initial states satisfy the invariant.
LEMMA InitIInv == Init => IInv
  BY DEF Init, IInv

\* Every step of every thread keeps it.
LEMMA NextIInv == IInv /\ [Next]_vars => IInv'
<1> SUFFICES ASSUME IInv, [Next]_vars PROVE IInv'
  OBVIOUS
<1> USE DEF IInv, Detected
<1>1. CASE UNCHANGED vars
  BY <1>1 DEF vars
<1>2. ASSUME NEW t \in Threads, load(t) PROVE IInv'
  <2>1. "INITIALIZED" \in state <=> state = Detected
    OBVIOUS
  <2>2. supported' = supported /\ state' = state /\ answer' = answer
    BY <1>2 DEF load
  <2>3. local' \in [Threads -> {{}, Detected}]
    BY <1>2 DEF load
  <2>4. pc' \in [Threads -> {"load", "callback", "fetch_or", "return"}]
    BY <1>2 DEF load
  <2>5. \A u \in Threads : pc'[u] \in {"fetch_or", "return"} => local'[u] = Detected
    BY <1>2, <2>1 DEF load
  <2> QED
    BY <2>2, <2>3, <2>4, <2>5
<1>3. ASSUME NEW t \in Threads, callback(t) PROVE IInv'
  <2>1. local[t] \cup {"INITIALIZED"} \cup (IF supported THEN {"SUPPORTED"} ELSE {}) = Detected
    <3>1. local[t] = {} \/ local[t] = Detected
      OBVIOUS
    <3> QED
      BY <3>1
  <2>2. local' = [local EXCEPT ![t] = Detected]
    BY <1>3, <2>1 DEF callback
  <2>3. supported' = supported /\ state' = state /\ answer' = answer
    BY <1>3 DEF callback
  <2>4. local' \in [Threads -> {{}, Detected}]
    BY <2>2
  <2>5. pc' \in [Threads -> {"load", "callback", "fetch_or", "return"}]
    BY <1>3 DEF callback
  <2>6. \A u \in Threads : pc'[u] \in {"fetch_or", "return"} => local'[u] = Detected
    BY <1>3, <2>2 DEF callback
  <2> QED
    BY <2>3, <2>4, <2>5, <2>6
<1>4. ASSUME NEW t \in Threads, fetch_or(t) PROVE IInv'
  <2>1. state' = Detected
    BY <1>4 DEF fetch_or
  <2>2. supported' = supported /\ local' = local /\ answer' = answer
    BY <1>4 DEF fetch_or
  <2>3. pc' = [pc EXCEPT ![t] = "return"] /\ local[t] = Detected
    BY <1>4 DEF fetch_or
  <2> QED
    BY <2>1, <2>2, <2>3
<1>5. ASSUME NEW t \in Threads, return(t) PROVE IInv'
  <2>1. local[t] = Detected
    BY <1>5 DEF return
  <2>2. (IF "SUPPORTED" \in local[t] THEN "yes" ELSE "no") = (IF supported THEN "yes" ELSE "no")
    BY <2>1
  <2>3. supported' = supported /\ state' = state /\ local' = local
    BY <1>5 DEF return
  <2>4. answer' = [answer EXCEPT ![t] = IF supported THEN "yes" ELSE "no"]
    BY <1>5, <2>2 DEF return
  <2>5. pc' = [pc EXCEPT ![t] = "load"]
    BY <1>5 DEF return
  <2> QED
    BY <2>3, <2>4, <2>5
<1> QED
  BY <1>1, <1>2, <1>3, <1>4, <1>5 DEF Next

\* For any number of threads, get returns what the callback found.
THEOREM FlagIsRaceFree == Spec => []AnswersAreDetected
<1>1. IInv => AnswersAreDetected
  BY DEF IInv, AnswersAreDetected
<1> QED
  BY <1>1, InitIInv, NextIInv, PTL DEF Spec
=============================================================================
