------------------------------ MODULE MCGoFfi ------------------------------
(* Two threads, two handles, and calls with nothing, an argument at each   *)
(* end of the checks, or two arguments wrong.  No thread and no address    *)
(* differs from the others.                                                *)
EXTENDS NymAuthCAbi

MCBadArguments == {{}, {"circuit null"}, {"issuer_pk", "proof empty"}}

MCSymmetry ==
    Permutations(Threads) \cup Permutations(Verifiers) \cup Permutations(Strings)
      \cup Permutations(Buffers)
=============================================================================
