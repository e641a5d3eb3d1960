----------------------------- MODULE MCNymAuth -----------------------------
(***************************************************************************)
(* Two issuers, two seeds, credentials that differ in one or both messages *)
(* (one of them zero), and for one request a variant of each value.        *)
(***************************************************************************)
EXTENDS NymAuth

Asked == [valid |-> TRUE, key |-> 1, dates |-> 1, e2 |-> 1, vi |-> 1, seed |-> 1]

MCRequests == {Asked, [Asked EXCEPT !.valid = FALSE], [Asked EXCEPT !.key = 2],
               [Asked EXCEPT !.dates = 2], [Asked EXCEPT !.e2 = 2], [Asked EXCEPT !.vi = 2],
               [Asked EXCEPT !.seed = 2]}

MCCredentials == {
    [issuer |-> 1, dates |-> {1, 2}, seed |-> "s1", messages |-> <<1, 2>>],
    [issuer |-> 1, dates |-> {1}, seed |-> "s2", messages |-> <<0, 3>>],
    [issuer |-> 2, dates |-> {1}, seed |-> "s1", messages |-> <<1, 3>>]}

MCKeyShares == {<<1, 2>>, <<3, 0>>}
=============================================================================
