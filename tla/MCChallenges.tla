---------------------------- MODULE MCChallenges ----------------------------
(***************************************************************************)
(* Small instances of Challenges for TLC.  Elements of two fields, of one  *)
(* byte and of two, whose bytes are also tags and lengths, so that some    *)
(* lists of messages have the bytes of others; some samples are rejected,  *)
(* never two in a row.  For the choice of columns bytes have two bits, so  *)
(* that a bound above four takes two bytes, and bounds that are and are    *)
(* not powers of two occur, down to one.                                   *)
(***************************************************************************)
EXTENDS Challenges, TLC

MCElement == {<<0>>, <<1>>, <<1, 0>>}
MCSessionId == {<<1>>}
MCSymmetry == Permutations(Party)
MCRejected(key, width, position) == (Len(key) + position) % 3 = 1

MCRequests == {<<2, 1>>, <<3, 2>>, <<4, 3>>, <<5, 2>>, <<5, 3>>, <<9, 2>>}
=============================================================================
