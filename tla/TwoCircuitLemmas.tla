-------------------------- MODULE TwoCircuitLemmas --------------------------
(***************************************************************************)
(* Lemmas about what module TwoCircuitProof defines, for the proofs about  *)
(* nymauth/mod.rs and mdoc_zk: the tags and the bits they are made of, the *)
(* transcripts that two circuits are proved in one after the other, and    *)
(* the challenges drawn from them.                                         *)
(***************************************************************************)
EXTENDS TwoCircuitProof, FiniteSetTheorems, SequenceTheorems, TLAPS

-----------------------------------------------------------------------------
(* Elements, bits and tags.                                                *)

\* g_to_u128 undoes pbit: an element is recovered from its bits.
LEMMA BitsRoundTrip == ASSUME NEW e \in FE PROVE FromBits(ToBits(e)) = e
<1>1. e \in {0, 1, 2, 3}
  BY TwoCircuitAssumption, Z3 DEF FE
<1>2. 2^0 = 1 /\ 2^1 = 2
  OBVIOUS
<1>3. ToBits(e)[0] = e % 2 /\ ToBits(e)[1] = (e \div 2) % 2
  BY <1>1, <1>2, Z3 DEF ToBits, Bits
<1> QED
  BY <1>1, <1>3, Z3 DEF FromBits

\* The field is closed under the two operations of a tag.
LEMMA PlusInField == ASSUME NEW a \in FE, NEW b \in FE PROVE Plus(a, b) \in FE
<1>1. a \in {0, 1, 2, 3} /\ b \in {0, 1, 2, 3} /\ FE = {0, 1, 2, 3}
  BY TwoCircuitAssumption, Z3 DEF FE
<1>2. ~large_characteristic
  BY TwoCircuitAssumption DEF large_characteristic
<1> QED
  BY <1>1, <1>2, Z3 DEF Plus

\* See PlusInField.
LEMMA TimesInField == ASSUME NEW a \in FE, NEW b \in FE PROVE Times(a, b) \in FE
<1>1. a \in {0, 1, 2, 3} /\ b \in {0, 1, 2, 3} /\ FE = {0, 1, 2, 3}
  BY TwoCircuitAssumption, Z3 DEF FE
<1>2. ~large_characteristic
  BY TwoCircuitAssumption DEF large_characteristic
<1> QED
  BY <1>1, <1>2, Z3 DEF Times

\* The tags of a call are elements.
LEMMA TagsInField ==
    ASSUME NEW a_p \in [Messages -> FE], NEW a_v \in FE, NEW messages \in [Messages -> FE]
    PROVE  MacTags(a_p, a_v, messages) \in [Messages -> FE]
<1>1. ASSUME NEW k \in Messages PROVE Times(Plus(a_p[k], a_v), messages[k]) \in FE
  BY PlusInField, TimesInField, Zenon
<1> QED
  BY <1>1, Zenon DEF MacTags

\* Elements that are written bit by bit and read again are the same.
LEMMA VectorRoundTrip ==
    ASSUME NEW v \in [Messages -> FE]
    PROVE  [k \in Messages |-> FromBits([j \in Messages |-> ToBits(v[j])][k])] = v
<1>1. ASSUME NEW k \in Messages PROVE FromBits([j \in Messages |-> ToBits(v[j])][k]) = v[k]
  BY BitsRoundTrip, Zenon
<1> QED
  BY <1>1, Zenon

\* Sums and products in the field of four elements.
LEMMA Tables ==
    ASSUME NEW a \in FE
    PROVE  /\ a \in {0, 1, 2, 3}
           /\ Plus(a, 0) = a /\ Plus(0, a) = a /\ Plus(a, a) = 0
           /\ Plus(1, 2) = 3 /\ Plus(2, 1) = 3 /\ Plus(1, 3) = 2 /\ Plus(3, 1) = 2
           /\ Plus(2, 3) = 1 /\ Plus(3, 2) = 1
           /\ Times(a, 0) = 0 /\ Times(0, a) = 0 /\ Times(a, 1) = a /\ Times(1, a) = a
           /\ Times(2, 2) = 3 /\ Times(2, 3) = 1 /\ Times(3, 2) = 1 /\ Times(3, 3) = 2
<1>1. a \in {0, 1, 2, 3} /\ FE = {0, 1, 2, 3}
  BY TwoCircuitAssumption, Z3 DEF FE
<1>2. ~large_characteristic
  BY TwoCircuitAssumption DEF large_characteristic
<1>3. /\ Plus(a, 0) = a /\ Plus(0, a) = a /\ Plus(a, a) = 0
      /\ Plus(1, 2) = 3 /\ Plus(2, 1) = 3 /\ Plus(1, 3) = 2 /\ Plus(3, 1) = 2
      /\ Plus(2, 3) = 1 /\ Plus(3, 2) = 1
  BY <1>1, <1>2, Z3 DEF Plus
<1>4. /\ Times(a, 0) = 0 /\ Times(0, a) = 0 /\ Times(a, 1) = a /\ Times(1, a) = a
      /\ Times(2, 2) = 3 /\ Times(2, 3) = 1 /\ Times(3, 2) = 1 /\ Times(3, 3) = 2
  BY <1>1, <1>2, Z3 DEF Times
<1> QED
  BY <1>1, <1>3, <1>4
\* Two messages that differ have the same tag under at most one a_v, whatever the a_p are.
LEMMA OneShareHides ==
    ASSUME NEW a \in FE, NEW b \in FE, NEW m \in FE, NEW n \in FE, m # n,
           NEW x \in FE, NEW y \in FE,
           Times(Plus(a, x), m) = Times(Plus(b, x), n),
           Times(Plus(a, y), m) = Times(Plus(b, y), n)
    PROVE  x = y
<1>1. /\ a \in {0,1,2,3} /\ b \in {0,1,2,3} /\ m \in {0,1,2,3} /\ n \in {0,1,2,3}
      /\ x \in {0,1,2,3} /\ y \in {0,1,2,3} /\ FE = {0,1,2,3}
  BY TwoCircuitAssumption, Z3 DEF FE
<1>2. \A u \in FE :
           /\ Plus(u, 0) = u /\ Plus(0, u) = u /\ Plus(u, u) = 0
           /\ Plus(1, 2) = 3 /\ Plus(2, 1) = 3 /\ Plus(1, 3) = 2 /\ Plus(3, 1) = 2
           /\ Plus(2, 3) = 1 /\ Plus(3, 2) = 1
           /\ Times(u, 0) = 0 /\ Times(0, u) = 0 /\ Times(u, 1) = u /\ Times(1, u) = u
           /\ Times(2, 2) = 3 /\ Times(2, 3) = 1 /\ Times(3, 2) = 1 /\ Times(3, 3) = 2
  BY Tables
<1> QED
  BY <1>1, <1>2, SMTT(60)

-----------------------------------------------------------------------------
(* Transcripts say what was written to them.                               *)

Prefix(seed, hash, sig) == << <<"seed", seed>>, <<"root", hash>>, <<"root", sig>> >>

FirstTranscript(id, seed, hash, sig, public) ==
    initialize_transcript(Prefix(seed, hash, sig), id, public)

\* The first circuit's proof is written between the two.
SecondTranscript(id, second, seed, hash, sig, public, sig_public) ==
    initialize_transcript(Append(FirstTranscript(id, seed, hash, sig, public), <<"proof", "hash">>),
                          second, sig_public)

\* Two concatenations that are equal, of sequences of equal lengths, have equal parts.
LEMMA ConcatenatedAlike ==
    ASSUME NEW S, NEW t \in Seq(S), NEW u \in Seq(S), NEW v \in Seq(S), NEW w \in Seq(S),
           Len(t) = Len(u), Len(v) = Len(w), t \o v = u \o w
    PROVE  t = u /\ v = w
<1>1. \A i \in 1..Len(t) : t[i] = u[i]
  BY ConcatProperties
<1>2. ASSUME NEW i \in 1..Len(v) PROVE v[i] = w[i]
  <2> DEFINE m == Len(t)
             n == Len(v)
  <2>0. m \in Nat /\ n \in Nat /\ i \in 1..n
    OBVIOUS
  <2>1. m + i \in 1..(m + n) /\ ~(m + i <= m) /\ m + i - m = i
    <3> HIDE DEF m, n
    <3> QED
      BY <2>0
  <2>2. (t \o v)[Len(t) + i] = v[i] /\ (u \o w)[Len(t) + i] = w[i]
    BY <2>1, ConcatProperties
  <2> QED
    BY <2>2
<1> QED
  BY <1>1, <1>2, SeqEqual

\* Two sequences of one length that are equal with one more element are equal.
LEMMA AppendedAlike ==
    ASSUME NEW S, NEW t \in Seq(S), NEW u \in Seq(S), Len(t) = Len(u), NEW e \in S,
           Append(t, e) = Append(u, e)
    PROVE  t = u
<1>1. \A i \in 1..Len(t) : t[i] = u[i]
  BY AppendProperties
<1> QED
  BY <1>1, SeqEqual

\* What was written before the hash circuit's proof can be read back: the session's seed, both
\* commitments and the public inputs.
LEMMA FirstTranscriptSays ==
    ASSUME NEW id, NEW seed, NEW hash, NEW sig, NEW public,
           NEW id2, NEW seed2, NEW hash2, NEW sig2, NEW public2,
           FirstTranscript(id, seed, hash, sig, public) =
             FirstTranscript(id2, seed2, hash2, sig2, public2)
    PROVE  id = id2 /\ seed = seed2 /\ hash = hash2 /\ sig = sig2 /\ public = public2
<1> DEFINE t == Prefix(seed, hash, sig)
           u == Prefix(seed2, hash2, sig2)
           v == << <<"id", id>>, <<"inputs", public>> >>
           w == << <<"id", id2>>, <<"inputs", public2>> >>
           S == {t[i] : i \in 1..3} \cup {u[i] : i \in 1..3}
                \cup {v[i] : i \in 1..2} \cup {w[i] : i \in 1..2}
<1>1. t \in Seq(S) /\ u \in Seq(S) /\ Len(t) = Len(u)
  BY DEF Prefix
<1>2. v \in Seq(S) /\ w \in Seq(S) /\ Len(v) = Len(w)
  OBVIOUS
<1>3. t \o v = u \o w
  BY DEF FirstTranscript, initialize_transcript
<1>4. t = u /\ v = w
  <2> HIDE DEF t, u, v, w, S
  <2> QED
    BY <1>1, <1>2, <1>3, ConcatenatedAlike
<1> QED
  BY <1>4 DEF Prefix

\* Every transcript before the hash circuit's proof has five messages.
LEMMA FirstTranscriptIsASeq ==
    ASSUME NEW id, NEW seed, NEW hash, NEW sig, NEW public,
           NEW id2, NEW seed2, NEW hash2, NEW sig2, NEW public2
    PROVE  \E R : /\ FirstTranscript(id, seed, hash, sig, public) \in Seq(R)
                  /\ FirstTranscript(id2, seed2, hash2, sig2, public2) \in Seq(R)
                  /\ Len(FirstTranscript(id, seed, hash, sig, public)) = 5
                  /\ Len(FirstTranscript(id2, seed2, hash2, sig2, public2)) = 5
<1> DEFINE t == Prefix(seed, hash, sig)
           u == Prefix(seed2, hash2, sig2)
           v == << <<"id", id>>, <<"inputs", public>> >>
           w == << <<"id", id2>>, <<"inputs", public2>> >>
           S == {t[i] : i \in 1..3} \cup {u[i] : i \in 1..3}
                \cup {v[i] : i \in 1..2} \cup {w[i] : i \in 1..2}
<1>1. t \in Seq(S) /\ u \in Seq(S) /\ Len(t) = 3 /\ Len(u) = 3
  BY DEF Prefix
<1>2. v \in Seq(S) /\ w \in Seq(S) /\ Len(v) = 2 /\ Len(w) = 2
  OBVIOUS
<1>3. /\ FirstTranscript(id, seed, hash, sig, public) = t \o v
      /\ FirstTranscript(id2, seed2, hash2, sig2, public2) = u \o w
  BY DEF FirstTranscript, initialize_transcript
<1>4. t \o v \in Seq(S) /\ u \o w \in Seq(S) /\ Len(t \o v) = 5 /\ Len(u \o w) = 5
  <2> HIDE DEF t, u, v, w, S
  <2>1. t \o v \in Seq(S) /\ u \o w \in Seq(S)
    BY <1>1, <1>2, ConcatProperties
  <2>2. Len(t \o v) = Len(t) + Len(v) /\ Len(u \o w) = Len(u) + Len(w)
    BY <1>1, <1>2, ConcatProperties
  <2> QED
    BY <1>1, <1>2, <2>1, <2>2
<1> QED
  BY <1>3, <1>4

\* The same before the signature circuit's proof, which goes on in the same transcript.
LEMMA SecondTranscriptSays ==
    ASSUME NEW id, NEW second, NEW seed, NEW hash, NEW sig, NEW public, NEW sig_public,
           NEW id2, NEW second2, NEW seed2, NEW hash2, NEW sig2, NEW public2, NEW sig_public2,
           SecondTranscript(id, second, seed, hash, sig, public, sig_public) =
             SecondTranscript(id2, second2, seed2, hash2, sig2, public2, sig_public2)
    PROVE  /\ FirstTranscript(id, seed, hash, sig, public) =
                FirstTranscript(id2, seed2, hash2, sig2, public2)
           /\ second = second2 /\ sig_public = sig_public2
<1> DEFINE t == FirstTranscript(id, seed, hash, sig, public)
           u == FirstTranscript(id2, seed2, hash2, sig2, public2)
           e == <<"proof", "hash">>
           v == << <<"id", second>>, <<"inputs", sig_public>> >>
           w == << <<"id", second2>>, <<"inputs", sig_public2>> >>
           T == {e} \cup {v[i] : i \in 1..2} \cup {w[i] : i \in 1..2}
<1>1. PICK R : t \in Seq(R) /\ u \in Seq(R) /\ Len(t) = 5 /\ Len(u) = 5
  BY FirstTranscriptIsASeq
<1> DEFINE S == R \cup T
<1>2. t \in Seq(S) /\ u \in Seq(S) /\ e \in S
  <2> HIDE DEF t, u, T
  <2>1. t \in Seq(S) /\ u \in Seq(S)
    BY <1>1
  <2> QED
    BY <2>1 DEF T
<1>3. v \in Seq(S) /\ w \in Seq(S) /\ Len(v) = Len(w)
  OBVIOUS
<1>4. Append(t, e) \o v = Append(u, e) \o w
  BY DEF SecondTranscript, initialize_transcript
<1>5. t = u /\ v = w
  <2> HIDE DEF t, u, v, w, e, S, T
  <2>1. Append(t, e) \in Seq(S) /\ Append(u, e) \in Seq(S)
    BY <1>2, AppendProperties
  <2>0. Len(Append(t, e)) = Len(t) + 1 /\ Len(Append(u, e)) = Len(u) + 1
    BY <1>2, AppendProperties
  <2>3. Len(Append(t, e)) = Len(Append(u, e))
    BY <1>1, <2>0
  <2> DEFINE T1 == Append(t, e)
             U1 == Append(u, e)
  <2> HIDE DEF T1, U1
  <2>4. T1 \in Seq(S) /\ U1 \in Seq(S) /\ Len(T1) = Len(U1) /\ T1 \o v = U1 \o w
    BY <1>4, <2>1, <2>3 DEF T1, U1
  <2>5. T1 = U1 /\ v = w
    BY <1>3, <2>4, ConcatenatedAlike
  <2>2. Append(t, e) = Append(u, e) /\ v = w
    BY <2>5 DEF T1, U1
  <2> QED
    BY <1>1, <1>2, <2>2, AppendedAlike
<1> QED
  BY <1>5

\* A sequence of one message extended by two is the sequence of the three.
LEMMA OneAndTwo ==
    ASSUME NEW S, NEW t \in Seq(S), NEW u \in Seq(S), NEW v \in Seq(S),
           Len(t) = 1, Len(u) = 2, Len(v) = 3, t[1] = v[1], u[1] = v[2], u[2] = v[3]
    PROVE  t \o u = v
<1> DEFINE w == t \o u
<1>0. w \in Seq(S) /\ Len(w) = Len(t) + Len(u)
  BY ConcatProperties
<1>1. w \in Seq(S) /\ Len(w) = 3
  BY <1>0
<1>2. w[1] = t[1]
  BY ConcatProperties
<1>3. w[2] = u[1]
  BY ConcatProperties
<1>4. w[3] = u[2]
  BY ConcatProperties
<1> HIDE DEF w
<1>5. \A i \in 1..Len(w) : w[i] = v[i]
  BY <1>1, <1>2, <1>3, <1>4
<1>6. w = v
  BY <1>1, <1>5, SeqEqual
<1> QED
  BY <1>6 DEF w

-----------------------------------------------------------------------------
(* Challenges and proofs.                                                  *)

\* A challenge once drawn stays what it is.
OracleKept == \A t \in DOMAIN oracle : t \in DOMAIN oracle' /\ oracle'[t] = oracle[t]

\* Drawing a challenge changes none drawn before.
LEMMA DrawingKeeps ==
    ASSUME NEW t, NEW e \in Challenges(t), Drawn(t, e)
    PROVE  OracleKept /\ t \in DOMAIN oracle' /\ oracle'[t] = e
BY DEF Challenges, Drawn, OracleKept

\* Circuits' proofs are told apart by the transcripts they were made in.
LEMMA SameProofFrom ==
    ASSUME NEW circuit, NEW t, NEW u, NEW root, NEW other,
           ProofFrom(circuit, t, root) = ProofFrom(circuit, u, other)
    PROVE  t = u /\ root = other
<1>1. /\ ProofFrom(circuit, t, root).transcript = t /\ ProofFrom(circuit, t, root).private = root
      /\ ProofFrom(circuit, u, other).transcript = u
      /\ ProofFrom(circuit, u, other).private = other
  BY DEF ProofFrom
<1> QED
  BY <1>1
=============================================================================
