-------------------------- MODULE ChallengesProofs --------------------------
(***************************************************************************)
(* Machine-checked proofs about transcript.rs, for any number of           *)
(* transcripts and of columns: no transcript ever draws from a stale       *)
(* stream, whatever is written and however it is sampled; two of them draw *)
(* the same challenges only after the same messages; the columns opened    *)
(* are distinct and in range, whatever the stream; and every choice of     *)
(* columns is made by as many streams as any other.                        *)
(***************************************************************************)
EXTENDS Challenges, FiniteSetTheorems, TLAPS, WellFoundedInduction

-----------------------------------------------------------------------------
(* Transcripts.                                                            *)

\* Each history is kept for every transcript.
Domains ==
    /\ DOMAIN seed = Party
    /\ DOMAIN fsprf = Party
    /\ DOMAIN challenges = Party

\* Every write drops the cached stream and begins a new list of challenges.
LEMMA WriteKeepsCurrent ==
    ASSUME Domains, StreamIsCurrent, NEW p \in Party, NEW s,
           seed' = [seed EXCEPT ![p] = s],
           fsprf' = [fsprf EXCEPT ![p] = NoStream],
           challenges' = [challenges EXCEPT ![p] = {}]
    PROVE  Domains' /\ StreamIsCurrent'
  BY DEF Domains, StreamIsCurrent

\* Drawing reads the cached stream, or seeds one with all that was written.
LEMMA DrawKeepsCurrent ==
    ASSUME Domains, StreamIsCurrent, NEW p \in Party, NEW width, NEW n, NEW from, NEW to,
           Draw(p, width, n, from, to)
    PROVE  Domains' /\ StreamIsCurrent'
<1> DEFINE f == get_current_fsprf(p)
           at == Samples(f.key, width, f.position, n)
           new == {[fields |-> drawn[p] \o Many(k, width), value |-> <<f.key, at[k], width>>] :
                     k \in from..to}
<1>1. f.key = seed[p]
  <2>1. Stream(seed[p], 0)[1].key = seed[p]
    BY DEF Stream
  <2>. QED
    BY <2>1 DEF get_current_fsprf, StreamIsCurrent
<1>2. /\ fsprf' = [fsprf EXCEPT ![p] = Stream(f.key, at[n] + width)]
      /\ challenges' = [challenges EXCEPT ![p] = @ \cup new]
      /\ seed' = seed
  BY DEF Draw
<1>3. \A c \in new : c.value[1] = f.key
  OBVIOUS
<1> HIDE DEF f, new, at
<1>4. Stream(f.key, at[n] + width)[1].key = f.key
  BY DEF Stream
<1>5. Domains'
  BY <1>2 DEF Domains
<1>6. ASSUME NEW q \in Party
      PROVE  /\ fsprf'[q] # NoStream => fsprf'[q][1].key = seed'[q]
             /\ \A c \in challenges'[q] : c.value[1] = seed'[q]
  <2>1. CASE q = p
    BY <1>1, <1>2, <1>3, <1>4, <2>1 DEF Domains, StreamIsCurrent
  <2>2. CASE q # p
    BY <1>2, <2>2 DEF Domains, StreamIsCurrent
  <2>. QED
    BY <2>1, <2>2
<1>. QED
  BY <1>5, <1>6 DEF StreamIsCurrent

\* No challenge is ever drawn from a stream seeded before the last message.
THEOREM ChallengesAreCurrent == Spec => []StreamIsCurrent
<1>1. Init => Domains /\ StreamIsCurrent
  BY DEF Init, Domains, StreamIsCurrent
<1>2. Domains /\ StreamIsCurrent /\ [Next]_vars => Domains' /\ StreamIsCurrent'
  <2> SUFFICES ASSUME Domains, StreamIsCurrent, [Next]_vars
               PROVE  Domains' /\ StreamIsCurrent'
    OBVIOUS
  <2>1. ASSUME NEW p \in Party, NEW bytes, NEW message, write_bytes(p, bytes, message)
        PROVE  Domains' /\ StreamIsCurrent'
    BY <2>1, WriteKeepsCurrent DEF write_bytes
  <2>2. ASSUME NEW p \in Party, write_polynomial(p)
        PROVE  Domains' /\ StreamIsCurrent'
    <3>1. PICK width \in Widths : \E p0, p2 \in ElementsOf(width) :
            /\ seed' = [seed EXCEPT ![p] = @ \o element_bytes(p0) \o element_bytes(p2)]
            /\ fsprf' = [fsprf EXCEPT ![p] = NoStream]
            /\ challenges' = [challenges EXCEPT ![p] = {}]
      BY <2>2 DEF write_polynomial
    <3>. QED
      BY <3>1, WriteKeepsCurrent
  <2>3. ASSUME NEW p \in Party, NEW width, NEW n, NEW from, NEW to,
               Draw(p, width, n, from, to)
        PROVE  Domains' /\ StreamIsCurrent'
    BY <2>3, DrawKeepsCurrent
  <2>4. CASE UNCHANGED vars
    BY <2>4 DEF vars, Domains, StreamIsCurrent
  <2>5. ASSUME NEW p \in Party,
               \/ write_field_element(p) \/ write_field_element_array(p)
               \/ write_byte_array(p) \/ write_zero_array(p)
        PROVE  Domains' /\ StreamIsCurrent'
    BY <2>1, <2>5 DEF write_field_element, write_field_element_array, write_byte_array,
                      write_zero_array
  <2>6. ASSUME NEW p \in Party, generate_challenge(p) \/ generate_output_wire_bindings(p)
        PROVE  Domains' /\ StreamIsCurrent'
    BY <2>3, <2>6 DEF generate_challenge, generate_output_wire_bindings
  <2>. QED
    BY <2>2, <2>4, <2>5, <2>6 DEF Next
<1>. QED
  BY <1>1, <1>2, PTL DEF Spec

-----------------------------------------------------------------------------
(* Samples.                                                                *)

\* Induction, as the provers can use it: the least of a set of counterexamples.
LEMMA LeastElement ==
    ASSUME NEW T \in SUBSET Nat, T # {}
    PROVE  \E x \in T : \A y \in T : x <= y
<1> DEFINE R == {ss \in Nat \X Nat : ss[1] < ss[2]}
<1>1. IsWellFoundedOn(R, Nat)
  BY NatLessThanWellFounded, Zenon DEF OpToRel
<1>2. IsWellFoundedOn(R, Nat) => \E x \in T : \A y \in T : ~(<<y, x>> \in R)
  BY WFMin
<1>3. PICK x \in T : \A y \in T : ~(<<y, x>> \in R)
  BY <1>1, <1>2
<1>4. ASSUME NEW y \in T PROVE x <= y
  <2>1. x \in Nat /\ y \in Nat
    OBVIOUS
  <2>2. y < x => <<y, x>> \in R
    BY <2>1
  <2>. QED
    BY <1>3, <2>1, <2>2
<1>. QED
  BY <1>4

\* The samples of one call: each is searched for where the one before it ended.
LEMMA SamplesOneByOne ==
    ASSUME NEW key, NEW width, NEW position, NEW n \in Nat
    PROVE  Samples(key, width, position, n) =
             [k \in 1..n |->
                 Accepted(key, width, IF k = 1 THEN position
                                      ELSE Samples(key, width, position, n)[k - 1] + width)]
<1> DEFINE Made(f, m) ==
             f = [k \in 1..m |->
                     Accepted(key, width, IF k = 1 THEN position ELSE f[k - 1] + width)]
           Unmade == {m \in Nat : ~\E f : Made(f, m)}
<1>1. Unmade = {}
  <2> SUFFICES ASSUME Unmade # {} PROVE FALSE
    OBVIOUS
  <2>1. PICK m \in Unmade : \A l \in Unmade : m <= l
    <3> HIDE DEF Unmade
    <3>1. Unmade \in SUBSET Nat
      BY DEF Unmade
    <3> QED
      BY <3>1, LeastElement
  <2>2. m # 0
    <3>1. Made([k \in 1..0 |-> 0], 0)
      OBVIOUS
    <3> QED
      BY <3>1
  <2>3. m - 1 \in Nat /\ m - 1 \notin Unmade
    BY <2>1, <2>2
  <2>4. PICK f : Made(f, m - 1)
    BY <2>3
  <2> DEFINE last == Accepted(key, width, IF m = 1 THEN position ELSE f[m - 1] + width)
             g == [k \in 1..m |-> IF k = m THEN last ELSE f[k]]
  <2>5. ASSUME NEW k \in 1..m
        PROVE  g[k] = Accepted(key, width, IF k = 1 THEN position ELSE g[k - 1] + width)
    <3>1. k # 1 => g[k - 1] = f[k - 1]
      BY <2>1
    <3>2. CASE k = m
      BY <3>1, <3>2
    <3>3. CASE k # m
      <4>1. k \in 1..(m - 1)
        BY <3>3
      <4>2. g[k] = f[k]
        BY <3>3
      <4>3. f[k] = Accepted(key, width, IF k = 1 THEN position ELSE f[k - 1] + width)
        BY <2>4, <4>1
      <4> QED
        BY <3>1, <4>2, <4>3
    <3> QED
      BY <3>2, <3>3
  <2>6. Made(g, m)
    <3> HIDE DEF last
    <3>1. g = [k \in 1..m |-> g[k]]
      OBVIOUS
    <3> HIDE DEF g
    <3> QED
      BY <2>5, <3>1
  <2> QED
    BY <2>1, <2>6
<1>2. \E f : Made(f, n)
  BY <1>1
<1>3. Made(CHOOSE f : Made(f, n), n)
  BY <1>2
<1> QED
  BY <1>3 DEF Samples

-----------------------------------------------------------------------------
(* Where the samples of a stream are: a rejected one only moves it on.     *)

\* The elements of each field have as many bytes, and at least one.
LEMMA ElementsHaveBytes ==
    /\ Widths \subseteq Nat \ {0}
    /\ \A x \in Element : x \in Seq(Nat) /\ Len(x) \in Nat \ {0}
    /\ \A width \in Widths : \A x \in ElementsOf(width) : x \in Seq(Nat) /\ Len(x) = width
<1>1. \A x \in Element : x \in Seq(Nat) /\ Len(x) \in Nat \ {0}
  BY TranscriptAssumption
<1> QED
  BY <1>1 DEF Widths, ElementsOf

\* A sample that is accepted in time is where the stream was, or further on.
LEMMA AcceptedIsLater ==
    ASSUME NEW key, NEW width \in Nat \ {0}, NEW position \in Nat,
           AcceptedInTime(key, width, position)
    PROVE  /\ Accepted(key, width, position) \in Nat
           /\ Accepted(key, width, position) >= position
<1> DEFINE T == {r \in 0..MaxRejections : ~Rejected(key, width, position + width * r)}
<1>0. MaxRejections \in Nat
  BY TranscriptAssumption
<1>1. PICK r \in T : \A q \in T : r <= q
  <2>1. T \in SUBSET Nat
    BY <1>0
  <2>2. T # {}
    BY DEF AcceptedInTime
  <2> HIDE DEF T
  <2> QED
    BY <2>1, <2>2, LeastElement
<1>2. ASSUME NEW q \in 0..(r - 1) PROVE Rejected(key, width, position + width * q)
  <2>1. q \in 0..MaxRejections /\ ~(r <= q)
    BY <1>0, <1>1
  <2>2. q \notin T
    <3> HIDE DEF T
    <3> QED
      BY <1>1, <2>1
  <2> QED
    BY <2>1, <2>2
<1> DEFINE First(q) == /\ ~Rejected(key, width, position + width * q)
                       /\ \A o \in 0..(q - 1) : Rejected(key, width, position + width * o)
           first == CHOOSE q \in 0..MaxRejections : First(q)
<1>3. first \in 0..MaxRejections
  BY <1>1, <1>2
<1>4. Accepted(key, width, position) = position + width * first
  BY DEF Accepted
<1> HIDE DEF first
<1>5. width * first \in Nat
  BY <1>0, <1>3
<1> QED
  BY <1>4, <1>5

\* The first samples of a stream, one of each of the fields ws, each where the last one ended
\* or further on.
From(ws, at, k) == IF k = 1 THEN 0 ELSE at[k - 1] + ws[k - 1]
Chain(key, ws, at) ==
    /\ at \in [1..Len(ws) -> Nat]
    /\ \A k \in 1..Len(ws) :
         at[k] = Accepted(key, ws[k], From(ws, at, k)) /\ at[k] >= From(ws, at, k)

\* Streams of one seed give the same samples, as far as these are of the same fields.
LEMMA ChainIsUnique ==
    ASSUME NEW key, NEW ws \in Seq(Nat \ {0}), NEW vs \in Seq(Nat \ {0}), NEW at, NEW bt,
           Chain(key, ws, at), Chain(key, vs, bt),
           NEW k \in Nat, k \in 1..Len(ws), k \in 1..Len(vs), \A j \in 1..k : ws[j] = vs[j]
    PROVE  at[k] = bt[k]
<1> DEFINE T == {x \in Nat : x \in 1..k /\ at[x] # bt[x]}
<1>1. T # {} => FALSE
  <2> SUFFICES ASSUME T # {} PROVE FALSE
    OBVIOUS
  <2>1. PICK x \in T : \A y \in T : x <= y
    <3>1. T \in SUBSET Nat
      OBVIOUS
    <3> HIDE DEF T
    <3> QED
      BY <3>1, LeastElement
  <2>2. x \in 1..k /\ x \in 1..Len(ws) /\ x \in 1..Len(vs) /\ at[x] # bt[x]
    BY <2>1
  <2>3. x # 1 => x - 1 \in 1..k /\ at[x - 1] = bt[x - 1]
    BY <2>1
  <2>4. From(ws, at, x) = From(vs, bt, x) /\ ws[x] = vs[x]
    BY <2>2, <2>3 DEF From
  <2> QED
    BY <2>2, <2>4 DEF Chain
<1>2. k \in 1..k
  OBVIOUS
<1> QED
  BY <1>1, <1>2

\* A later sample is further on.
LEMMA ChainRises ==
    ASSUME NEW key, NEW ws \in Seq(Nat \ {0}), NEW at, Chain(key, ws, at),
           NEW j \in 1..Len(ws), NEW k \in 1..Len(ws), j < k
    PROVE  at[j] < at[k]
<1>0. PICK n \in Nat : n = Len(ws)
  OBVIOUS
<1> DEFINE T == {x \in Nat : x \in 1..n /\ j < x /\ ~(at[j] < at[x])}
<1>1. T # {} => FALSE
  <2> SUFFICES ASSUME T # {} PROVE FALSE
    OBVIOUS
  <2>1. PICK x \in T : \A y \in T : x <= y
    <3>1. T \in SUBSET Nat
      OBVIOUS
    <3> HIDE DEF T
    <3> QED
      BY <3>1, LeastElement
  <2>2. x - 1 \in 1..n /\ x \in 1..n /\ x # 1 /\ x - 1 \in Nat
    BY <2>1
  <2>3. at[j] \in Nat /\ at[x - 1] \in Nat /\ at[x] \in Nat /\ ws[x - 1] \in Nat \ {0}
    <3>1. ws[x - 1] \in Nat \ {0}
      BY <1>0, <2>2
    <3>2. at \in [1..n -> Nat]
      BY <1>0 DEF Chain
    <3> QED
      BY <1>0, <2>2, <3>1, <3>2
  <2>4. at[x] >= at[x - 1] + ws[x - 1]
    BY <1>0, <2>2 DEF Chain, From
  <2>5. j = x - 1 \/ at[j] < at[x - 1]
    BY <2>1, <2>2
  <2> QED
    <3>1. PICK aj, ax, before, w :
            aj = at[j] /\ ax = at[x] /\ before = at[x - 1] /\ w = ws[x - 1]
      OBVIOUS
    <3>2. /\ aj \in Nat /\ ax \in Nat /\ before \in Nat /\ w \in Nat \ {0}
          /\ ax >= before + w
      BY <2>3, <2>4, <3>1
    <3>3. aj = before \/ aj < before
      BY <2>5, <3>1
    <3>4. aj < ax
      BY ONLY <3>2, <3>3
    <3> QED
      BY <2>1, <3>1, <3>4
<1> QED
  BY <1>0, <1>1

\* Where the stream is after the samples ws.
End(ws, at) == IF Len(ws) = 0 THEN 0 ELSE at[Len(ws)] + ws[Len(ws)]

\* The samples of one more call of a generator.
Continued(at, d, f, n) == [k \in 1..(d + n) |-> IF k <= d THEN at[k] ELSE f[k - d]]

\* The list v is the list ws of d fields and the same one n times more.
Longer(v, ws, d, n, width) ==
    /\ v \in Seq(Nat \ {0}) /\ Len(v) = d + n /\ d \in Nat
    /\ \A k \in 1..d : v[k] = ws[k] /\ ws[k] \in Nat \ {0}
    /\ \A k \in 1..n : v[d + k] = width

\* The fields of the samples of one more call.
LEMMA MoreAreDue ==
    ASSUME NEW ws \in Seq(Nat \ {0}), NEW n \in Nat, NEW width \in Nat \ {0},
           NEW v, v = ws \o Many(n, width), NEW d, d = Len(ws)
    PROVE  Longer(v, ws, d, n, width)
<1>1. PICK u : u = Many(n, width)
  OBVIOUS
<1>2. u \in Seq(Nat \ {0}) /\ Len(u) = n /\ \A k \in 1..n : u[k] = width
  BY <1>1 DEF Many
<1>3. v = ws \o u
  BY <1>1
<1>4. PICK S : S = Nat \ {0}
  OBVIOUS
<1>5. ws \in Seq(S) /\ u \in Seq(S)
  BY <1>2, <1>4
<1>6. /\ v \in Seq(S) /\ Len(v) = Len(ws) + Len(u) /\ Len(ws) \in Nat
      /\ \A k \in 1..Len(ws) : v[k] = ws[k] /\ ws[k] \in S
      /\ \A k \in 1..Len(u) : v[Len(ws) + k] = u[k]
  BY ONLY <1>3, <1>5
<1> QED
  BY <1>2, <1>4, <1>6 DEF Longer

\* Each sample of a call is accepted in time.
InTime(key, width, start, f, n) ==
    \A k \in 1..n : AcceptedInTime(key, width, IF k = 1 THEN start ELSE f[k - 1] + width)

\* The samples g are a chain that ends with n samples f of one field.
Extended(key, v, g, f, n, width) == Chain(key, v, g) /\ End(v, g) = f[n] + width

\* A generator goes on where the one before it ended.
LEMMA ChainGoesOn ==
    ASSUME NEW key, NEW ws \in Seq(Nat \ {0}), NEW at, Chain(key, ws, at),
           NEW n \in Nat \ {0}, NEW width \in Nat \ {0}, NEW d, d = Len(ws),
           NEW f, f = Samples(key, width, End(ws, at), n),
           InTime(key, width, End(ws, at), f, n),
           NEW v, v = ws \o Many(n, width), NEW g, g = Continued(at, d, f, n)
    PROVE  Extended(key, v, g, f, n, width)
<1> DEFINE Start(k) == IF k = 1 THEN End(ws, at) ELSE f[k - 1] + width
<1>v. /\ v \in Seq(Nat \ {0}) /\ Len(v) = d + n /\ d \in Nat
      /\ \A k \in 1..d : v[k] = ws[k] /\ ws[k] \in Nat \ {0}
      /\ \A k \in 1..n : v[d + k] = width
  <2>1. /\ ws \in Seq(Nat \ {0}) /\ n \in Nat /\ width \in Nat \ {0}
        /\ v = ws \o Many(n, width) /\ d = Len(ws)
    OBVIOUS
  <2>2. Longer(v, ws, d, n, width)
    BY ONLY <2>1, MoreAreDue
  <2> QED
    BY <2>2 DEF Longer
<1>1. End(ws, at) \in Nat
  BY <1>v DEF End, Chain
<1>2. f = [k \in 1..n |-> Accepted(key, width, Start(k))]
  BY SamplesOneByOne
<1>3. \A k \in 1..n : f[k] = Accepted(key, width, Start(k))
  BY <1>2
<1>4. \A k \in 1..n : f[k] \in Nat /\ Start(k) \in Nat /\ f[k] >= Start(k)
  <2> DEFINE T == {x \in Nat : /\ x \in 1..n
                               /\ ~(f[x] \in Nat /\ Start(x) \in Nat /\ f[x] >= Start(x))}
  <2>1. T # {} => FALSE
    <3> SUFFICES ASSUME T # {} PROVE FALSE
      OBVIOUS
    <3>1. PICK x \in T : \A y \in T : x <= y
      <4>1. T \in SUBSET Nat
        OBVIOUS
      <4> HIDE DEF T
      <4> QED
        BY <4>1, LeastElement
    <3>2. x # 1 => f[x - 1] \in Nat
      BY <3>1
    <3>3. Start(x) \in Nat
      BY <1>1, <3>1, <3>2
    <3>4. /\ AcceptedInTime(key, width, Start(x)) /\ x \in 1..n
          /\ f[x] = Accepted(key, width, Start(x))
      BY <1>3, <3>1 DEF InTime
    <3> HIDE DEF Start
    <3>5. f[x] \in Nat /\ f[x] >= Start(x)
      BY <3>3, <3>4, AcceptedIsLater
    <3> QED
      BY <3>1, <3>3, <3>5
  <2>2. ASSUME NEW k \in 1..n PROVE f[k] \in Nat /\ Start(k) \in Nat /\ f[k] >= Start(k)
    <3>1. k \in Nat /\ k \in 1..n
      OBVIOUS
    <3>2. k \notin T
      <4> HIDE DEF T
      <4> QED
        BY <2>1
    <3> HIDE DEF Start
    <3> QED
      BY <3>1, <3>2
  <2> HIDE DEF Start
  <2> QED
    BY <2>2
<1>5. g \in [1..(d + n) -> Nat]
  BY <1>4 DEF Continued, Chain
<1>6. ASSUME NEW k \in 1..(d + n)
      PROVE  g[k] = Accepted(key, v[k], From(v, g, k)) /\ g[k] >= From(v, g, k)
  <2>1. CASE k <= d
    <3>1. k \in 1..d /\ g[k] = at[k] /\ v[k] = ws[k]
      BY <1>v, <2>1 DEF Continued
    <3>2. k # 1 => g[k - 1] = at[k - 1] /\ v[k - 1] = ws[k - 1]
      BY <1>v, <2>1 DEF Continued
    <3>3. From(v, g, k) = From(ws, at, k)
      BY <3>2 DEF From
    <3> QED
      BY <3>1, <3>3 DEF Chain
  <2>2. CASE ~(k <= d)
    <3>1. k - d \in 1..n /\ g[k] = f[k - d] /\ v[k] = width
      <4>1. k - d \in 1..n /\ k = d + (k - d)
        BY <1>v, <2>2
      <4>2. v[k] = width
        BY <1>v, <4>1
      <4> QED
        BY <1>v, <2>2, <4>1, <4>2 DEF Continued
    <3>2. From(v, g, k) = Start(k - d)
      <4>1. CASE k = d + 1 /\ d = 0
        BY <4>1 DEF From, End
      <4>2. CASE k = d + 1 /\ d # 0
        <5>1. g[d] = at[d] /\ v[d] = ws[d]
          BY <1>v, <4>2 DEF Continued
        <5> QED
          BY <1>v, <4>2, <5>1 DEF From, End
      <4>3. CASE k # d + 1
        <5>1. k - 1 - d \in 1..n /\ k - 1 = d + (k - 1 - d) /\ k # 1 /\ k - d # 1
          BY <1>v, <2>2, <4>3
        <5>2. v[k - 1] = width
          BY <1>v, <5>1
        <5>3. g[k - 1] = f[k - d - 1]
          BY <1>v, <5>1 DEF Continued
        <5> QED
          BY <5>1, <5>2, <5>3 DEF From
      <4> QED
        BY <4>1, <4>2, <4>3
    <3> HIDE DEF Start
    <3> QED
      BY <1>3, <1>4, <3>1, <3>2
  <2> QED
    BY <2>1, <2>2
<1>7. End(v, g) = f[n] + width
  <2>1. g[d + n] = f[n] /\ v[d + n] = width
    BY <1>v DEF Continued
  <2> QED
    BY <1>v, <2>1 DEF End
<1> QED
  BY <1>v, <1>5, <1>6, <1>7 DEF Chain, Extended

-----------------------------------------------------------------------------
(* What the bytes that were hashed say of the messages.                    *)

Messages == [kind : {"bytes", "element", "array"}, width : Nat \ {0}, data : Seq(Nat)]

\* The bytes of message m are those of s from position o on, up to position e; arrays have
\* the tag t.  Its kind and length come before its data.
HeadLength(m) == IF m.kind = "element" THEN 1 ELSE 2
HeadAt(s, o, m, t) ==
    \/ m.kind = "element" /\ s[o + 1] = 1 /\ Len(m.data) = m.width
    \/ m.kind = "bytes" /\ s[o + 1] = 0 /\ s[o + 2] = Len(m.data)
    \/ m.kind = "array" /\ s[o + 1] = t /\ m.width * s[o + 2] = Len(m.data)
FrameAt(s, o, m, e, t) ==
    /\ e = o + HeadLength(m) + Len(m.data) /\ e <= Len(s)
    /\ HeadAt(s, o, m, t)
    /\ \A k \in 1..Len(m.data) : s[o + HeadLength(m) + k] = m.data[k]

\* The bytes s are those of the messages, one after another: each ends at one of the offsets.
Frames(s, messages, off, t) ==
    /\ s \in Seq(Nat) /\ messages \in Seq(Messages)
    /\ off \in [0..Len(messages) -> Nat]
    /\ off[0] = 0 /\ off[Len(messages)] = Len(s)
    /\ \A k \in 1..Len(messages) : FrameAt(s, off[k - 1], messages[k], off[k], t)

Framed(s, messages, t) == \E off : Frames(s, messages, off, t)

\* A message stays where it is when another is written behind it, and is where it is written.
LEMMA FrameMoves ==
    ASSUME NEW s \in Seq(Nat), NEW f \in Seq(Nat), NEW o \in Nat, NEW e \in Nat, NEW t,
           NEW m \in Messages
    PROVE  /\ FrameAt(s, o, m, e, t) => FrameAt(s \o f, o, m, e, t)
           /\ FrameAt(f, 0, m, e, t) => FrameAt(s \o f, Len(s), m, Len(s) + e, t)
<1> DEFINE all == s \o f
           h == HeadLength(m)
           n == Len(m.data)
<1>1. /\ Len(all) = Len(s) + Len(f) /\ Len(s) \in Nat /\ Len(f) \in Nat
      /\ \A k \in 1..Len(s) : all[k] = s[k]
      /\ \A k \in 1..Len(f) : all[Len(s) + k] = f[k]
  OBVIOUS
<1>2. n \in Nat /\ h \in 1..2 /\ (m.kind # "element" => h = 2)
  BY DEF Messages, HeadLength
<1> HIDE DEF all, h, n
<1>3. ASSUME FrameAt(s, o, m, e, t) PROVE FrameAt(all, o, m, e, t)
  <2>1. e = o + h + n /\ e <= Len(s)
    BY <1>3 DEF FrameAt, h, n
  <2>2. /\ all[o + 1] = s[o + 1]
        /\ h = 2 => all[o + 2] = s[o + 2]
        /\ \A k \in 1..n : all[o + h + k] = s[o + h + k]
    <3>1. o + 1 \in 1..Len(s) /\ (h = 2 => o + 2 \in 1..Len(s))
      BY <1>1, <1>2, <2>1
    <3>2. ASSUME NEW k \in 1..n PROVE all[o + h + k] = s[o + h + k]
      <4>1. o + h + k \in 1..Len(s)
        BY <1>1, <1>2, <2>1
      <4> QED
        BY <1>1, <4>1
    <3> QED
      BY <1>1, <3>1, <3>2
  <2>3. HeadAt(all, o, m, t)
    BY <1>2, <1>3, <2>2 DEF FrameAt, HeadAt
  <2>4. \A k \in 1..n : all[o + h + k] = m.data[k]
    BY <1>3, <2>2 DEF FrameAt, h, n
  <2> QED
    BY <1>1, <2>1, <2>3, <2>4 DEF FrameAt, h, n
<1>4. ASSUME FrameAt(f, 0, m, e, t) PROVE FrameAt(all, Len(s), m, Len(s) + e, t)
  <2>1. e = h + n /\ e <= Len(f)
    BY <1>2, <1>4 DEF FrameAt, h, n
  <2>2. /\ all[Len(s) + 1] = f[1]
        /\ h = 2 => all[Len(s) + 2] = f[2]
        /\ \A k \in 1..n : all[Len(s) + h + k] = f[h + k]
    <3>1. 1 \in 1..Len(f) /\ (h = 2 => 2 \in 1..Len(f))
      BY <1>1, <1>2, <2>1
    <3>2. ASSUME NEW k \in 1..n PROVE all[Len(s) + h + k] = f[h + k]
      <4>1. h + k \in 1..Len(f) /\ Len(s) + (h + k) = Len(s) + h + k
        BY <1>1, <1>2, <2>1
      <4> QED
        BY <1>1, <4>1
    <3> QED
      BY <1>1, <3>1, <3>2
  <2>3. HeadAt(all, Len(s), m, t)
    BY <1>2, <1>4, <2>2 DEF FrameAt, HeadAt
  <2>4. \A k \in 1..n : all[Len(s) + h + k] = m.data[k]
    <3>1. \A k \in 1..n : f[0 + h + k] = m.data[k]
      BY <1>4 DEF FrameAt, h, n
    <3>2. \A k \in 1..n : 0 + h + k = h + k
      BY <1>2
    <3> QED
      BY <2>2, <3>1, <3>2
  <2>5. Len(s) + e = Len(s) + h + n /\ Len(s) + e <= Len(all)
    BY <1>1, <1>2, <2>1
  <2> QED
    BY <2>3, <2>4, <2>5 DEF FrameAt, h, n
<1> QED
  BY <1>3, <1>4 DEF all

\* A message is written behind the others.
LEMMA FrameAppended ==
    ASSUME NEW s, NEW messages, NEW t, Framed(s, messages, t),
           NEW f \in Seq(Nat), NEW m \in Messages, FrameAt(f, 0, m, Len(f), t)
    PROVE  Framed(s \o f, Append(messages, m), t)
<1>1. PICK off : Frames(s, messages, off, t)
  BY DEF Framed
<1> DEFINE n == Len(messages)
           all == s \o f
           new == [k \in 0..(n + 1) |-> IF k <= n THEN off[k] ELSE Len(all)]
           longer == Append(messages, m)
<1>2. /\ s \in Seq(Nat) /\ messages \in Seq(Messages) /\ n \in Nat /\ Len(s) \in Nat
      /\ off \in [0..n -> Nat] /\ off[0] = 0 /\ off[n] = Len(s)
  BY <1>1 DEF Frames
<1>3. all \in Seq(Nat) /\ Len(all) = Len(s) + Len(f) /\ Len(f) \in Nat /\ Len(all) \in Nat
  BY <1>2
<1>4. /\ longer \in Seq(Messages) /\ Len(longer) = n + 1 /\ longer[n + 1] = m
      /\ \A k \in 1..n : longer[k] = messages[k] /\ messages[k] \in Messages
  BY <1>2
<1>5. \A k \in 1..n : FrameAt(s, off[k - 1], messages[k], off[k], t)
  BY <1>1 DEF Frames
<1> HIDE DEF all, longer, n
<1>6. /\ new \in [0..(n + 1) -> Nat] /\ new[0] = 0 /\ new[n + 1] = Len(all) /\ new[n] = Len(s)
      /\ \A k \in 1..n : new[k - 1] = off[k - 1] /\ new[k] = off[k]
  BY <1>2, <1>3
<1> HIDE DEF new
<1>7. ASSUME NEW k \in 1..(n + 1)
      PROVE  FrameAt(all, new[k - 1], longer[k], new[k], t)
  <2>1. CASE k \in 1..n
    <3>1. /\ FrameAt(s, off[k - 1], messages[k], off[k], t) /\ off[k] \in Nat
          /\ off[k - 1] \in Nat /\ messages[k] \in Messages
      BY <1>2, <1>4, <1>5, <2>1
    <3>2. FrameAt(all, off[k - 1], messages[k], off[k], t)
      BY <1>2, <3>1, FrameMoves DEF all
    <3> QED
      BY <1>4, <1>6, <2>1, <3>2
  <2>2. CASE k = n + 1
    <3>1. new[k - 1] = Len(s) /\ new[k] = Len(s) + Len(f) /\ longer[k] = m
      BY <1>2, <1>3, <1>4, <1>6, <2>2
    <3>2. FrameAt(all, Len(s), m, Len(s) + Len(f), t)
      BY <1>2, <1>3, FrameMoves DEF all
    <3> QED
      BY <3>1, <3>2
  <2> QED
    BY <1>2, <2>1, <2>2
<1>8. Frames(all, longer, new, t)
  BY <1>3, <1>4, <1>6, <1>7 DEF Frames
<1> QED
  BY <1>8 DEF Framed, all, longer

\* What must be known of two messages to tell them apart: that they are not of one kind and
\* of two fields, and, if arrays have the tag of elements, not of these two kinds.
Alike(m, n, t) ==
    /\ m.kind = n.kind => m.width = n.width
    /\ t = 1 => {m.kind, n.kind} # {"element", "array"}

\* The bytes of a message tell where it ends, and what it is: its kind is known or has a tag
\* of its own, and then comes its length, in elements of a field that is known.
LEMMA FrameSays ==
    ASSUME NEW s \in Seq(Nat), NEW o \in Nat, NEW m \in Messages, NEW n \in Messages,
           NEW d \in Nat, NEW e \in Nat, NEW t \in {1, 2}, Alike(m, n, t),
           FrameAt(s, o, m, d, t), FrameAt(s, o, n, e, t)
    PROVE  m = n /\ d = e
<1>1. /\ m.kind \in {"bytes", "element", "array"} /\ m.width \in Nat /\ m.data \in Seq(Nat)
      /\ n.kind \in {"bytes", "element", "array"} /\ n.width \in Nat /\ n.data \in Seq(Nat)
      /\ m = [kind |-> m.kind, width |-> m.width, data |-> m.data]
      /\ n = [kind |-> n.kind, width |-> n.width, data |-> n.data]
  BY DEF Messages
<1>2. HeadAt(s, o, m, t) /\ HeadAt(s, o, n, t)
  BY DEF FrameAt
<1>3. m.kind = n.kind /\ m.width = n.width
  <2>1. m.kind # n.kind => FALSE
    <3>1. t = 1 => {m.kind, n.kind} # {"element", "array"}
      BY DEF Alike
    <3>2. CASE m.kind = "element" /\ n.kind = "array"
      BY <1>2, <3>1, <3>2 DEF HeadAt
    <3>3. CASE m.kind = "array" /\ n.kind = "element"
      <4>1. {m.kind, n.kind} = {"element", "array"}
        BY <3>3
      <4> QED
        BY <1>2, <3>1, <3>3, <4>1 DEF HeadAt
    <3>4. CASE m.kind = "bytes" \/ n.kind = "bytes"
      BY <1>1, <1>2, <3>4 DEF HeadAt
    <3> QED
      BY <1>1, <3>2, <3>3, <3>4
  <2> QED
    BY <2>1 DEF Alike
<1>4. Len(m.data) = Len(n.data) /\ HeadLength(m) = HeadLength(n)
  BY <1>1, <1>2, <1>3 DEF HeadAt, HeadLength
<1>5. d = e
  BY <1>4 DEF FrameAt
<1>6. \A k \in 1..Len(m.data) : m.data[k] = n.data[k]
  BY <1>4 DEF FrameAt
<1>7. m.data = n.data
  <2>1. PICK x, y : x = m.data /\ y = n.data
    OBVIOUS
  <2>2. x \in Seq(Nat) /\ y \in Seq(Nat) /\ Len(x) = Len(y) /\ \A k \in 1..Len(x) : x[k] = y[k]
    BY <1>1, <1>4, <1>6, <2>1
  <2>3. x = [k \in 1..Len(x) |-> x[k]] /\ y = [k \in 1..Len(y) |-> y[k]]
    BY <2>2
  <2>4. x = y
    BY <2>2, <2>3
  <2> QED
    BY <2>1, <2>4
<1> QED
  BY <1>1, <1>3, <1>5, <1>7

\* Arrays with as many bytes have as many elements.
LEMMA Cancel ==
    ASSUME NEW n \in Nat \ {0}, NEW x \in Nat, NEW y \in Nat, n * x = n * y
    PROVE  x = y
<1>1. n * (x - y) = 0
  OBVIOUS
<1> QED
  BY <1>1

\* A message has the same bytes wherever it is written.
LEMMA FrameCopies ==
    ASSUME NEW s \in Seq(Nat), NEW u \in Seq(Nat), NEW o \in Nat, NEW m \in Messages,
           NEW d \in Nat, NEW e \in Nat, NEW t,
           FrameAt(s, o, m, d, t), FrameAt(u, o, m, e, t)
    PROVE  d = e /\ \A x \in (o + 1)..d : s[x] = u[x]
<1> DEFINE h == HeadLength(m)
           n == Len(m.data)
<1>1. n \in Nat /\ h \in 1..2 /\ (m.kind # "element" => h = 2) /\ (m.kind = "element" => h = 1)
  BY DEF Messages, HeadLength
<1>2. /\ d = o + h + n /\ e = d /\ d <= Len(s) /\ d <= Len(u)
      /\ HeadAt(s, o, m, t) /\ HeadAt(u, o, m, t)
  BY DEF FrameAt
<1>3. \A k \in 1..n : s[o + h + k] = u[o + h + k]
  BY DEF FrameAt
<1> HIDE DEF h, n
<1>4. s[o + 1] = u[o + 1]
  BY <1>2 DEF HeadAt
<1>5. h = 2 => s[o + 2] = u[o + 2]
  <2>1. CASE m.kind = "bytes"
    BY <1>2, <2>1 DEF HeadAt
  <2>2. CASE m.kind = "array"
    <3>1. m.width * s[o + 2] = m.width * u[o + 2]
      BY <1>2, <2>2 DEF HeadAt
    <3>2. s[o + 2] \in Nat /\ u[o + 2] \in Nat
      BY <1>1, <1>2, <2>2
    <3>3. m.width \in Nat \ {0}
      BY DEF Messages
    <3> QED
      BY <3>1, <3>2, <3>3, Cancel
  <2> QED
    BY <1>1, <2>1, <2>2 DEF Messages
<1>6. ASSUME NEW x \in (o + 1)..d PROVE s[x] = u[x]
  <2>1. x = o + 1 \/ (h = 2 /\ x = o + 2) \/ (x - o - h \in 1..n /\ o + h + (x - o - h) = x)
    BY <1>1, <1>2
  <2> QED
    BY <1>3, <1>4, <1>5, <2>1
<1> QED
  BY <1>2, <1>6

\* What must be known of two lists of messages to tell them apart.
Told(mm, nn, t) ==
    \A k \in DOMAIN mm \cap DOMAIN nn :
        (\A j \in 1..(k - 1) : mm[j] = nn[j]) => Alike(mm[k], nn[k], t)

\* The messages of one list of bytes are the same ones, if their types can be told where
\* they would differ first.
LEMMA FramesAreRead ==
    ASSUME NEW s, NEW mm, NEW nn, NEW t \in {1, 2}, Framed(s, mm, t), Framed(s, nn, t),
           Told(mm, nn, t)
    PROVE  mm = nn
<1>1. PICK a : Frames(s, mm, a, t)
  BY DEF Framed
<1>2. PICK b : Frames(s, nn, b, t)
  BY DEF Framed
<1>3. /\ s \in Seq(Nat) /\ mm \in Seq(Messages) /\ nn \in Seq(Messages)
      /\ Len(mm) \in Nat /\ Len(nn) \in Nat /\ Len(s) \in Nat
      /\ a \in [0..Len(mm) -> Nat] /\ b \in [0..Len(nn) -> Nat]
      /\ a[0] = 0 /\ b[0] = 0 /\ a[Len(mm)] = Len(s) /\ b[Len(nn)] = Len(s)
  BY <1>1, <1>2 DEF Frames
<1> DEFINE Same(k) == a[k] = b[k] /\ (k # 0 => mm[k] = nn[k])
           T == {k \in Nat : k <= Len(mm) /\ k <= Len(nn) /\ ~Same(k)}
<1>4. T # {} => FALSE
  <2> SUFFICES ASSUME T # {} PROVE FALSE
    OBVIOUS
  <2>1. PICK k \in T : \A y \in T : k <= y
    <3>1. T \in SUBSET Nat
      OBVIOUS
    <3> HIDE DEF T
    <3> QED
      BY <3>1, LeastElement
  <2>2. k # 0 /\ k \in 1..Len(mm) /\ k \in 1..Len(nn) /\ k - 1 \in Nat
    BY <1>3, <2>1
  <2>3. a[k - 1] = b[k - 1]
    <3>1. k - 1 \notin T
      <4>1. k \in Nat /\ ~(k <= k - 1)
        BY <2>2
      <4> HIDE DEF T
      <4> QED
        BY ONLY <2>1, <4>1
    <3>2. k - 1 <= Len(mm) /\ k - 1 <= Len(nn)
      BY <1>3, <2>2
    <3> QED
      BY <2>2, <3>1, <3>2
  <2>4. /\ a[k - 1] \in Nat /\ a[k] \in Nat /\ b[k] \in Nat
        /\ mm[k] \in Messages /\ nn[k] \in Messages
    <3>1. k - 1 \in 0..Len(mm) /\ k \in 0..Len(mm) /\ k \in 0..Len(nn)
      BY <1>3, <2>2
    <3>2. a[k - 1] \in Nat /\ a[k] \in Nat /\ b[k] \in Nat
      BY <1>3, <3>1
    <3>3. mm[k] \in Messages /\ nn[k] \in Messages
      BY <1>3, <2>2
    <3> QED
      BY <3>2, <3>3
  <2>5. FrameAt(s, a[k - 1], mm[k], a[k], t) /\ FrameAt(s, a[k - 1], nn[k], b[k], t)
    <3>1. FrameAt(s, b[k - 1], nn[k], b[k], t)
      BY <1>2, <2>2 DEF Frames
    <3> QED
      BY <1>1, <2>2, <2>3, <3>1 DEF Frames
  <2>6. Alike(mm[k], nn[k], t)
    <3>1. ASSUME NEW j \in 1..(k - 1) PROVE mm[j] = nn[j]
      <4>1. j \in Nat /\ j # 0 /\ ~(k <= j) /\ j <= Len(mm) /\ j <= Len(nn)
        BY <1>3, <2>2
      <4>2. j \notin T
        <5> HIDE DEF T
        <5> QED
          BY ONLY <2>1, <4>1
      <4> QED
        BY <4>1, <4>2
    <3>2. k \in DOMAIN mm \cap DOMAIN nn
      BY <1>3, <2>2
    <3> HIDE DEF T
    <3> QED
      BY <3>1, <3>2 DEF Told
  <2>7. mm[k] = nn[k] /\ a[k] = b[k]
    <3>1. s \in Seq(Nat) /\ t \in {1, 2}
      BY <1>3
    <3> HIDE DEF T
    <3> QED
      BY ONLY <3>1, <2>4, <2>5, <2>6, FrameSays
  <2> QED
    BY <2>1, <2>7
<1>5. \A k \in Nat : k <= Len(mm) /\ k <= Len(nn) => Same(k)
  BY <1>4
<1>6. ASSUME NEW u, NEW c, Frames(s, u, c, t), NEW k \in Nat, k < Len(u), c[k] = Len(s)
      PROVE  FALSE
  <2>1. u \in Seq(Messages) /\ Len(u) \in Nat /\ c \in [0..Len(u) -> Nat]
    BY <1>6 DEF Frames
  <2>2. k + 1 \in 1..Len(u) /\ k + 1 - 1 = k
    BY <1>6, <2>1
  <2>3. FrameAt(s, c[k], u[k + 1], c[k + 1], t)
    BY <1>6, <2>2 DEF Frames
  <2>4. u[k + 1] \in Messages /\ c[k + 1] \in Nat
    BY <2>1, <2>2
  <2>5. Len(u[k + 1].data) \in Nat /\ HeadLength(u[k + 1]) \in 1..2
    BY <2>4 DEF Messages, HeadLength
  <2>6. c[k + 1] = Len(s) + HeadLength(u[k + 1]) + Len(u[k + 1].data) /\ c[k + 1] <= Len(s)
    BY <1>6, <2>3 DEF FrameAt
  <2>7. Len(s) \in Nat
    BY <1>3
  <2> QED
    BY ONLY <2>4, <2>5, <2>6, <2>7
<1>7. Len(mm) = Len(nn)
  <2>1. CASE Len(mm) < Len(nn)
    <3>1. Same(Len(mm))
      BY <1>3, <1>5, <2>1
    <3>2. b[Len(mm)] = Len(s)
      BY <1>3, <3>1
    <3> QED
      BY <1>2, <1>3, <1>6, <2>1, <3>2
  <2>2. CASE Len(nn) < Len(mm)
    <3>1. Same(Len(nn))
      BY <1>3, <1>5, <2>2
    <3>2. a[Len(nn)] = Len(s)
      BY <1>3, <3>1
    <3> QED
      BY <1>1, <1>3, <1>6, <2>2, <3>2
  <2> QED
    BY <1>3, <2>1, <2>2
<1>8. \A k \in 1..Len(mm) : mm[k] = nn[k]
  BY <1>3, <1>5, <1>7
<1>9. mm = [k \in 1..Len(mm) |-> mm[k]] /\ nn = [k \in 1..Len(nn) |-> nn[k]]
  BY <1>3
<1> QED
  BY ONLY <1>7, <1>8, <1>9

\* The same messages have the same bytes: each byte is of one of them.
LEMMA FramesAreWritten ==
    ASSUME NEW s, NEW u, NEW mm, NEW t, Framed(s, mm, t), Framed(u, mm, t)
    PROVE  s = u
<1>1. PICK a : Frames(s, mm, a, t)
  BY DEF Framed
<1>2. PICK b : Frames(u, mm, b, t)
  BY DEF Framed
<1>3. /\ s \in Seq(Nat) /\ u \in Seq(Nat) /\ mm \in Seq(Messages)
      /\ Len(mm) \in Nat /\ Len(s) \in Nat /\ Len(u) \in Nat
      /\ a \in [0..Len(mm) -> Nat] /\ b \in [0..Len(mm) -> Nat]
      /\ a[0] = 0 /\ b[0] = 0 /\ a[Len(mm)] = Len(s) /\ b[Len(mm)] = Len(u)
  BY <1>1, <1>2 DEF Frames
<1> DEFINE Same(k) == a[k] = b[k] /\ \A x \in 1..a[k] : s[x] = u[x]
           T == {k \in Nat : k <= Len(mm) /\ ~Same(k)}
<1>4. T # {} => FALSE
  <2> SUFFICES ASSUME T # {} PROVE FALSE
    OBVIOUS
  <2>1. PICK k \in T : \A y \in T : k <= y
    <3>1. T \in SUBSET Nat
      OBVIOUS
    <3> HIDE DEF T
    <3> QED
      BY <3>1, LeastElement
  <2>2. k # 0 /\ k \in 1..Len(mm) /\ k - 1 \in Nat
    BY <1>3, <2>1
  <2>3. Same(k - 1)
    BY <2>1, <2>2
  <2>4. /\ a[k - 1] \in Nat /\ a[k] \in Nat /\ b[k] \in Nat /\ mm[k] \in Messages
    <3>1. k - 1 \in 0..Len(mm) /\ k \in 0..Len(mm)
      BY <1>3, <2>2
    <3>2. a[k - 1] \in Nat /\ a[k] \in Nat /\ b[k] \in Nat
      BY <1>3, <3>1
    <3>3. mm[k] \in Messages
      BY <1>3, <2>2
    <3> QED
      BY <3>2, <3>3
  <2>5. FrameAt(s, a[k - 1], mm[k], a[k], t) /\ FrameAt(u, a[k - 1], mm[k], b[k], t)
    <3>1. FrameAt(u, b[k - 1], mm[k], b[k], t)
      BY <1>2, <2>2 DEF Frames
    <3> QED
      BY <1>1, <2>2, <2>3, <3>1 DEF Frames
  <2>6. a[k] = b[k] /\ \A x \in (a[k - 1] + 1)..a[k] : s[x] = u[x]
    <3>1. s \in Seq(Nat) /\ u \in Seq(Nat)
      BY <1>3
    <3> HIDE DEF T
    <3> QED
      BY ONLY <3>1, <2>4, <2>5, FrameCopies
  <2>7. Same(k)
    BY <2>3, <2>4, <2>6
  <2> QED
    BY <2>1, <2>7
<1>5. Same(Len(mm))
  <2>1. Len(mm) \in T => FALSE
    BY <1>4
  <2> QED
    BY <1>3, <2>1
<1>6. Len(s) = Len(u) /\ \A x \in 1..Len(s) : s[x] = u[x]
  BY <1>3, <1>5
<1>7. s = [x \in 1..Len(s) |-> s[x]] /\ u = [x \in 1..Len(u) |-> u[x]]
  BY <1>3
<1> QED
  BY <1>6, <1>7

-----------------------------------------------------------------------------
(* The bytes that each writer hashes are those of its message.             *)

\* A tag, a length and the data are the bytes of a byte array or of an array of elements.
LEMMA FrameOfArray ==
    ASSUME NEW kind \in {"bytes", "array"}, NEW tag \in Nat, NEW length \in Nat,
           NEW width \in Nat \ {0}, NEW data \in Seq(Nat), NEW t,
           kind = "bytes" => tag = 0 /\ length = Len(data),
           kind = "array" => tag = t /\ width * length = Len(data),
           NEW f, f = <<tag, length>> \o data
    PROVE  /\ f \in Seq(Nat) /\ Message(kind, width, data) \in Messages
           /\ FrameAt(f, 0, Message(kind, width, data), Len(f), t)
<1>1. PICK m : m = Message(kind, width, data)
  OBVIOUS
<1>2. m \in Messages /\ m.kind = kind /\ m.width = width /\ m.data = data
  BY <1>1 DEF Message, Messages
<1>3. /\ f \in Seq(Nat) /\ Len(f) = 2 + Len(data) /\ f[1] = tag /\ f[2] = length
      /\ \A k \in 1..Len(data) : f[2 + k] = data[k]
  OBVIOUS
<1>4. HeadLength(m) = 2
  BY <1>2 DEF HeadLength
<1>5. HeadAt(f, 0, m, t)
  BY <1>2, <1>3 DEF HeadAt
<1>6. FrameAt(f, 0, m, Len(f), t)
  <2>1. Len(f) = 0 + HeadLength(m) + Len(m.data) /\ Len(f) <= Len(f)
    BY <1>2, <1>3, <1>4
  <2>2. ASSUME NEW k \in 1..Len(m.data) PROVE f[0 + HeadLength(m) + k] = m.data[k]
    <3>1. 0 + HeadLength(m) + k = 2 + k
      BY <1>4
    <3> QED
      BY <1>2, <1>3, <3>1
  <2> QED
    BY <1>5, <2>1, <2>2 DEF FrameAt
<1> QED
  BY <1>1, <1>2, <1>3, <1>6

\* A byte array is written as its tag, its length and itself.
LEMMA BytesAreFramed ==
    ASSUME NEW data \in Seq(Nat), NEW t, NEW f, f = <<0, Len(data)>> \o data
    PROVE  /\ f \in Seq(Nat) /\ ByteMessage(data) \in Messages
           /\ FrameAt(f, 0, ByteMessage(data), Len(f), t)
<1>1. Len(data) \in Nat /\ 0 \in Nat /\ 1 \in Nat \ {0}
  OBVIOUS
<1>2. PICK kind \in {"bytes", "array"} : kind = "bytes"
  OBVIOUS
<1>3. /\ f \in Seq(Nat) /\ Message(kind, 1, data) \in Messages
      /\ FrameAt(f, 0, Message(kind, 1, data), Len(f), t)
  BY <1>1, <1>2, FrameOfArray
<1> QED
  BY <1>2, <1>3 DEF ByteMessage

\* A tag and an element are the bytes of write_field_element.
LEMMA FrameOfElement ==
    ASSUME NEW x \in Element, NEW t
    PROVE  /\ element_bytes(x) \in Seq(Nat) /\ Message("element", Len(x), x) \in Messages
           /\ FrameAt(element_bytes(x), 0, Message("element", Len(x), x),
                      Len(element_bytes(x)), t)
<1>1. PICK m, f : m = Message("element", Len(x), x) /\ f = element_bytes(x)
  OBVIOUS
<1>2. x \in Seq(Nat) /\ Len(x) \in Nat \ {0}
  BY ElementsHaveBytes
<1>3. m \in Messages /\ m.kind = "element" /\ m.width = Len(x) /\ m.data = x
  BY <1>1, <1>2 DEF Message, Messages
<1>4. f = <<1>> \o x
  BY <1>1 DEF element_bytes, Tag
<1>5. /\ f \in Seq(Nat) /\ Len(f) = 1 + Len(x) /\ f[1] = 1
      /\ \A k \in 1..Len(x) : f[1 + k] = x[k]
  BY <1>2, <1>4
<1>6. HeadLength(m) = 1
  BY <1>3 DEF HeadLength
<1>7. HeadAt(f, 0, m, t)
  BY <1>2, <1>3, <1>5 DEF HeadAt
<1>8. FrameAt(f, 0, m, Len(f), t)
  BY <1>2, <1>3, <1>5, <1>6, <1>7 DEF FrameAt
<1> QED
  BY <1>1, <1>3, <1>5, <1>8

\* The bytes of the elements, one after another.
LEMMA ElementsConcatenated ==
    ASSUME NEW width \in Widths, NEW xs \in ArraysOf(ElementsOf(width))
    PROVE  /\ Concat(width, xs) \in Seq(Nat) /\ Len(xs) \in Nat
           /\ Len(Concat(width, xs)) = width * Len(xs)
<1>1. PICK n \in Nat : xs \in [1..n -> ElementsOf(width)]
  BY TranscriptAssumption DEF ArraysOf
<1>2. xs \in Seq(ElementsOf(width)) /\ Len(xs) = n
  BY <1>1
<1>3. PICK nb \in Nat \ {0} : nb = width
  BY ElementsHaveBytes
<1>4. nb * n \in Nat
  BY <1>3
<1>5. ASSUME NEW k \in 1..(nb * n)
      PROVE  xs[(k - 1) \div nb + 1][((k - 1) % nb) + 1] \in Nat
  <2>1. PICK q, r : q = (k - 1) \div nb /\ r = (k - 1) % nb
    OBVIOUS
  <2>2. q \in Nat /\ r \in 0..(nb - 1) /\ k - 1 = nb * q + r
    BY <1>3, <1>4, <2>1
  <2>3. q < n
    <3>1. q >= n => nb * q >= nb * n
      BY <1>3, <2>2
    <3> QED
      BY <1>4, <2>2, <3>1
  <2>4. xs[q + 1] \in ElementsOf(width)
    BY <1>1, <2>2, <2>3
  <2>5. xs[q + 1] \in Seq(Nat) /\ Len(xs[q + 1]) = nb
    BY <1>3, <2>4, ElementsHaveBytes
  <2>6. xs[q + 1][r + 1] \in Nat
    BY <2>2, <2>5
  <2> QED
    BY <2>1, <2>6
<1>6. Concat(width, xs) = [k \in 1..(nb * n) |-> xs[(k - 1) \div nb + 1][((k - 1) % nb) + 1]]
  BY <1>2, <1>3 DEF Concat
<1>7. Concat(width, xs) \in [1..(nb * n) -> Nat]
  BY <1>5, <1>6
<1> QED
  BY <1>2, <1>3, <1>4, <1>7

\* What one list of bytes followed by another is.
LEMMA Joined ==
    ASSUME NEW x \in Seq(Nat), NEW y \in Seq(Nat)
    PROVE  /\ x \o y \in Seq(Nat) /\ Len(x \o y) = Len(x) + Len(y)
           /\ \A k \in 1..Len(x) : (x \o y)[k] = x[k]
           /\ \A k \in 1..Len(y) : (x \o y)[Len(x) + k] = y[k]
  OBVIOUS

Zeros(n) == [k \in 1..n |-> 0]

\* The loop of write_zero_array hashes as many zeros as it was asked for.
LEMMA AllZerosAreWritten ==
    ASSUME NEW size \in Nat
    PROVE  ZeroBytes(size) = Zeros(size)
<1> DEFINE written(n) == IF n < ZeroChunk THEN n ELSE ZeroChunk
           Made(f) == f = [n \in 0..size |->
                             LET w == IF n < ZeroChunk THEN n ELSE ZeroChunk
                             IN  IF n = 0 THEN <<>> ELSE [k \in 1..w |-> 0] \o f[n - w]]
           closed == [n \in 0..size |-> Zeros(n)]
<1>1. ASSUME NEW n \in 0..size, n # 0
      PROVE  written(n) \in 1..n /\ Zeros(written(n)) \o Zeros(n - written(n)) = Zeros(n)
  <2>1. PICK w : w = written(n)
    OBVIOUS
  <2>2. w \in 1..n
    BY <1>1, <2>1, TranscriptAssumption
  <2>3. PICK x, y, z : x = Zeros(w) /\ y = Zeros(n - w) /\ z = Zeros(n)
    OBVIOUS
  <2>4. /\ x \in Seq(Nat) /\ Len(x) = w /\ \A k \in 1..w : x[k] = 0
        /\ y \in Seq(Nat) /\ Len(y) = n - w /\ \A k \in 1..(n - w) : y[k] = 0
        /\ z \in Seq(Nat) /\ Len(z) = n /\ \A k \in 1..n : z[k] = 0
    BY <2>2, <2>3 DEF Zeros
  <2>5. PICK u : u = x \o y
    OBVIOUS
  <2>6. /\ u \in Seq(Nat) /\ Len(u) = n
        /\ \A k \in 1..w : u[k] = x[k]
        /\ \A k \in 1..(n - w) : u[w + k] = y[k]
    <3>1. /\ u \in Seq(Nat) /\ Len(u) = Len(x) + Len(y)
          /\ \A k \in 1..Len(x) : u[k] = x[k]
          /\ \A k \in 1..Len(y) : u[Len(x) + k] = y[k]
      <4>1. x \in Seq(Nat) /\ y \in Seq(Nat)
        BY <2>4
      <4> QED
        BY ONLY <2>5, <4>1, Joined
    <3> QED
      BY <2>2, <2>4, <3>1
  <2>7. ASSUME NEW k \in 1..n PROVE u[k] = 0
    <3>1. CASE k <= w
      BY <2>2, <2>4, <2>6, <3>1
    <3>2. CASE ~(k <= w)
      <4>1. k - w \in 1..(n - w) /\ w + (k - w) = k
        BY <2>2, <3>2
      <4> QED
        BY <2>4, <2>6, <4>1
    <3> QED
      BY <3>1, <3>2
  <2>8. u = [k \in 1..n |-> u[k]] /\ z = [k \in 1..n |-> z[k]]
    BY <2>4, <2>6
  <2>9. u = z
    BY <2>4, <2>7, <2>8
  <2> QED
    BY <2>1, <2>2, <2>3, <2>5, <2>9
<1>2. Zeros(0) = <<>>
  BY DEF Zeros
<1>3. Made(closed)
  <2>1. ASSUME NEW n \in 0..size
        PROVE  Zeros(n) = LET w == IF n < ZeroChunk THEN n ELSE ZeroChunk
                          IN  IF n = 0 THEN <<>> ELSE [k \in 1..w |-> 0] \o closed[n - w]
    <3>1. CASE n = 0
      BY <1>2, <3>1
    <3>2. CASE n # 0
      <4>1. written(n) \in 1..n /\ Zeros(written(n)) \o Zeros(n - written(n)) = Zeros(n)
        BY <1>1, <3>2
      <4>2. closed[n - written(n)] = Zeros(n - written(n))
        BY <4>1
      <4> QED
        BY <3>2, <4>1, <4>2 DEF Zeros
    <3> QED
      BY <3>1, <3>2
  <2> QED
    BY <2>1
<1>4. \E f : Made(f)
  <2> HIDE DEF Made, closed
  <2> QED
    BY <1>3
<1>5. PICK after : after = (CHOOSE f : Made(f)) /\ Made(after)
  <2> HIDE DEF Made
  <2> QED
    BY <1>4
<1>6. \A n \in 0..size :
        after[n] = IF n = 0 THEN <<>> ELSE Zeros(written(n)) \o after[n - written(n)]
  BY <1>5 DEF Zeros
<1> DEFINE T == {n \in Nat : n <= size /\ after[n] # Zeros(n)}
<1>7. T # {} => FALSE
  <2> SUFFICES ASSUME T # {} PROVE FALSE
    OBVIOUS
  <2>1. PICK n \in T : \A y \in T : n <= y
    <3>1. T \in SUBSET Nat
      OBVIOUS
    <3> HIDE DEF T
    <3> QED
      BY <3>1, LeastElement
  <2>2. n \in 0..size /\ after[n] # Zeros(n)
    BY <2>1
  <2>3. n # 0
    BY <1>2, <1>6, <2>2
  <2>4. written(n) \in 1..n /\ Zeros(written(n)) \o Zeros(n - written(n)) = Zeros(n)
    BY <1>1, <2>2, <2>3
  <2>5. n - written(n) \in Nat /\ n - written(n) < n /\ n - written(n) <= size
    BY <2>2, <2>4
  <2>6. after[n - written(n)] = Zeros(n - written(n))
    BY <2>1, <2>5
  <2> HIDE DEF written, T
  <2> QED
    BY <1>6, <2>2, <2>3, <2>4, <2>6
<1>8. after[size] = Zeros(size)
  BY <1>7
<1>9. ZeroBytes(size) = after[size]
  BY <1>5 DEF ZeroBytes
<1> QED
  BY <1>8, <1>9

-----------------------------------------------------------------------------
(* The invariant.                                                          *)

\* The fields of the samples that were due up to one that was handed out.
Prefix(fields, ws) ==
    /\ fields \in Seq(Nat \ {0}) /\ Len(fields) \in 1..Len(ws)
    /\ \A j \in 1..Len(fields) : fields[j] = ws[j]

\* The sample c is that of the stream of key at one of the positions at.
SampleOf(c, key, ws, at) ==
    /\ Prefix(c.fields, ws)
    /\ c.value = <<key, at[Len(c.fields)], c.fields[Len(c.fields)]>>

\* The challenges of p are samples at the positions at of the stream of all it was given,
\* and the next sample is read where the last one ended.
Bound(p) ==
    /\ Framed(seed[p], log[p], Tag("array"))
    /\ drawn[p] \in Seq(Nat \ {0})
    /\ \E at :
         /\ Chain(seed[p], drawn[p], at)
         /\ get_current_fsprf(p) = [key |-> seed[p], position |-> End(drawn[p], at)]
         /\ \A c \in challenges[p] : SampleOf(c, seed[p], drawn[p], at)

BindingInv ==
    /\ mode \in Modes
    /\ DOMAIN seed = Party /\ DOMAIN log = Party /\ DOMAIN fsprf = Party
    /\ DOMAIN drawn = Party /\ DOMAIN challenges = Party
    /\ \A p \in Party : Bound(p)

\* Before the first sample the stream is at its start.
LEMMA EmptyChain ==
    \A key, at : at = [k \in 1..0 |-> 0] => Chain(key, <<>>, at) /\ End(<<>>, at) = 0
  BY DEF Chain, End

\* A transcript is bound by what it was given as long as it has drawn nothing from it.
LEMMA WrittenIsBound ==
    ASSUME NEW p, Framed(seed[p], log[p], Tag("array")), fsprf[p] = NoStream,
           drawn[p] = <<>>, challenges[p] = {}
    PROVE  Bound(p)
<1> DEFINE at == [k \in 1..0 |-> 0]
<1>1. Chain(seed[p], drawn[p], at) /\ End(drawn[p], at) = 0
  BY EmptyChain
<1>2. get_current_fsprf(p) = [key |-> seed[p], position |-> 0]
  BY DEF get_current_fsprf, Stream
<1> HIDE DEF at
<1> QED
  BY <1>1, <1>2 DEF Bound

\* A transcript as a write leaves it.
Written(p) ==
    /\ Framed(seed[p], log[p], Tag("array")) /\ fsprf[p] = NoStream
    /\ drawn[p] = <<>> /\ challenges[p] = {}

WritingBinds == \A p : Written(p) => Bound(p)

\* As a formula about one state, to be used of the state after a write.
LEMMA AllWritingBinds == WritingBinds
  BY WrittenIsBound DEF Written, WritingBinds

\* The byte arrays written are sequences of bytes.
LEMMA ArraysAreBytes ==
    ASSUME NEW S \in SUBSET Nat, NEW xs \in ArraysOf(S)
    PROVE  xs \in Seq(Nat)
<1>1. PICK n \in 0..MaxLength : xs \in [1..n -> S]
  BY DEF ArraysOf
<1>2. n \in Nat
  BY TranscriptAssumption
<1>3. xs \in [1..n -> Nat]
  BY <1>1, <1>2
<1> QED
  BY <1>2, <1>3

\* The session id is the first message.
LEMMA InitIsBound ==
    ASSUME Init
    PROVE  BindingInv
<1>1. PICK id \in [Party -> SessionId] :
        /\ seed = [p \in Party |-> begin_byte_array(Len(id[p])) \o id[p]]
        /\ log = [p \in Party |-> <<ByteMessage(id[p])>>]
  BY DEF Init
<1>2. ASSUME NEW p \in Party PROVE Framed(seed[p], log[p], Tag("array"))
  <2>1. PICK x : x = id[p]
    OBVIOUS
  <2>2. x \in Seq(Nat) /\ Len(x) \in Nat
    BY <2>1, TranscriptAssumption
  <2>3. PICK f, m, t : f = <<0, Len(x)>> \o x /\ m = ByteMessage(x) /\ t = Tag("array")
    OBVIOUS
  <2>4. f \in Seq(Nat) /\ m \in Messages /\ FrameAt(f, 0, m, Len(f), t)
    BY <2>2, <2>3, BytesAreFramed
  <2>5. seed[p] = f /\ log[p] = <<m>>
    BY <1>1, <2>1, <2>3 DEF begin_byte_array, Tag
  <2>6. PICK off : off = [k \in 0..1 |-> IF k = 0 THEN 0 ELSE Len(f)]
    OBVIOUS
  <2>7. Frames(f, <<m>>, off, t)
    <3>1. PICK messages : messages = <<m>>
      OBVIOUS
    <3>2. messages \in Seq(Messages) /\ Len(messages) = 1 /\ messages[1] = m
      BY <2>4, <3>1
    <3>3. off \in [0..1 -> Nat] /\ off[0] = 0 /\ off[1] = Len(f)
      BY <2>4, <2>6
    <3>4. \A k \in 1..1 : FrameAt(f, off[k - 1], messages[k], off[k], t)
      <4>1. \A k \in 1..1 : k = 1 /\ k - 1 = 0
        OBVIOUS
      <4> QED
        BY <2>4, <3>2, <3>3, <4>1
    <3> QED
      BY <2>4, <3>1, <3>2, <3>3, <3>4 DEF Frames
  <2> QED
    BY <2>3, <2>5, <2>7 DEF Framed
<1>3. ASSUME NEW p \in Party PROVE Bound(p)
  <2>1. fsprf[p] = NoStream /\ drawn[p] = <<>> /\ challenges[p] = {}
    BY DEF Init
  <2> QED
    BY <1>2, <2>1, WrittenIsBound
<1> QED
  BY <1>3 DEF Init, BindingInv

\* What another transcript does leaves p as it was.
Untouched(p) ==
    /\ seed'[p] = seed[p] /\ fsprf'[p] = fsprf[p] /\ log'[p] = log[p]
    /\ drawn'[p] = drawn[p] /\ challenges'[p] = challenges[p] /\ mode' = mode

LEMMA UntouchedIsBound ==
    ASSUME NEW p, Untouched(p), Bound(p)
    PROVE  Bound(p)'
<1>1. Tag("array")' = Tag("array")
  BY DEF Untouched, Tag
<1>2. get_current_fsprf(p)' = get_current_fsprf(p)
  BY DEF Untouched, get_current_fsprf
<1> QED
  BY <1>1, <1>2 DEF Bound, Untouched

\* Any write appends the bytes of its message to the hash and drops the stream.
LEMMA WriteBinds ==
    ASSUME BindingInv, NEW p \in Party, NEW s, NEW messages,
           Framed(s, messages, Tag("array")),
           seed' = [seed EXCEPT ![p] = s], fsprf' = [fsprf EXCEPT ![p] = NoStream],
           log' = [log EXCEPT ![p] = messages], drawn' = [drawn EXCEPT ![p] = <<>>],
           challenges' = [challenges EXCEPT ![p] = {}], mode' = mode
    PROVE  BindingInv'
<1>1. /\ DOMAIN seed' = Party /\ DOMAIN log' = Party /\ DOMAIN fsprf' = Party
      /\ DOMAIN drawn' = Party /\ DOMAIN challenges' = Party /\ mode' \in Modes
  BY DEF BindingInv
<1>2. Bound(p)'
  <2>1. /\ seed'[p] = s /\ log'[p] = messages /\ fsprf'[p] = NoStream /\ drawn'[p] = <<>>
        /\ challenges'[p] = {}
    BY DEF BindingInv
  <2>2. Tag("array")' = Tag("array")
    BY DEF Tag
  <2>3. NoStream' = NoStream
    BY DEF NoStream
  <2>4. Written(p)'
    BY <2>1, <2>2, <2>3 DEF Written
  <2>5. WritingBinds'
    BY AllWritingBinds, PTL
  <2> QED
    BY <2>4, <2>5 DEF WritingBinds
<1>3. ASSUME NEW q \in Party, q # p PROVE Bound(q)'
  <2>1. Untouched(q)
    BY <1>3 DEF BindingInv, Untouched
  <2> QED
    BY <2>1, UntouchedIsBound DEF BindingInv
<1> QED
  BY <1>1, <1>2, <1>3 DEF BindingInv

\* A message whose bytes are those of a frame is written.
LEMMA MessageBinds ==
    ASSUME BindingInv, NEW p \in Party, NEW f, NEW m, write_bytes(p, f, m),
           f \in Seq(Nat), m \in Messages, FrameAt(f, 0, m, Len(f), Tag("array"))
    PROVE  BindingInv'
<1>1. Framed(seed[p], log[p], Tag("array"))
  BY DEF BindingInv, Bound
<1>2. Framed(seed[p] \o f, Append(log[p], m), Tag("array"))
  BY <1>1, FrameAppended
<1>3. /\ seed' = [seed EXCEPT ![p] = seed[p] \o f]
      /\ fsprf' = [fsprf EXCEPT ![p] = NoStream]
      /\ log' = [log EXCEPT ![p] = Append(log[p], m)]
      /\ drawn' = [drawn EXCEPT ![p] = <<>>]
      /\ challenges' = [challenges EXCEPT ![p] = {}] /\ mode' = mode
  BY DEF write_bytes
<1> QED
  BY <1>2, <1>3, WriteBinds

\* A draw goes on in the stream of everything written, from where the last one ended.
LEMMA DrawBinds ==
    ASSUME BindingInv, NEW p \in Party, NEW width \in Nat \ {0}, NEW n \in Nat \ {0},
           NEW from, NEW to, from..to \subseteq 1..n,
           Due(p, width, n), Draw(p, width, n, from, to)
    PROVE  BindingInv'
<1>1. PICK ws, d : ws = drawn[p] /\ d = Len(ws)
  OBVIOUS
<1>2. PICK key : key = seed[p]
  OBVIOUS
<1>3. ws \in Seq(Nat \ {0}) /\ d \in Nat /\ Framed(key, log[p], Tag("array"))
  BY <1>1, <1>2 DEF BindingInv, Bound
<1>4. PICK at : /\ Chain(key, ws, at)
                /\ get_current_fsprf(p) = [key |-> key, position |-> End(ws, at)]
                /\ \A c \in challenges[p] : SampleOf(c, key, ws, at)
  BY <1>1, <1>2 DEF BindingInv, Bound
<1>5. get_current_fsprf(p).key = key /\ get_current_fsprf(p).position = End(ws, at)
  BY <1>4
<1>6. PICK f, v : f = Samples(key, width, End(ws, at), n) /\ v = ws \o Many(n, width)
  OBVIOUS
<1> DEFINE new == {[fields |-> ws \o Many(k, width), value |-> <<key, f[k], width>>] :
                     k \in from..to}
           next == f[n] + width
<1>7. /\ \A k \in 1..n :
           AcceptedInTime(key, width, IF k = 1 THEN End(ws, at) ELSE f[k - 1] + width)
      /\ fsprf' = [fsprf EXCEPT ![p] = Stream(key, next)]
      /\ drawn' = [drawn EXCEPT ![p] = v]
      /\ challenges' = [challenges EXCEPT ![p] = challenges[p] \cup new]
      /\ mode' = mode /\ seed' = seed /\ log' = log
  BY <1>1, <1>5, <1>6 DEF Draw, Due
<1>8. PICK g : g = Continued(at, d, f, n)
  OBVIOUS
<1>9. Chain(key, v, g) /\ End(v, g) = next
  <2>1. width \in Nat \ {0} /\ n \in Nat \ {0} /\ ws \in Seq(Nat \ {0}) /\ d = Len(ws)
    BY <1>1, <1>3
  <2>2. \A k \in 1..n :
          AcceptedInTime(key, width, IF k = 1 THEN End(ws, at) ELSE f[k - 1] + width)
    BY <1>7
  <2>3. Chain(key, ws, at)
    BY <1>4
  <2>4. InTime(key, width, End(ws, at), f, n)
    BY <2>2 DEF InTime
  <2>5. Extended(key, v, g, f, n, width)
    BY ONLY <2>1, <2>3, <2>4, <1>6, <1>8, ChainGoesOn
  <2> QED
    BY <2>5 DEF Extended
<1>10. /\ v \in Seq(Nat \ {0}) /\ Len(v) = d + n
       /\ \A k \in 1..d : v[k] = ws[k]
       /\ \A k \in 1..n : v[d + k] = width
  <2>1. width \in Nat \ {0} /\ n \in Nat /\ ws \in Seq(Nat \ {0}) /\ d = Len(ws)
    BY <1>1, <1>3
  <2>2. Longer(v, ws, d, n, width)
    BY ONLY <2>1, <1>6, MoreAreDue
  <2> QED
    BY <2>2 DEF Longer
<1>11. ASSUME NEW c \in challenges[p] \cup new
       PROVE  SampleOf(c, key, v, g)
  <2>1. CASE c \in challenges[p]
    <3>1. PICK fields, l : fields = c.fields /\ l = Len(fields)
      OBVIOUS
    <3>2. /\ fields \in Seq(Nat \ {0}) /\ l \in 1..d /\ \A j \in 1..l : fields[j] = ws[j]
          /\ c.value = <<key, at[l], fields[l]>>
      BY <1>1, <1>4, <2>1, <3>1 DEF SampleOf, Prefix
    <3>3. l \in 1..(d + n) /\ g[l] = at[l]
      BY <1>3, <1>8, <3>2 DEF Continued
    <3>4. \A j \in 1..l : fields[j] = v[j]
      BY <1>3, <1>10, <3>2
    <3> QED
      BY <1>10, <3>1, <3>2, <3>3, <3>4 DEF SampleOf, Prefix
  <2>2. CASE c \in new
    <3>1. PICK k \in from..to :
            c = [fields |-> ws \o Many(k, width), value |-> <<key, f[k], width>>]
      BY <2>2
    <3>2. k \in 1..n /\ k \in Nat
      OBVIOUS
    <3>3. PICK fields : fields = ws \o Many(k, width)
      OBVIOUS
    <3>4. /\ fields \in Seq(Nat \ {0}) /\ Len(fields) = d + k
          /\ \A j \in 1..d : fields[j] = ws[j]
          /\ \A j \in 1..k : fields[d + j] = width
      <4>1. width \in Nat \ {0} /\ k \in Nat /\ ws \in Seq(Nat \ {0}) /\ d = Len(ws)
        BY <1>1, <1>3, <3>2
      <4>2. Longer(fields, ws, d, k, width)
        BY ONLY <4>1, <3>3, MoreAreDue
      <4> QED
        BY <4>2 DEF Longer
    <3>5. d + k \in 1..(d + n) /\ g[d + k] = f[k] /\ fields[d + k] = width
      <4>1. d + k \in 1..(d + n) /\ ~(d + k <= d) /\ d + k - d = k
        BY <1>3, <3>2
      <4>2. k \in 1..k
        BY <3>2
      <4>3. g[d + k] = f[d + k - d]
        BY <1>3, <1>8, <3>2, <4>1 DEF Continued
      <4>4. fields[d + k] = width
        BY <3>4, <4>2
      <4> QED
        BY <4>1, <4>3, <4>4
    <3>6. ASSUME NEW j \in 1..(d + k) PROVE fields[j] = v[j]
      <4>1. CASE j \in 1..d
        BY <1>10, <3>4, <4>1
      <4>2. CASE ~(j \in 1..d)
        <5>1. j - d \in 1..k /\ j - d \in 1..n /\ d + (j - d) = j
          BY <1>3, <3>2, <4>2
        <5> QED
          BY <1>10, <3>4, <5>1
      <4> QED
        BY <4>1, <4>2
    <3>7. c.fields = fields /\ c.value = <<key, f[k], width>>
      BY <3>1, <3>3
    <3> QED
      BY <1>10, <3>4, <3>5, <3>6, <3>7 DEF SampleOf, Prefix
  <2> QED
    BY <2>1, <2>2
<1> HIDE DEF new, next
<1>12. /\ DOMAIN seed' = Party /\ DOMAIN log' = Party /\ DOMAIN fsprf' = Party
       /\ DOMAIN drawn' = Party /\ DOMAIN challenges' = Party /\ mode' \in Modes
  BY <1>7 DEF BindingInv
<1>13. Bound(p)'
  <2>1. /\ seed'[p] = key /\ log'[p] = log[p] /\ fsprf'[p] = Stream(key, next)
        /\ drawn'[p] = v /\ challenges'[p] = challenges[p] \cup new
    BY <1>2, <1>7 DEF BindingInv
  <2>2. Framed(seed[p], log[p], Tag("array"))'
    <3>1. Tag("array")' = Tag("array")
      BY <1>7 DEF Tag
    <3> QED
      BY <1>3, <2>1, <3>1
  <2>3. get_current_fsprf(p)' = [key |-> key, position |-> next]
    <3>1. Stream(key, next) # NoStream /\ Stream(key, next)[1] = [key |-> key, position |-> next]
      BY DEF Stream, NoStream
    <3>2. get_current_fsprf(p)' = Stream(key, next)[1]
      BY <2>1, <3>1 DEF get_current_fsprf, NoStream
    <3> QED
      BY <3>1, <3>2
  <2> QED
    BY <1>9, <1>10, <1>11, <2>1, <2>2, <2>3 DEF Bound
<1>14. ASSUME NEW q \in Party, q # p PROVE Bound(q)'
  <2>1. Untouched(q)
    BY <1>7, <1>14 DEF BindingInv, Untouched
  <2> QED
    BY <2>1, UntouchedIsBound DEF BindingInv
<1> QED
  BY <1>12, <1>13, <1>14 DEF BindingInv

\* Everything a transcript does keeps it bound to what it was given.
LEMMA StepBinds ==
    ASSUME BindingInv, [Next]_vars
    PROVE  BindingInv'
<1>1. CASE UNCHANGED vars
  <2>1. \A p : Untouched(p)
    BY <1>1 DEF vars, Untouched
  <2>2. \A p \in Party : Bound(p)'
    BY <2>1, UntouchedIsBound DEF BindingInv
  <2> QED
    BY <1>1, <2>2 DEF vars, BindingInv
<1>2. ASSUME NEW p \in Party, write_field_element(p) PROVE BindingInv'
  BY <1>2, FrameOfElement, MessageBinds DEF write_field_element
<1>3. ASSUME NEW p \in Party, write_polynomial(p) PROVE BindingInv'
  <2>0. PICK width \in Widths :
          \E p0, p2 \in ElementsOf(width) :
            /\ seed' = [seed EXCEPT ![p] = seed[p] \o element_bytes(p0) \o element_bytes(p2)]
            /\ fsprf' = [fsprf EXCEPT ![p] = NoStream]
            /\ log' = [log EXCEPT ![p] = log[p] \o <<Message("element", width, p0),
                                                     Message("element", width, p2)>>]
            /\ drawn' = [drawn EXCEPT ![p] = <<>>]
            /\ challenges' = [challenges EXCEPT ![p] = {}] /\ mode' = mode
    BY <1>3 DEF write_polynomial
  <2>1. PICK p0 \in ElementsOf(width), p2 \in ElementsOf(width) :
          /\ seed' = [seed EXCEPT ![p] = seed[p] \o element_bytes(p0) \o element_bytes(p2)]
          /\ fsprf' = [fsprf EXCEPT ![p] = NoStream]
          /\ log' = [log EXCEPT ![p] = log[p] \o <<Message("element", width, p0),
                                                   Message("element", width, p2)>>]
          /\ drawn' = [drawn EXCEPT ![p] = <<>>]
          /\ challenges' = [challenges EXCEPT ![p] = {}] /\ mode' = mode
    BY <2>0
  <2>2. PICK f, g, m, n : /\ f = element_bytes(p0) /\ g = element_bytes(p2)
                          /\ m = Message("element", width, p0)
                          /\ n = Message("element", width, p2)
    OBVIOUS
  <2>3. PICK t : t = Tag("array")
    OBVIOUS
  <2>4. /\ f \in Seq(Nat) /\ m \in Messages /\ FrameAt(f, 0, m, Len(f), t)
        /\ g \in Seq(Nat) /\ n \in Messages /\ FrameAt(g, 0, n, Len(g), t)
    <3>1. /\ p0 \in Element /\ Len(p0) = width
          /\ p2 \in Element /\ Len(p2) = width
      BY DEF ElementsOf
    <3> QED
      BY <2>2, <3>1, FrameOfElement
  <2>5. Framed(seed[p], log[p], t) /\ log[p] \in Seq(Messages)
    BY <2>3 DEF BindingInv, Bound, Framed, Frames
  <2>6. Framed(seed[p] \o f, Append(log[p], m), t)
    BY <2>4, <2>5, FrameAppended
  <2>7. Framed((seed[p] \o f) \o g, Append(Append(log[p], m), n), t)
    BY <2>4, <2>6, FrameAppended
  <2>8. log[p] \o <<m, n>> = Append(Append(log[p], m), n)
    <3>1. PICK l : l = log[p]
      OBVIOUS
    <3>2. l \in Seq(Messages)
      BY <2>5, <3>1
    <3>3. PICK x, y : x = l \o <<m, n>> /\ y = Append(Append(l, m), n)
      OBVIOUS
    <3>4. /\ x \in Seq(Messages) /\ Len(x) = Len(l) + 2 /\ \A k \in 1..Len(l) : x[k] = l[k]
          /\ x[Len(l) + 1] = m /\ x[Len(l) + 2] = n
      BY <2>4, <3>2, <3>3
    <3>5. /\ y \in Seq(Messages) /\ Len(y) = Len(l) + 2 /\ \A k \in 1..Len(l) : y[k] = l[k]
          /\ y[Len(l) + 1] = m /\ y[Len(l) + 2] = n
      BY <2>4, <3>2, <3>3
    <3>6. \A k \in 1..(Len(l) + 2) : x[k] = y[k]
      BY <3>2, <3>4, <3>5
    <3>7. x = [k \in 1..Len(x) |-> x[k]] /\ y = [k \in 1..Len(y) |-> y[k]]
      BY <3>4, <3>5
    <3>8. x = y
      BY <3>4, <3>5, <3>6, <3>7
    <3> QED
      BY <3>1, <3>3, <3>8
  <2> QED
    BY <2>1, <2>2, <2>3, <2>7, <2>8, WriteBinds
<1>4. ASSUME NEW p \in Party, write_field_element_array(p) PROVE BindingInv'
  <2>0. PICK width \in Widths :
          \E xs \in ArraysOf(ElementsOf(width)) :
            write_bytes(p, element_array_bytes(width, xs),
                        Message("array", width, Concat(width, xs)))
    BY <1>4 DEF write_field_element_array
  <2>1. PICK xs \in ArraysOf(ElementsOf(width)) :
          write_bytes(p, element_array_bytes(width, xs),
                      Message("array", width, Concat(width, xs)))
    BY <2>0
  <2>2. PICK data, length : data = Concat(width, xs) /\ length = Len(xs)
    OBVIOUS
  <2>3. /\ data \in Seq(Nat) /\ length \in Nat /\ width * length = Len(data)
        /\ width \in Nat \ {0}
    BY <2>2, ElementsConcatenated, ElementsHaveBytes
  <2>4. PICK t \in Nat : t = Tag("array")
    BY DEF Tag
  <2>5. PICK f : f = <<t, length>> \o data
    OBVIOUS
  <2>6. f = element_array_bytes(width, xs)
    BY <2>2, <2>4, <2>5 DEF element_array_bytes
  <2>7. /\ f \in Seq(Nat) /\ Message("array", width, data) \in Messages
        /\ FrameAt(f, 0, Message("array", width, data), Len(f), t)
    BY <2>3, <2>5, FrameOfArray
  <2> QED
    BY <2>1, <2>2, <2>4, <2>6, <2>7, MessageBinds
<1>5. ASSUME NEW p \in Party, NEW data \in Seq(Nat), NEW f, f = <<0, Len(data)>> \o data,
             write_bytes(p, f, ByteMessage(data))
      PROVE  BindingInv'
  BY <1>5, BytesAreFramed, MessageBinds
<1>6. ASSUME NEW p \in Party, write_byte_array(p) PROVE BindingInv'
  <2>1. PICK bytes \in ArraysOf(Byte) :
          write_bytes(p, begin_byte_array(Len(bytes)) \o bytes, ByteMessage(bytes))
    BY <1>6 DEF write_byte_array
  <2>2. bytes \in Seq(Nat)
    BY TranscriptAssumption, ArraysAreBytes
  <2>3. begin_byte_array(Len(bytes)) = <<0, Len(bytes)>>
    BY DEF begin_byte_array, Tag
  <2> QED
    BY <1>5, <2>1, <2>2, <2>3
<1>7. ASSUME NEW p \in Party, write_zero_array(p) PROVE BindingInv'
  <2>1. PICK size \in 0..MaxZeros :
          write_bytes(p, begin_byte_array(size) \o ZeroBytes(size),
                      ByteMessage([k \in 1..size |-> 0]))
    BY <1>7 DEF write_zero_array
  <2>2. PICK zeros : zeros = [k \in 1..size |-> 0]
    OBVIOUS
  <2>3. size \in Nat
    BY TranscriptAssumption
  <2>4. ZeroBytes(size) = zeros
    BY <2>2, <2>3, AllZerosAreWritten DEF Zeros
  <2>5. zeros \in Seq(Nat) /\ Len(zeros) = size
    BY <2>2, <2>3
  <2>6. begin_byte_array(size) = <<0, Len(zeros)>>
    BY <2>5 DEF begin_byte_array, Tag
  <2> QED
    BY <1>5, <2>1, <2>2, <2>4, <2>5, <2>6
<1>8. ASSUME NEW p \in Party, generate_challenge(p) PROVE BindingInv'
  <2>1. PICK width \in Widths, length \in 1..MaxSteps :
          Due(p, width, length) /\ Draw(p, width, length, 1, length)
    BY <1>8 DEF generate_challenge
  <2>2. length \in Nat \ {0} /\ 1..length \subseteq 1..length /\ width \in Nat \ {0}
    BY TranscriptAssumption, ElementsHaveBytes
  <2> QED
    BY <2>1, <2>2, DrawBinds
<1>9. ASSUME NEW p \in Party, generate_output_wire_bindings(p) PROVE BindingInv'
  <2>1. PICK width \in Widths, logw \in 0..MaxBindings :
          /\ Due(p, width, 2 * MaxBindings)
          /\ Draw(p, width, 2 * MaxBindings, MaxBindings + 1, MaxBindings + logw)
    BY <1>9 DEF generate_output_wire_bindings
  <2>2. /\ 2 * MaxBindings \in Nat \ {0} /\ width \in Nat \ {0}
        /\ (MaxBindings + 1)..(MaxBindings + logw) \subseteq 1..(2 * MaxBindings)
    <3>1. MaxBindings \in Nat \ {0}
      BY TranscriptAssumption
    <3>2. width \in Nat \ {0}
      BY ElementsHaveBytes
    <3>3. logw \in Nat /\ logw <= MaxBindings
      BY <3>1
    <3> QED
      BY <3>1, <3>2, <3>3
  <2> QED
    BY <2>1, <2>2, DrawBinds
<1> QED
  BY <1>1, <1>2, <1>3, <1>4, <1>6, <1>7, <1>8, <1>9 DEF Next

\* What the invariant says of two transcripts: the same samples come after the same messages.
LEMMA BoundChallenges ==
    ASSUME BindingInv
    PROVE  ChallengeBinding
<1> SUFFICES ASSUME NEW p \in Party, NEW q \in Party, TypesDecided(log[p], log[q]),
                    NEW c \in challenges[p], NEW d \in challenges[q]
             PROVE  /\ c.value = d.value => log[p] = log[q]
                    /\ SameFields(c.fields, d.fields) =>
                         (c.value = d.value <=> log[p] = log[q] /\ c.fields = d.fields)
  BY DEF ChallengeBinding
<1>1. PICK t : t = Tag("array")
  OBVIOUS
<1>2. PICK mm, nn, s, u, ws, vs : /\ mm = log[p] /\ nn = log[q] /\ s = seed[p] /\ u = seed[q]
                                  /\ ws = drawn[p] /\ vs = drawn[q]
  OBVIOUS
<1>3. /\ Framed(s, mm, t) /\ Framed(u, nn, t)
      /\ ws \in Seq(Nat \ {0}) /\ vs \in Seq(Nat \ {0})
  BY <1>1, <1>2 DEF BindingInv, Bound
<1>4. PICK at : Chain(s, ws, at) /\ SampleOf(c, s, ws, at)
  BY <1>2 DEF BindingInv, Bound
<1>5. PICK bt : Chain(u, vs, bt) /\ SampleOf(d, u, vs, bt)
  BY <1>2 DEF BindingInv, Bound
<1>6. PICK x, y, j, k : x = c.fields /\ y = d.fields /\ j = Len(x) /\ k = Len(y)
  OBVIOUS
<1>7. /\ x \in Seq(Nat \ {0}) /\ j \in 1..Len(ws) /\ \A i_ \in 1..j : x[i_] = ws[i_]
      /\ y \in Seq(Nat \ {0}) /\ k \in 1..Len(vs) /\ \A i_ \in 1..k : y[i_] = vs[i_]
      /\ c.value = <<s, at[j], x[j]>> /\ d.value = <<u, bt[k], y[k]>>
  BY <1>4, <1>5, <1>6 DEF SampleOf, Prefix
<1>8. s = u <=> mm = nn
  <2>1. t \in {1, 2} /\ (t = 1 => mode = "V3Compatibility")
    BY <1>1 DEF Tag
  <2>2. Told(mm, nn, t)
    BY <1>2, <2>1 DEF TypesDecided, Told, Alike
  <2>3. s = u => mm = nn
    BY <1>3, <2>1, <2>2, FramesAreRead
  <2>4. mm = nn => s = u
    BY <1>3, FramesAreWritten
  <2> QED
    BY <2>3, <2>4
<1>9. c.value = d.value => log[p] = log[q]
  BY <1>2, <1>7, <1>8
<1>10. ASSUME SameFields(x, y)
       PROVE  c.value = d.value <=> mm = nn /\ x = y
  <2>1. j \in Nat /\ k \in Nat /\ DOMAIN x = 1..j /\ DOMAIN y = 1..k
    <3>1. x \in Seq(Nat \ {0}) /\ y \in Seq(Nat \ {0}) /\ j = Len(x) /\ k = Len(y)
      BY <1>6, <1>7
    <3> QED
      BY <3>1
  <2>2. \A i_ \in Nat : i_ \in 1..j /\ i_ \in 1..k => ws[i_] = vs[i_] /\ x[i_] = y[i_]
    BY <1>7, <1>10, <2>1 DEF SameFields
  <2>3. ASSUME s = u, NEW l \in Nat, l \in 1..j, l \in 1..k
        PROVE  at[l] = bt[l]
    <3>1. l \in 1..Len(ws) /\ l \in 1..Len(vs)
      BY <1>3, <1>7, <2>1, <2>3
    <3>2. \A i_ \in 1..l : ws[i_] = vs[i_]
      BY <2>1, <2>2, <2>3
    <3>3. Chain(s, ws, at) /\ Chain(s, vs, bt)
      BY <1>4, <1>5, <2>3
    <3> QED
      BY <1>3, <3>1, <3>2, <3>3, ChainIsUnique
  <2>4. at[j] \in Nat /\ bt[k] \in Nat /\ (k <= j => at[k] \in Nat) /\ (j <= k => bt[j] \in Nat)
    <3>1. at \in [1..Len(ws) -> Nat] /\ bt \in [1..Len(vs) -> Nat]
      BY <1>4, <1>5 DEF Chain
    <3>2. Len(ws) \in Nat /\ Len(vs) \in Nat
      BY <1>3
    <3>3. (k <= j => k \in 1..Len(ws)) /\ (j <= k => j \in 1..Len(vs))
      BY <1>7, <2>1, <3>2
    <3> QED
      BY <1>7, <3>1, <3>3
  <2>5. CASE j = k
    <3>1. x = y
      BY <1>7, <2>1, <2>2, <2>5
    <3>2. s = u => at[j] = bt[k]
      BY <1>7, <2>1, <2>3, <2>5
    <3> QED
      BY <1>7, <1>8, <2>5, <3>1, <3>2
  <2>6. CASE j < k
    <3>1. x # y
      BY <1>6, <2>1, <2>6
    <3>2. s = u => at[j] # bt[k]
      <4>1. j \in 1..Len(vs) /\ j \in 1..k /\ j \in 1..j
        <5>1. Len(vs) \in Nat /\ k \in 1..Len(vs) /\ j >= 1
          BY <1>3, <1>7, <2>1
        <5> QED
          BY <2>1, <2>6, <5>1
      <4>2. bt[j] < bt[k]
        BY <1>3, <1>5, <1>7, <2>6, <4>1, ChainRises
      <4>3. s = u => at[j] = bt[j]
        BY <2>1, <2>3, <4>1
      <4> QED
        BY <2>4, <2>6, <4>2, <4>3
    <3> QED
      BY <1>7, <3>1, <3>2
  <2>7. CASE k < j
    <3>1. x # y
      BY <1>6, <2>1, <2>7
    <3>2. s = u => at[j] # bt[k]
      <4>1. k \in 1..Len(ws) /\ k \in 1..j /\ k \in 1..k
        <5>1. Len(ws) \in Nat /\ j \in 1..Len(ws) /\ k >= 1
          BY <1>3, <1>7, <2>1
        <5> QED
          BY <2>1, <2>7, <5>1
      <4>2. at[k] < at[j]
        BY <1>3, <1>4, <1>7, <2>7, <4>1, ChainRises
      <4>3. s = u => at[k] = bt[k]
        BY <2>1, <2>3, <4>1
      <4> QED
        BY <2>4, <2>7, <4>2, <4>3
    <3> QED
      BY <1>7, <3>1, <3>2
  <2> QED
    BY <2>1, <2>5, <2>6, <2>7
<1> QED
  BY <1>2, <1>6, <1>9, <1>10

\* Two transcripts draw equal challenges only if all that was written before them is equal,
\* and, where the samples due were of the same fields, exactly if as many were due: no two
\* lists of messages have the same bytes unless they first differ in the field of messages of
\* one kind or, with the shared tag of V3Compatibility, in an array and an element, and a
\* stream never gives the same sample twice.
THEOREM ChallengesBind == Spec => []ChallengeBinding
<1>1. Init => BindingInv
  BY InitIsBound
<1>2. BindingInv /\ [Next]_vars => BindingInv'
  BY StepBinds
<1>3. BindingInv => ChallengeBinding
  BY BoundChallenges
<1> QED
  BY <1>1, <1>2, <1>3, PTL DEF Spec

-----------------------------------------------------------------------------
(* The choice of columns.                                                  *)

\* A drawn natural moves the index it is added to to a position of the list.
LEMMA DrawIsSwap ==
    ASSUME SamplingTypeOK, NEW s \in Sampler, DrawNatural(s)
    PROVE  \E b \in 0..(max - 1) :
             /\ list' = [list EXCEPT ![s] = Swap(list[s], i[s], b)]
             /\ i[s] \in 0..(max - 1)
             /\ i' = [i EXCEPT ![s] = i[s] + 1]
             /\ i[s] + 1 \in 0..count
<1>1. i[s] \in 0..count /\ i[s] < count /\ max \in Nat /\ count \in Nat /\ count < max
  BY DEF SamplingTypeOK, DrawNatural
<1>2. PICK natural \in Naturals(max - i[s]) :
        list' = [list EXCEPT ![s] = Swap(list[s], i[s], i[s] + natural)]
  BY DEF DrawNatural
<1>3. natural \in 0..(max - i[s] - 1)
  BY DEF Naturals
<1>4. i[s] + natural \in 0..(max - 1)
  BY <1>1, <1>3
<1>5. i' = [i EXCEPT ![s] = i[s] + 1]
  BY DEF DrawNatural
<1>6. i[s] \in 0..(max - 1) /\ i[s] + 1 \in 0..count
  BY <1>1
<1> WITNESS i[s] + natural \in 0..(max - 1)
<1>. QED
  BY <1>2, <1>5, <1>6

\* The type invariant and the distinctness of the columns are inductive together.
LEMMA SamplingInductive == SamplingSpec => [](SamplingTypeOK /\ ColumnsDistinct)
<1>1. SamplingInit => SamplingTypeOK /\ ColumnsDistinct
  BY RequestsAssumption DEF SamplingInit, SamplingTypeOK, ColumnsDistinct
<1>2. SamplingTypeOK /\ ColumnsDistinct /\ [SamplingNext]_sampling_vars
        => SamplingTypeOK' /\ ColumnsDistinct'
  <2> SUFFICES ASSUME SamplingTypeOK, ColumnsDistinct, [SamplingNext]_sampling_vars
               PROVE  SamplingTypeOK' /\ ColumnsDistinct'
    OBVIOUS
  <2>1. ASSUME NEW s \in Sampler, DrawNatural(s)
        PROVE  SamplingTypeOK' /\ ColumnsDistinct'
    <3>1. PICK b \in 0..(max - 1) :
             /\ list' = [list EXCEPT ![s] = Swap(list[s], i[s], b)]
             /\ i[s] \in 0..(max - 1)
             /\ i' = [i EXCEPT ![s] = i[s] + 1]
             /\ i[s] + 1 \in 0..count
      BY <2>1, DrawIsSwap
    <3>2. UNCHANGED <<max, count>> /\ DOMAIN draws' = Sampler
      BY <2>1 DEF DrawNatural, SamplingTypeOK
    <3> DEFINE l == Swap(list[s], i[s], b)
    <3>3. /\ l \in [0..(max - 1) -> 0..(max - 1)]
          /\ \A x, y \in 0..(max - 1) : l[x] = l[y] => x = y
      <4>1. /\ list[s] \in [0..(max - 1) -> 0..(max - 1)]
            /\ \A x, y \in 0..(max - 1) : list[s][x] = list[s][y] => x = y
        BY DEF SamplingTypeOK, ColumnsDistinct
      <4>2. i[s] \in 0..(max - 1) /\ b \in 0..(max - 1)
        BY <3>1
      <4>. QED
        BY <4>1, <4>2 DEF Swap
    <3> HIDE DEF l
    <3>4. list' = [list EXCEPT ![s] = l]
      BY <3>1 DEF l
    <3>5. SamplingTypeOK'
      BY <3>1, <3>2, <3>3, <3>4 DEF SamplingTypeOK
    <3>6. ColumnsDistinct'
      BY <3>2, <3>3, <3>4 DEF SamplingTypeOK, ColumnsDistinct
    <3>. QED
      BY <3>5, <3>6
  <2>2. CASE UNCHANGED sampling_vars
    BY <2>2 DEF sampling_vars, SamplingTypeOK, ColumnsDistinct
  <2>. QED
    BY <2>1, <2>2 DEF SamplingNext
<1>. QED
  BY <1>1, <1>2, PTL DEF SamplingSpec

\* The columns generate_naturals_without_replacement returns are pairwise distinct.
THEOREM DistinctColumns == SamplingSpec => []ColumnsDistinct
<1>1. SamplingTypeOK /\ ColumnsDistinct => ColumnsDistinct
  OBVIOUS
<1>. QED
  BY <1>1, SamplingInductive, PTL

-----------------------------------------------------------------------------
(* Powers of two, which the provers know nothing of: there are as many     *)
(* sets of the numbers up to n.                                            *)

\* The sets of one number more are those without it and those with it.
LEMMA PowersOfTwo == ASSUME NEW n \in Nat PROVE 2^n \in Nat /\ 2^(n + 1) = 2 * 2^n
<1> DEFINE Without == SUBSET (1..n)
           With == {X \cup {n + 1} : X \in Without}
           f == [X \in Without |-> X \cup {n + 1}]
<1>1. ASSUME NEW k \in Nat
      PROVE  /\ IsFiniteSet(SUBSET (1..k)) /\ Cardinality(SUBSET (1..k)) = 2^k
             /\ 2^k \in Nat
  <2>1. IsFiniteSet(1..k) /\ Cardinality(1..k) = k
    BY FS_Interval
  <2>2. IsFiniteSet(SUBSET (1..k)) /\ Cardinality(SUBSET (1..k)) = 2^k
    BY <2>1, FS_SUBSET
  <2> QED
    BY <2>2, FS_CardinalityType
<1>2. f \in Bijection(Without, With)
  <2>1. f \in [Without -> With]
    OBVIOUS
  <2>2. ASSUME NEW X \in Without, NEW Y \in Without, f[X] = f[Y] PROVE X = Y
    <3>1. n + 1 \notin X /\ n + 1 \notin Y
      OBVIOUS
    <3>2. X \cup {n + 1} = Y \cup {n + 1}
      BY <2>2
    <3> QED
      BY <3>1, <3>2
  <2>3. \A W \in With : \E X \in Without : f[X] = W
    OBVIOUS
  <2> HIDE DEF f, Without, With
  <2>4. f \in Injection(Without, With)
    BY <2>1, <2>2 DEF Injection, IsInjective
  <2>5. f \in Surjection(Without, With)
    BY <2>1, <2>3 DEF Surjection
  <2> QED
    BY <2>4, <2>5 DEF Bijection
<1>3. IsFiniteSet(With) /\ Cardinality(With) = 2^n
  <2>1. ExistsBijection(Without, With)
    BY <1>2 DEF ExistsBijection
  <2> QED
    BY <1>1, <2>1, FS_Bijection
<1>4. SUBSET (1..(n + 1)) = Without \cup With
  <2>1. ASSUME NEW X \in SUBSET (1..(n + 1)) PROVE X \in Without \cup With
    <3>1. CASE n + 1 \in X
      <4>1. X = (X \ {n + 1}) \cup {n + 1} /\ X \ {n + 1} \in Without
        BY <3>1
      <4> QED
        BY <4>1
    <3>2. CASE n + 1 \notin X
      BY <3>2
    <3> QED
      BY <3>1, <3>2
  <2>2. ASSUME NEW X \in Without \cup With PROVE X \in SUBSET (1..(n + 1))
    OBVIOUS
  <2> QED
    BY <2>1, <2>2
<1>5. Without \cap With = {}
  OBVIOUS
<1>6. Cardinality(SUBSET (1..(n + 1))) = 2^n + 2^n - 0
  <2>1. Cardinality(Without \cap With) = 0
    BY <1>5, FS_EmptySet
  <2>2. IsFiniteSet(Without) /\ Cardinality(Without) = 2^n
    BY <1>1
  <2> HIDE DEF Without, With
  <2>3. Cardinality(Without \cup With)
          = Cardinality(Without) + Cardinality(With) - Cardinality(Without \cap With)
    BY <1>3, <2>2, FS_Union
  <2> QED
    BY <1>3, <1>4, <2>1, <2>2, <2>3
<1>7. 2^(n + 1) = 2^n + 2^n - 0 /\ 2^n \in Nat
  <2>1. n \in Nat /\ n + 1 \in Nat
    OBVIOUS
  <2> QED
    BY <1>1, <1>6, <2>1
<1> HIDE DEF Without, With, f
<1> QED
  BY ONLY <1>7

\* There is one set of no numbers.
LEMMA PowerOfZero == ASSUME NEW n \in Nat, n = 0 PROVE 2^n = 1
<1>1. Cardinality(SUBSET (1..n)) = 2^n
  <2>1. IsFiniteSet(1..n) /\ Cardinality(1..n) = n
    BY FS_Interval
  <2> QED
    BY <2>1, FS_SUBSET
<1>2. SUBSET (1..n) = {{}}
  OBVIOUS
<1>3. Cardinality({{}}) = 1
  BY FS_Singleton
<1> QED
  BY <1>1, <1>2, <1>3

\* A power of two is more than its exponent.
LEMMA PowersGrow == ASSUME NEW n \in Nat PROVE 2^n \in Nat \ {0} /\ n < 2^n
<1> DEFINE Few == {k \in Nat : ~(k < 2^k)}
<1>1. Few = {}
  <2> SUFFICES ASSUME Few # {} PROVE FALSE
    OBVIOUS
  <2>1. PICK k \in Few : \A j \in Few : k <= j
    <3> HIDE DEF Few
    <3>1. Few \in SUBSET Nat
      BY DEF Few
    <3> QED
      BY <3>1, LeastElement
  <2>2. k # 0
    <3> SUFFICES ASSUME k = 0 PROVE FALSE
      OBVIOUS
    <3>1. 2^k = 1
      BY PowerOfZero
    <3> QED
      BY <2>1, <3>1
  <2>3. k - 1 \in Nat /\ k - 1 < 2^(k - 1)
    BY <2>1, <2>2
  <2>4. 2^(k - 1) \in Nat /\ 2^((k - 1) + 1) = 2 * 2^(k - 1)
    BY <2>3, PowersOfTwo
  <2>5. (k - 1) + 1 = k
    OBVIOUS
  <2> QED
    BY <2>3, <2>4, <2>5
<1>2. n < 2^n
  BY <1>1
<1> QED
  BY <1>2, PowersOfTwo

\* The sum of exponents is that of a product.
LEMMA PowersMultiply == ASSUME NEW a \in Nat, NEW b \in Nat PROVE 2^(a + b) = 2^a * 2^b
<1> DEFINE Wrong == {k \in Nat : 2^(a + k) # 2^a * 2^k}
<1>1. Wrong = {}
  <2> SUFFICES ASSUME Wrong # {} PROVE FALSE
    OBVIOUS
  <2>1. PICK k \in Wrong : \A j \in Wrong : k <= j
    <3> HIDE DEF Wrong
    <3>1. Wrong \in SUBSET Nat
      BY DEF Wrong
    <3> QED
      BY <3>1, LeastElement
  <2>2. k # 0
    <3> SUFFICES ASSUME k = 0 PROVE FALSE
      OBVIOUS
    <3>1. 2^k = 1 /\ a + k = a /\ 2^a \in Nat
      BY PowerOfZero, PowersOfTwo
    <3>2. 2^(a + k) = 2^a * 2^k
      BY <3>1
    <3> QED
      BY <2>1, <3>2
  <2>3. PICK j \in Nat : k = j + 1
    BY <2>2
  <2>4. 2^(a + j) = 2^a * 2^j
    BY <2>1, <2>3
  <2>5. /\ 2^(j + 1) = 2 * 2^j /\ 2^j \in Nat /\ 2^a \in Nat
        /\ 2^((a + j) + 1) = 2 * 2^(a + j)
    BY PowersOfTwo
  <2>6. a + k = (a + j) + 1
    BY <2>3
  <2>7. PICK x \in Nat, y \in Nat : x = 2^a /\ y = 2^j
    BY <2>5
  <2>8. 2 * (x * y) = x * (2 * y)
    OBVIOUS
  <2> QED
    BY <2>3, <2>4, <2>5, <2>6, <2>7, <2>8
<1> QED
  BY <1>1

-----------------------------------------------------------------------------
(* Bits and bytes of a natural below m.                                    *)

\* There are powers of two on both sides of a number.
LEMMA LogarithmIsThere ==
    ASSUME NEW m \in Nat \ {0}
    PROVE  ilog2(m) \in 0..m /\ 2^ilog2(m) <= m /\ m < 2^(ilog2(m) + 1)
<1> DEFINE Over == {e \in Nat : m < 2^(e + 1)}
<1>1. m \in Over
  BY PowersGrow, PowersOfTwo
<1>2. PICK e \in Over : \A d \in Over : e <= d
  <2> HIDE DEF Over
  <2>1. Over \in SUBSET Nat /\ Over # {}
    BY <1>1 DEF Over
  <2> QED
    BY <2>1, LeastElement
<1>3. e \in 0..m
  BY <1>1, <1>2
<1>4. 2^e <= m
  <2>1. CASE e = 0
    <3>1. 2^e = 1
      BY <2>1, PowerOfZero
    <3> QED
      BY <2>1, <3>1
  <2>2. CASE e # 0
    <3>1. PICK d \in Nat : e = d + 1
      BY <2>2
    <3>2. d \notin Over
      BY <1>2, <3>1
    <3>3. 2^e \in Nat
      BY PowersOfTwo
    <3> QED
      BY <3>1, <3>2, <3>3
  <2> QED
    BY <2>1, <2>2
<1>5. \E x \in 0..m : 2^x <= m /\ m < 2^(x + 1)
  BY <1>2, <1>3, <1>4
<1> QED
  BY <1>5, Zenon DEF ilog2

\* So many bits are enough for the naturals below m, and the bytes sampled for these bits.
LEMMA BytesAreEnough ==
    ASSUME NEW m \in Nat \ {0}
    PROVE  /\ num_bits(m) \in Nat /\ m <= 2^num_bits(m)
           /\ num_sampled_bytes(m) \in Nat
           /\ ByteBits * num_sampled_bytes(m) \in Nat
           /\ num_bits(m) <= ByteBits * num_sampled_bytes(m)
<1>1. ilog2(m) \in Nat /\ m < 2^(ilog2(m) + 1)
  BY LogarithmIsThere
<1>2. num_bits(m) \in Nat /\ m <= 2^num_bits(m)
  <2>1. CASE m = 2^ilog2(m)
    BY <1>1, <2>1 DEF num_bits
  <2>2. CASE m # 2^ilog2(m)
    <3>1. num_bits(m) = ilog2(m) + 1 /\ ilog2(m) + 1 \in Nat
      BY <1>1, <2>2 DEF num_bits
    <3>2. 2^(ilog2(m) + 1) \in Nat
      BY <3>1, PowersOfTwo
    <3> QED
      BY <1>1, <3>1, <3>2
  <2> QED
    BY <2>1, <2>2
<1>3. PICK b \in Nat : b = num_bits(m)
  BY <1>2
<1>4. ByteBits \in Nat \ {0}
  BY RequestsAssumption
<1>5. /\ (b + ByteBits - 1) \div ByteBits \in Nat
      /\ ByteBits * ((b + ByteBits - 1) \div ByteBits) >= b
  BY <1>4
<1>6. num_sampled_bytes(m) = (b + ByteBits - 1) \div ByteBits
  BY <1>3 DEF num_sampled_bytes
<1>7. PICK l \in Nat : l = num_sampled_bytes(m)
  BY <1>5, <1>6
<1>8. ByteBits * l \in Nat /\ ByteBits * l >= b
  BY <1>4, <1>5, <1>6, <1>7
<1> QED
  BY <1>2, <1>3, <1>7, <1>8

-----------------------------------------------------------------------------
(* Strings of bytes and the numbers they stand for.                        *)

Strings(n) == [1..n -> 0..(2^ByteBits - 1)]

\* The values of the first bytes of c, up to n.
Valued(v, c, n) ==
    v = [k \in 0..n |-> IF k = 0 THEN 0 ELSE v[k - 1] + c[k] * 2^(ByteBits * (k - 1))]

ValueOf(c, n) == (CHOOSE v : Valued(v, c, n))[n]

\* Values one after another are those of one function.
LEMMA ValuesExist == ASSUME NEW n \in Nat, NEW c PROVE \E v : Valued(v, c, n)
<1> DEFINE Unvalued == {m \in Nat : ~\E v : Valued(v, c, m)}
<1>1. Unvalued = {}
  <2> SUFFICES ASSUME Unvalued # {} PROVE FALSE
    OBVIOUS
  <2>1. PICK m \in Unvalued : \A l \in Unvalued : m <= l
    <3> HIDE DEF Unvalued
    <3>1. Unvalued \in SUBSET Nat
      BY DEF Unvalued
    <3> QED
      BY <3>1, LeastElement
  <2>2. m # 0
    <3> SUFFICES ASSUME m = 0 PROVE FALSE
      OBVIOUS
    <3>1. Valued([k \in 0..m |-> 0], c, m)
      BY DEF Valued
    <3> QED
      BY <2>1, <3>1
  <2>3. m - 1 \in Nat /\ m - 1 \notin Unvalued
    BY <2>1, <2>2
  <2>4. PICK w : Valued(w, c, m - 1)
    BY <2>3
  <2> DEFINE last == w[m - 1] + c[m] * 2^(ByteBits * (m - 1))
             v == [k \in 0..m |-> IF k = m THEN last ELSE w[k]]
  <2>5. ASSUME NEW k \in 0..m
        PROVE  v[k] = IF k = 0 THEN 0 ELSE v[k - 1] + c[k] * 2^(ByteBits * (k - 1))
    <3>1. CASE k = m
      <4>1. v[k] = last /\ v[k - 1] = w[k - 1]
        BY <2>2, <2>3, <3>1
      <4> QED
        BY <2>2, <3>1, <4>1
    <3>2. CASE k # m
      <4>1. k \in 0..(m - 1) /\ v[k] = w[k]
        BY <2>3, <3>2
      <4>2. k # 0 => v[k - 1] = w[k - 1]
        BY <2>3, <3>2
      <4>3. w[k] = IF k = 0 THEN 0 ELSE w[k - 1] + c[k] * 2^(ByteBits * (k - 1))
        BY <2>4, <4>1 DEF Valued
      <4> QED
        BY <4>1, <4>2, <4>3
    <3> QED
      BY <3>1, <3>2
  <2>6. Valued(v, c, m)
    <3>1. v = [k \in 0..m |-> v[k]]
      OBVIOUS
    <3> HIDE DEF v
    <3> QED
      BY <2>5, <3>1 DEF Valued
  <2> QED
    BY <2>1, <2>6
<1> QED
  BY <1>1

\* A byte more makes as many times more numbers as there are bytes.
LEMMA NextPower ==
    ASSUME NEW k \in Nat
    PROVE  /\ 2^(ByteBits * k) \in Nat \ {0} /\ 2^ByteBits \in Nat \ {0}
           /\ 2^(ByteBits * (k + 1)) = 2^(ByteBits * k) * 2^ByteBits
<1>1. ByteBits \in Nat
  BY RequestsAssumption
<1>2. ByteBits * k \in Nat /\ ByteBits * (k + 1) = ByteBits * k + ByteBits
  BY <1>1
<1>3. PICK e \in Nat : e = ByteBits * k
  BY <1>2
<1>4. 2^(e + ByteBits) = 2^e * 2^ByteBits
  BY <1>1, PowersMultiply
<1> QED
  BY <1>1, <1>2, <1>3, <1>4, PowersGrow

\* The value of so many bytes is less than there are strings of them.
LEMMA ValuesAreBounded ==
    ASSUME NEW n \in Nat, NEW c \in Strings(n), NEW v, Valued(v, c, n)
    PROVE  \A k \in 0..n : v[k] \in 0..(2^(ByteBits * k) - 1)
<1> DEFINE Out == {k \in 0..n : v[k] \notin 0..(2^(ByteBits * k) - 1)}
<1> SUFFICES ASSUME Out # {} PROVE FALSE
  OBVIOUS
<1>1. PICK k \in Out : \A j \in Out : k <= j
  <2> HIDE DEF Out
  <2>1. Out \in SUBSET Nat
    BY DEF Out
  <2> QED
    BY <2>1, LeastElement
<1>2. v[k] = IF k = 0 THEN 0 ELSE v[k - 1] + c[k] * 2^(ByteBits * (k - 1))
  BY <1>1 DEF Valued
<1>3. k # 0
  <2> SUFFICES ASSUME k = 0 PROVE FALSE
    OBVIOUS
  <2>1. v[k] = 0 /\ 2^(ByteBits * k) \in Nat \ {0}
    BY <1>2, NextPower
  <2> QED
    BY <1>1, <2>1
<1>4. PICK j \in Nat : k = j + 1 /\ j \in 0..n /\ j \notin Out
  BY <1>1, <1>3
<1>5. v[j] \in 0..(2^(ByteBits * j) - 1)
  BY <1>4
<1>6. PICK P \in Nat \ {0}, Q \in Nat \ {0} :
        P = 2^(ByteBits * j) /\ Q = 2^ByteBits /\ 2^(ByteBits * k) = P * Q
  BY <1>4, NextPower
<1>7. c[k] \in 0..(Q - 1)
  BY <1>1, <1>3, <1>6 DEF Strings
<1>8. v[k] = v[j] + c[k] * P
  BY <1>2, <1>3, <1>4, <1>6
<1>9. PICK x \in 0..(P - 1), y \in 0..(Q - 1) : x = v[j] /\ y = c[k]
  BY <1>5, <1>6, <1>7
<1>10. x + y * P \in 0..(P * Q - 1)
  <2>1. y * P <= (Q - 1) * P /\ y * P \in Nat
    BY <1>9
  <2>2. (Q - 1) * P = P * Q - P
    OBVIOUS
  <2> QED
    BY <2>1, <2>2
<1> QED
  BY <1>1, <1>6, <1>8, <1>9, <1>10

\* A number has one quotient and one remainder.
LEMMA OneQuotient ==
    ASSUME NEW P \in Nat \ {0}, NEW a \in Nat, NEW b \in 0..(P - 1),
           NEW c \in Nat, NEW d \in 0..(P - 1), b + a * P = d + c * P
    PROVE  a = c /\ b = d
  OBVIOUS

\* Quotient and remainder.
LEMMA Division ==
    ASSUME NEW P \in Nat \ {0}, NEW Q \in Nat, NEW x \in 0..(P * Q - 1)
    PROVE  \E a \in 0..(Q - 1), b \in 0..(P - 1) : x = b + a * P
<1>1. x \div P \in Nat /\ x - P * (x \div P) \in 0..(P - 1)
  OBVIOUS
<1>2. PICK a \in Nat, b \in 0..(P - 1) : a = x \div P /\ b = x - P * a
  BY <1>1
<1>3. x = b + a * P
  BY <1>2
<1>4. a < Q
  BY <1>3
<1> QED
  BY <1>3, <1>4

\* Strings of one value are the same string.
LEMMA ValuesAreRead ==
    ASSUME NEW n \in Nat, NEW c \in Strings(n), NEW d \in Strings(n), NEW v, NEW w,
           Valued(v, c, n), Valued(w, d, n), v[n] = w[n]
    PROVE  c = d
<1> DEFINE Misread == {k \in 0..n : v[k] = w[k] /\ ~\A j \in 1..k : c[j] = d[j]}
<1>1. Misread = {}
  <2> SUFFICES ASSUME Misread # {} PROVE FALSE
    OBVIOUS
  <2>1. PICK k \in Misread : \A j \in Misread : k <= j
    <3> HIDE DEF Misread
    <3>1. Misread \in SUBSET Nat
      BY DEF Misread
    <3> QED
      BY <3>1, LeastElement
  <2>2. k # 0
    BY <2>1
  <2>3. PICK l \in Nat : k = l + 1 /\ l \in 0..n /\ l \notin Misread
    BY <2>1, <2>2
  <2>4. PICK P \in Nat \ {0} : P = 2^(ByteBits * l)
    BY NextPower
  <2>5. v[k] = v[l] + c[k] * P /\ w[k] = w[l] + d[k] * P
    <3>1. k \in 0..n /\ k - 1 = l
      BY <2>1, <2>3
    <3> QED
      BY <2>2, <2>4, <3>1 DEF Valued
  <2>6. v[l] \in 0..(P - 1) /\ w[l] \in 0..(P - 1)
    BY <2>3, <2>4, ValuesAreBounded
  <2>7. c[k] \in Nat /\ d[k] \in Nat
    <3>1. k \in 1..n /\ 2^ByteBits \in Nat
      BY <2>1, <2>2, NextPower
    <3> QED
      BY <3>1 DEF Strings
  <2>8. c[k] = d[k] /\ v[l] = w[l]
    <3>1. v[l] + c[k] * P = w[l] + d[k] * P
      BY <2>1, <2>5
    <3>2. PICK b \in 0..(P - 1), e \in 0..(P - 1), a \in Nat, f \in Nat :
            b = v[l] /\ e = w[l] /\ a = c[k] /\ f = d[k]
      BY <2>6, <2>7
    <3>3. b + a * P = e + f * P
      BY <3>1, <3>2
    <3>4. a = f /\ b = e
      BY <3>3, OneQuotient
    <3> QED
      BY <3>2, <3>4
  <2>9. \A j \in 1..l : c[j] = d[j]
    BY <2>3, <2>8
  <2>10. \A j \in 1..k : j \in 1..l \/ j = k
    BY <2>3
  <2> QED
    BY <2>1, <2>8, <2>9, <2>10
<1>2. n \in 0..n
  OBVIOUS
<1>3. \A j \in 1..n : c[j] = d[j]
  BY <1>1, <1>2
<1>4. c = [j \in 1..n |-> c[j]] /\ d = [j \in 1..n |-> d[j]]
  BY DEF Strings
<1> QED
  BY <1>3, <1>4

\* And every number below their number is the value of one.
LEMMA ValuesAreWritten ==
    ASSUME NEW n \in Nat
    PROVE  \A x \in 0..(2^(ByteBits * n) - 1) :
             \E c \in Strings(n) : \E v : Valued(v, c, n) /\ v[n] = x
<1> DEFINE Missed == {m \in Nat : \E x \in 0..(2^(ByteBits * m) - 1) :
                        ~\E c \in Strings(m) : \E v : Valued(v, c, m) /\ v[m] = x}
<1> SUFFICES ASSUME Missed # {} PROVE FALSE
  OBVIOUS
<1>1. PICK m \in Missed : \A j \in Missed : m <= j
  <2> HIDE DEF Missed
  <2>1. Missed \in SUBSET Nat
    BY DEF Missed
  <2> QED
    BY <2>1, LeastElement
<1>2. PICK x \in 0..(2^(ByteBits * m) - 1) :
        ~\E c \in Strings(m) : \E v : Valued(v, c, m) /\ v[m] = x
  BY <1>1
<1>3. m # 0
  <2> SUFFICES ASSUME m = 0 PROVE FALSE
    OBVIOUS
  <2>1. ByteBits * m = 0
    BY RequestsAssumption
  <2>2. 2^(ByteBits * m) = 1
    BY <2>1, PowerOfZero
  <2>3. x = 0
    BY <1>2, <2>2
  <2>4. [k \in 1..0 |-> 0] \in Strings(m)
    BY DEF Strings
  <2>5. Valued([k \in 0..0 |-> 0], [k \in 1..0 |-> 0], m)
    BY DEF Valued
  <2>6. [k \in 0..0 |-> 0][m] = x
    BY <2>3
  <2> QED
    BY <1>2, <2>4, <2>5, <2>6
<1>4. PICK l \in Nat : m = l + 1 /\ l \notin Missed
  BY <1>1, <1>3
<1>5. PICK P \in Nat \ {0}, Q \in Nat \ {0} :
        P = 2^(ByteBits * l) /\ Q = 2^ByteBits /\ 2^(ByteBits * m) = P * Q
  BY <1>4, NextPower
<1>6. PICK a \in 0..(Q - 1), b \in 0..(P - 1) : x = b + a * P
  <2>1. x \in 0..(P * Q - 1)
    BY <1>2, <1>5
  <2> QED
    BY <2>1, Division
<1>7. PICK d \in Strings(l) : \E w : Valued(w, d, l) /\ w[l] = b
  BY <1>4, <1>5, <1>6
<1>7w. PICK w : Valued(w, d, l) /\ w[l] = b
  BY <1>7
<1> DEFINE c == [k \in 1..m |-> IF k = m THEN a ELSE d[k]]
           v == [k \in 0..m |-> IF k = m THEN x ELSE w[k]]
<1>8. c \in Strings(m)
  <2>1. ASSUME NEW k \in 1..m PROVE c[k] \in 0..(Q - 1)
    <3>1. k # m => k \in 1..l
      BY <1>4
    <3>2. k # m => d[k] \in 0..(Q - 1)
      BY <1>5, <1>7w, <3>1 DEF Strings
    <3> QED
      BY <1>6, <3>2
  <2> HIDE DEF Missed
  <2> QED
    BY <1>5, <2>1 DEF Strings
<1>9. Valued(v, c, m)
  <2>1. ASSUME NEW k \in 0..m
        PROVE  v[k] = IF k = 0 THEN 0 ELSE v[k - 1] + c[k] * 2^(ByteBits * (k - 1))
    <3>1. CASE k = m
      <4>1. k - 1 = l /\ v[k] = x /\ c[k] = a /\ v[k - 1] = w[l]
        BY <1>4, <3>1
      <4> HIDE DEF v, c
      <4> QED
        BY <1>3, <1>5, <1>6, <1>7w, <3>1, <4>1
    <3>2. CASE k # m
      <4>1. k \in 0..l /\ v[k] = w[k]
        BY <1>4, <3>2
      <4>2. k # 0 => v[k - 1] = w[k - 1] /\ c[k] = d[k]
        BY <1>4, <3>2
      <4>3. w[k] = IF k = 0 THEN 0 ELSE w[k - 1] + d[k] * 2^(ByteBits * (k - 1))
        BY <1>7w, <4>1 DEF Valued
      <4> QED
        BY <4>1, <4>2, <4>3
    <3> QED
      BY <3>1, <3>2
  <2>2. v = [k \in 0..m |-> v[k]]
    OBVIOUS
  <2> HIDE DEF v, c
  <2> QED
    BY <2>1, <2>2 DEF Valued
<1>10. v[m] = x
  OBVIOUS
<1> QED
  BY <1>2, <1>8, <1>9, <1>10

\* Strings of a length are as the numbers below their number.
LEMMA StringsAreNumbers ==
    ASSUME NEW n \in Nat
    PROVE  [c \in Strings(n) |-> ValueOf(c, n)] \in Bijection(Strings(n), 0..(2^(ByteBits * n) - 1))
<1> DEFINE f == [c \in Strings(n) |-> ValueOf(c, n)]
           N == 0..(2^(ByteBits * n) - 1)
<1>1. ASSUME NEW c \in Strings(n) PROVE \E v : Valued(v, c, n) /\ f[c] = v[n]
  <2>1. Valued(CHOOSE v : Valued(v, c, n), c, n)
    BY ValuesExist
  <2> QED
    BY <2>1 DEF ValueOf
<1>2. ASSUME NEW c \in Strings(n) PROVE f[c] \in N
  <2>1. PICK v : Valued(v, c, n) /\ f[c] = v[n]
    BY <1>1
  <2>2. n \in 0..n
    OBVIOUS
  <2> QED
    BY <2>1, <2>2, ValuesAreBounded
<1>3. f \in [Strings(n) -> N]
  BY <1>2
<1>4. ASSUME NEW c \in Strings(n), NEW d \in Strings(n), f[c] = f[d] PROVE c = d
  <2>1. PICK v : Valued(v, c, n) /\ f[c] = v[n]
    BY <1>1
  <2>2. PICK w : Valued(w, d, n) /\ f[d] = w[n]
    BY <1>1
  <2> HIDE DEF f
  <2> QED
    BY <1>4, <2>1, <2>2, ValuesAreRead
<1>5. ASSUME NEW x \in N PROVE \E c \in Strings(n) : f[c] = x
  <2>1. PICK c \in Strings(n) : \E v : Valued(v, c, n) /\ v[n] = x
    BY ValuesAreWritten
  <2>1v. PICK v : Valued(v, c, n) /\ v[n] = x
    BY <2>1
  <2>2. PICK w : Valued(w, c, n) /\ f[c] = w[n]
    BY <1>1
  <2>3. v = w
    <3> DEFINE Differ == {k \in 0..n : v[k] # w[k]}
    <3>1. Differ = {}
      <4> SUFFICES ASSUME Differ # {} PROVE FALSE
        OBVIOUS
      <4>1. PICK k \in Differ : \A j \in Differ : k <= j
        <5> HIDE DEF Differ
        <5>1. Differ \in SUBSET Nat
          BY DEF Differ
        <5> QED
          BY <5>1, LeastElement
      <4>2. /\ v[k] = IF k = 0 THEN 0 ELSE v[k - 1] + c[k] * 2^(ByteBits * (k - 1))
            /\ w[k] = IF k = 0 THEN 0 ELSE w[k - 1] + c[k] * 2^(ByteBits * (k - 1))
        BY <2>1v, <2>2, <4>1 DEF Valued
      <4>3. k # 0 => k - 1 \in 0..n /\ k - 1 \notin Differ
        BY <4>1
      <4>4. k # 0 => v[k - 1] = w[k - 1]
        BY <4>3
      <4> QED
        BY <4>1, <4>2, <4>4
    <3>2. \A k \in 0..n : v[k] = w[k]
      BY <3>1
    <3>3. v = [k \in 0..n |-> v[k]] /\ w = [k \in 0..n |-> w[k]]
      BY <2>1v, <2>2 DEF Valued
    <3> QED
      BY <3>2, <3>3
  <2> QED
    BY <2>1v, <2>2, <2>3
<1> HIDE DEF f, N
<1>6. f \in Injection(Strings(n), N)
  BY <1>3, <1>4 DEF Injection, IsInjective
<1>7. f \in Surjection(Strings(n), N)
  BY <1>3, <1>5 DEF Surjection
<1> QED
  BY <1>6, <1>7 DEF Bijection, f, N

-----------------------------------------------------------------------------
(* As many numbers below a multiple of M have one remainder as another.    *)

Residues(M, Q, n) == {x \in 0..(M * Q - 1) : x % M = n}

\* The remainder of what is so much more than a multiple.
LEMMA Remainder ==
    ASSUME NEW M \in Nat \ {0}, NEW q \in Nat, NEW n \in 0..(M - 1)
    PROVE  (M * q + n) % M = n
  OBVIOUS

\* A number of a remainder is so much more than a multiple.
LEMMA ResidueRead ==
    ASSUME NEW M \in Nat \ {0}, NEW Q \in Nat \ {0}, NEW n \in 0..(M - 1),
           NEW x \in Residues(M, Q, n)
    PROVE  \E q \in 0..(Q - 1) : x = M * q + n
<1>1. x \in Nat /\ x \in 0..(M * Q - 1) /\ x % M = n
  BY DEF Residues
<1>2. x \div M \in Nat /\ x = M * (x \div M) + (x % M)
  BY <1>1
<1>3. PICK q \in Nat : x = M * q + n
  BY <1>1, <1>2
<1>4. M * q < M * Q
  BY <1>1, <1>3
<1>5. q < Q
  BY <1>4
<1> QED
  BY <1>3, <1>5

\* So much more than a multiple is a number of that remainder.
LEMMA ResidueWritten ==
    ASSUME NEW M \in Nat \ {0}, NEW Q \in Nat \ {0}, NEW n \in 0..(M - 1),
           NEW q \in 0..(Q - 1)
    PROVE  M * q + n \in Residues(M, Q, n)
<1>1. (M * q + n) % M = n
  BY Remainder
<1>2. M * q + n \in 0..(M * Q - 1)
  <2>1. M * q <= M * (Q - 1) /\ M * q \in Nat /\ M * (Q - 1) = M * Q - M
    OBVIOUS
  <2> QED
    BY <2>1
<1> QED
  BY <1>1, <1>2 DEF Residues

\* Below a multiple of M, every remainder is met, and as often as 0.
LEMMA ResiduesAlike ==
    ASSUME NEW M \in Nat \ {0}, NEW Q \in Nat \ {0}, NEW n \in 0..(M - 1)
    PROVE  /\ IsFiniteSet(Residues(M, Q, n)) /\ Cardinality(Residues(M, Q, n)) > 0
           /\ Cardinality(Residues(M, Q, n)) = Cardinality(Residues(M, Q, 0))
<1>1. ASSUME NEW k \in 0..(M - 1)
      PROVE  IsFiniteSet(Residues(M, Q, k)) /\ Cardinality(Residues(M, Q, k)) \in Nat \ {0}
  <2>1. IsFiniteSet(0..(M * Q - 1))
    <3>1. M * Q - 1 \in Int
      OBVIOUS
    <3> QED
      BY <3>1, FS_Interval
  <2>2. Residues(M, Q, k) \in SUBSET (0..(M * Q - 1))
    BY DEF Residues
  <2>3. IsFiniteSet(Residues(M, Q, k))
    BY <2>1, <2>2, FS_Subset
  <2>4. Residues(M, Q, k) # {}
    <3>1. 0 \in 0..(Q - 1)
      OBVIOUS
    <3> QED
      BY <3>1, ResidueWritten
  <2> QED
    BY <2>3, <2>4, FS_EmptySet, FS_CardinalityType
<1>2. 0 \in 0..(M - 1)
  OBVIOUS
<1> DEFINE S == Residues(M, Q, 0)
           T == Residues(M, Q, n)
           f == [x \in S |-> x + n]
<1>3. \A x \in S : \E q \in 0..(Q - 1) : x = M * q + 0
  BY <1>2, ResidueRead
<1>4. \A z \in T : \E q \in 0..(Q - 1) : z = M * q + n
  BY ResidueRead
<1>5. \A q \in 0..(Q - 1) : M * q + 0 \in S /\ M * q + n \in T
  BY <1>2, ResidueWritten
<1>6. S \in SUBSET Nat
  BY DEF Residues
<1> HIDE DEF S, T
<1>7. f \in [S -> T]
  <2>1. ASSUME NEW x \in S PROVE x + n \in T
    <3>1. PICK q \in 0..(Q - 1) : x = M * q + 0
      BY <1>3
    <3>2. M * q + n \in T
      BY <1>5
    <3>3. x + n = M * q + n
      BY <3>1
    <3> QED
      BY <3>2, <3>3
  <2> QED
    BY <2>1
<1>8. ASSUME NEW x \in S, NEW y \in S, f[x] = f[y] PROVE x = y
  BY <1>6, <1>8
<1>9. ASSUME NEW z \in T PROVE \E x \in S : f[x] = z
  <2>1. PICK q \in 0..(Q - 1) : z = M * q + n
    BY <1>4
  <2>2. M * q + 0 \in S
    BY <1>5
  <2>3. (M * q + 0) + n = z
    BY <2>1
  <2> QED
    BY <2>2, <2>3
<1> HIDE DEF f
<1>10. f \in Injection(S, T)
  BY <1>7, <1>8 DEF Injection, IsInjective
<1>11. f \in Surjection(S, T)
  BY <1>7, <1>9 DEF Surjection
<1>12. ExistsBijection(S, T)
  BY <1>10, <1>11 DEF Bijection, ExistsBijection
<1>13. Cardinality(T) = Cardinality(S)
  BY <1>1, <1>2, <1>12, FS_Bijection DEF S
<1> QED
  BY <1>1, <1>13 DEF S, T

\* Every natural below m is the value of equally many strings of sampled bytes.
LEMMA NaturalsAreUniform ==
    ASSUME NEW m \in Nat \ {0}, NEW n \in 0..(m - 1)
    PROVE  LET strings(k) == {bytes \in SampledBytes(m) : MaskedValue(bytes, m) = k}
           IN  /\ Cardinality(strings(n)) > 0
               /\ Cardinality(strings(n)) = Cardinality(strings(0))
<1> DEFINE strings(k) == {bytes \in SampledBytes(m) : MaskedValue(bytes, m) = k}
<1>1. PICK b \in Nat, l \in Nat :
        /\ b = num_bits(m) /\ l = num_sampled_bytes(m)
        /\ m <= 2^b /\ ByteBits * l \in Nat /\ b <= ByteBits * l
  BY BytesAreEnough
<1>2. PICK M \in Nat \ {0}, Q \in Nat \ {0} : M = 2^b /\ 2^(ByteBits * l) = M * Q
  <2>1. PICK e \in Nat : e = ByteBits * l - b
    BY <1>1
  <2>2. 2^(b + e) = 2^b * 2^e
    BY PowersMultiply
  <2>3. b + e = ByteBits * l
    BY <1>1, <2>1
  <2> QED
    BY <2>2, <2>3, PowersGrow
<1> DEFINE V == [c \in Strings(l) |-> ValueOf(c, l)]
<1>3. SampledBytes(m) = Strings(l)
  BY <1>1 DEF SampledBytes, Strings
<1>4. ASSUME NEW c \in Strings(l) PROVE MaskedValue(c, m) = V[c] % M
  <2>1. MaskedValue(c, m) = ValueOf(c, l) % M
    BY <1>1, <1>2 DEF MaskedValue, ValueOf, Valued
  <2> QED
    BY <2>1
<1>5. V \in Bijection(Strings(l), 0..(M * Q - 1))
  BY <1>2, StringsAreNumbers
<1> HIDE DEF V
<1>6. /\ V \in [Strings(l) -> 0..(M * Q - 1)]
      /\ \A c, d \in Strings(l) : V[c] = V[d] => c = d
      /\ \A x \in 0..(M * Q - 1) : \E c \in Strings(l) : V[c] = x
  BY <1>5 DEF Bijection, Injection, Surjection, IsInjective
<1>7. ASSUME NEW k \in 0..(M - 1)
      PROVE  Cardinality(strings(k)) = Cardinality(Residues(M, Q, k))
  <2> DEFINE R == Residues(M, Q, k)
             f == [x \in R |-> CHOOSE c \in Strings(l) : V[c] = x]
  <2>1. strings(k) = {c \in Strings(l) : V[c] % M = k}
    BY <1>3, <1>4
  <2>2. ASSUME NEW x \in R PROVE x \in 0..(M * Q - 1) /\ x % M = k
    BY DEF Residues
  <2>3. ASSUME NEW x \in R PROVE f[x] \in Strings(l) /\ V[f[x]] = x
    <3>1. \E c \in Strings(l) : V[c] = x
      BY <1>6, <2>2
    <3> QED
      BY <3>1
  <2>4. f \in [R -> strings(k)]
    <3>1. ASSUME NEW x \in R PROVE f[x] \in strings(k)
      <4>1. f[x] \in Strings(l) /\ V[f[x]] % M = k
        BY <2>2, <2>3
      <4> HIDE DEF f, R, strings
      <4> QED
        BY <2>1, <4>1
    <3> HIDE DEF strings, R
    <3> QED
      BY <3>1
  <2>5. ASSUME NEW x \in R, NEW y \in R, f[x] = f[y] PROVE x = y
    BY <2>3, <2>5
  <2>6. ASSUME NEW c \in strings(k) PROVE \E x \in R : f[x] = c
    <3>1. c \in Strings(l) /\ V[c] % M = k
      BY <2>1
    <3>2. V[c] \in R
      BY <1>6, <3>1 DEF Residues
    <3>3. f[V[c]] = c
      <4>1. f[V[c]] \in Strings(l) /\ V[f[V[c]]] = V[c]
        BY <2>3, <3>2
      <4> HIDE DEF f
      <4> QED
        BY <1>6, <3>1, <4>1
    <3> QED
      BY <3>2, <3>3
  <2>7. IsFiniteSet(R)
    BY ResiduesAlike
  <2> HIDE DEF f, R, strings
  <2>8. f \in Injection(R, strings(k))
    BY <2>4, <2>5 DEF Injection, IsInjective
  <2>9. f \in Surjection(R, strings(k))
    BY <2>4, <2>6 DEF Surjection
  <2>10. ExistsBijection(R, strings(k))
    BY <2>8, <2>9 DEF Bijection, ExistsBijection
  <2> QED
    BY <2>7, <2>10, FS_Bijection DEF R
<1>8. n \in 0..(M - 1) /\ 0 \in 0..(M - 1)
  BY <1>1, <1>2
<1> HIDE DEF strings
<1>9. Cardinality(strings(n)) > 0 /\ Cardinality(strings(n)) = Cardinality(strings(0))
  BY <1>7, <1>8, ResiduesAlike
<1> QED
  BY <1>9 DEF strings

-----------------------------------------------------------------------------
(* What the columns say of the naturals they were drawn with.              *)

\* h lists the states of a list shuffled n times, with the naturals d.
Shuffled(l, d, n, m, h) ==
    /\ h \in [0..n -> [0..(m - 1) -> 0..(m - 1)]]
    /\ h[0] = [k \in 0..(m - 1) |-> k]
    /\ h[n] = l
    /\ d \in Seq(Nat) /\ Len(d) = n
    /\ \A k \in 0..(n - 1) :
         d[k + 1] \in 0..(m - k - 1) /\ h[k + 1] = Swap(h[k], k, k + d[k + 1])

\* A swap moves values of the list only.
LEMMA SwapIsTyped ==
    ASSUME NEW P, NEW l \in [P -> P],
           NEW a \in P, NEW b \in P
    PROVE  Swap(l, a, b) \in [P -> P]
  BY DEF Swap

\* A swap repeats no value.
LEMMA SwapIsInjective ==
    ASSUME NEW P, NEW l \in [P -> P],
           \A x, y \in P : l[x] = l[y] => x = y,
           NEW a \in P, NEW b \in P
    PROVE  \A x, y \in P : Swap(l, a, b)[x] = Swap(l, a, b)[y] => x = y
<1> DEFINE from(z) == IF z = b THEN a ELSE IF z = a THEN b ELSE z
<1>1. ASSUME NEW z \in P
      PROVE  from(z) \in P /\ Swap(l, a, b)[z] = l[from(z)]
  BY DEF Swap
<1>2. \A x, y \in P : from(x) = from(y) => x = y
  OBVIOUS
<1> HIDE DEF from
<1> QED
  BY <1>1, <1>2

\* A list being shuffled never repeats a value.
LEMMA ShufflesAreInjective ==
    ASSUME NEW m \in Nat, NEW n \in Nat, n < m, NEW l, NEW d, NEW h, Shuffled(l, d, n, m, h)
    PROVE  \A k \in 0..n : \A x, y \in 0..(m - 1) : h[k][x] = h[k][y] => x = y
<1> DEFINE P == 0..(m - 1)
           once(k) == \A x, y \in P : h[k][x] = h[k][y] => x = y
<1>1. ASSUME NEW j \in 0..(n - 1), once(j) PROVE once(j + 1)
  <2>1. /\ h[j] \in [P -> P] /\ j \in P
        /\ d[j + 1] \in 0..(m - j - 1) /\ h[j + 1] = Swap(h[j], j, j + d[j + 1])
    <3>1. j \in 0..n /\ j \in P
      OBVIOUS
    <3> HIDE DEF P
    <3>2. h \in [0..n -> [P -> P]]
      BY DEF Shuffled, P
    <3>3. h[j] \in [P -> P]
      BY <3>1, <3>2
    <3>4. d[j + 1] \in 0..(m - j - 1) /\ h[j + 1] = Swap(h[j], j, j + d[j + 1])
      BY DEF Shuffled
    <3> QED
      BY <3>1, <3>3, <3>4
  <2>2. PICK b \in P : b = j + d[j + 1]
    BY <2>1
  <2>3. PICK g \in [P -> P] : g = h[j]
    BY <2>1
  <2>4. \A x, y \in P : g[x] = g[y] => x = y
    BY <1>1, <2>3
  <2> HIDE DEF P
  <2>5. \A x, y \in P : Swap(g, j, b)[x] = Swap(g, j, b)[y] => x = y
    <3>1. j \in P /\ b \in P /\ g \in [P -> P]
      BY <2>1
    <3> QED
      BY ONLY <2>4, <3>1, SwapIsInjective
  <2> QED
    BY <2>1, <2>2, <2>3, <2>5
<1>2. once(0)
  BY DEF Shuffled
<1> HIDE DEF once
<1> DEFINE Bad == {k \in 0..n : ~ once(k)}
<1>3. ASSUME Bad # {} PROVE FALSE
  <2>1. PICK k \in Bad : \A j \in Bad : k <= j
    <3>1. Bad \in SUBSET Nat
      OBVIOUS
    <3> HIDE DEF Bad
    <3> QED
      BY <1>3, <3>1, LeastElement
  <2>2. k # 0
    BY <1>2, <2>1
  <2>3. PICK j \in 0..(n - 1) : k = j + 1
    <3>1. k - 1 \in 0..(n - 1) /\ k = (k - 1) + 1
      BY <2>1, <2>2
    <3> QED
      BY <3>1
  <2>4. once(j)
    BY <2>1, <2>3
  <2> QED
    BY <1>1, <2>1, <2>3, <2>4
<1> QED
  BY <1>3 DEF once

\* A value once drawn stays where it is.
LEMMA DrawnStays ==
    ASSUME NEW m \in Nat, NEW n \in Nat, n < m, NEW l, NEW d, NEW h, Shuffled(l, d, n, m, h),
           NEW k \in 0..(n - 1)
    PROVE  l[k] = h[k][k + d[k + 1]] /\ k + d[k + 1] \in 0..(m - 1)
<1>0. /\ k \in 0..(m - 1) /\ h[k] \in [0..(m - 1) -> 0..(m - 1)]
      /\ d[k + 1] \in 0..(m - k - 1) /\ h[k + 1] = Swap(h[k], k, k + d[k + 1])
  <2>1. k \in 0..(m - 1) /\ k \in 0..n
    OBVIOUS
  <2> QED
    BY <2>1 DEF Shuffled
<1>1. PICK b \in 0..(m - 1) : b = k + d[k + 1]
  <2>1. PICK e : e = d[k + 1]
    OBVIOUS
  <2>2. e \in 0..(m - k - 1) /\ k \in 0..(m - 1)
    BY <1>0, <2>1
  <2>3. k + e \in 0..(m - 1)
    BY <2>2
  <2> QED
    BY <2>1, <2>3
<1>2. h[k + 1][k] = h[k][b]
  <2>1. PICK g : g = h[k]
    OBVIOUS
  <2>2. g \in [0..(m - 1) -> 0..(m - 1)] /\ h[k + 1] = Swap(g, k, b)
    BY <1>0, <1>1, <2>1
  <2>3. Swap(g, k, b)[k] = g[b]
    BY <1>0, <2>2 DEF Swap
  <2> QED
    BY <2>1, <2>2, <2>3
<1> DEFINE Bad == {j \in (k + 1)..n : h[j][k] # h[k + 1][k]}
<1>3. ASSUME Bad # {} PROVE FALSE
  <2>1. PICK j \in Bad : \A o \in Bad : j <= o
    <3>1. Bad \in SUBSET Nat
      OBVIOUS
    <3> HIDE DEF Bad
    <3> QED
      BY <1>3, <3>1, LeastElement
  <2>2. j # k + 1 /\ j \in (k + 1)..n
    BY <2>1
  <2>3. PICK o \in (k + 1)..(n - 1) : j = o + 1
    <3>1. j - 1 \in (k + 1)..(n - 1) /\ j = (j - 1) + 1
      BY <2>2
    <3> QED
      BY <3>1
  <2>4. h[o][k] = h[k + 1][k]
    BY <2>1, <2>3
  <2>5. /\ h[o] \in [0..(m - 1) -> 0..(m - 1)] /\ o \in 0..(n - 1)
        /\ d[o + 1] \in 0..(m - o - 1) /\ h[o + 1] = Swap(h[o], o, o + d[o + 1])
    <3>1. o \in 0..n /\ o \in 0..(n - 1)
      BY <2>3
    <3> HIDE DEF Bad
    <3> QED
      BY <3>1 DEF Shuffled
  <2>6. PICK c \in 0..(m - 1) : c = o + d[o + 1] /\ c # k /\ o # k /\ o \in 0..(m - 1)
    <3>1. PICK e \in 0..(m - o - 1) : e = d[o + 1]
      BY <2>5
    <3>2. o + e \in 0..(m - 1) /\ o + e # k /\ o # k /\ o \in 0..(m - 1)
      BY <2>3, <3>1
    <3> QED
      BY <3>1, <3>2
  <2>7. h[j] = Swap(h[o], o, c)
    BY <2>3, <2>5, <2>6
  <2>8. h[j][k] = h[o][k]
    <3>1. PICK g : g = h[o]
      OBVIOUS
    <3>2. g \in [0..(m - 1) -> 0..(m - 1)] /\ h[j] = Swap(g, o, c)
      BY <2>5, <2>7, <3>1
    <3> HIDE DEF Bad
    <3>3. Swap(g, o, c)[k] = g[k]
      BY <1>0, <2>6, <3>2 DEF Swap
    <3> QED
      BY <3>1, <3>2, <3>3
  <2> QED
    BY <2>1, <2>4, <2>8
<1>4. h[n][k] = h[k + 1][k]
  <2>1. n \in (k + 1)..n
    OBVIOUS
  <2> QED
    BY <1>3, <2>1
<1> QED
  BY <1>1, <1>2, <1>4 DEF Shuffled

\* Two lists shuffled as often, whose drawn values agree, were shuffled with the same
\* naturals.
LEMMA DrawsDetermined ==
    ASSUME NEW m \in Nat, NEW n \in Nat, n < m,
           NEW l, NEW d, NEW h, Shuffled(l, d, n, m, h),
           NEW l2, NEW d2, NEW h2, Shuffled(l2, d2, n, m, h2),
           \A k \in 0..(n - 1) : l[k] = l2[k]
    PROVE  d = d2
<1>1. ASSUME NEW k \in 0..(n - 1), h[k] = h2[k]
      PROVE  d[k + 1] = d2[k + 1] /\ h[k + 1] = h2[k + 1]
  <2>1. PICK a \in 0..(m - 1) : a = k + d[k + 1] /\ l[k] = h[k][a]
    BY DrawnStays
  <2>2. PICK b \in 0..(m - 1) : b = k + d2[k + 1] /\ l2[k] = h2[k][b]
    BY DrawnStays
  <2>3. k \in 0..n /\ h[k][a] = h[k][b]
    BY <1>1, <2>1, <2>2
  <2>4. a = b
    <3>1. \A x, y \in 0..(m - 1) : h[k][x] = h[k][y] => x = y
      BY ONLY m \in Nat, n \in Nat, n < m, Shuffled(l, d, n, m, h), <2>3, ShufflesAreInjective
    <3> QED
      BY <2>3, <3>1
  <2>5. /\ d[k + 1] \in 0..(m - k - 1) /\ h[k + 1] = Swap(h[k], k, k + d[k + 1])
        /\ d2[k + 1] \in 0..(m - k - 1) /\ h2[k + 1] = Swap(h2[k], k, k + d2[k + 1])
    BY DEF Shuffled
  <2>6. d[k + 1] = d2[k + 1]
    BY <2>1, <2>2, <2>4, <2>5
  <2> QED
    BY <1>1, <2>5, <2>6
<1> DEFINE Bad == {k \in 0..n : h[k] # h2[k]}
<1>2. ASSUME Bad # {} PROVE FALSE
  <2>1. PICK k \in Bad : \A o \in Bad : k <= o
    <3>1. Bad \in SUBSET Nat
      OBVIOUS
    <3> HIDE DEF Bad
    <3> QED
      BY <1>2, <3>1, LeastElement
  <2>2. k # 0
    BY <2>1 DEF Shuffled
  <2>3. PICK j \in 0..(n - 1) : k = j + 1
    <3>1. k - 1 \in 0..(n - 1) /\ k = (k - 1) + 1
      BY <2>1, <2>2
    <3> QED
      BY <3>1
  <2>4. h[j] = h2[j]
    BY <2>1, <2>3
  <2> QED
    BY <1>1, <2>1, <2>3, <2>4
<1>3. \A k \in 0..(n - 1) : d[k + 1] = d2[k + 1]
  BY <1>1, <1>2
<1>4. \A k \in 1..n : d[k] = d2[k]
  <2>1. ASSUME NEW k \in 1..n PROVE d[k] = d2[k]
    <3>1. k - 1 \in 0..(n - 1) /\ (k - 1) + 1 = k
      OBVIOUS
    <3> QED
      BY <1>3, <3>1
  <2> QED
    BY <2>1
<1>5. d \in Seq(Nat) /\ d2 \in Seq(Nat) /\ Len(d) = n /\ Len(d2) = n
  BY DEF Shuffled
<1>6. d = [k \in 1..n |-> d[k]] /\ d2 = [k \in 1..n |-> d2[k]]
  BY <1>5
<1> QED
  BY <1>4, <1>6

\* Every list is shuffled as often as its loop went round, with the naturals drawn.
ListsAreShuffled ==
    \A s \in Sampler : \E h : Shuffled(list[s], draws[s], i[s], max, h)

\* A draw is one more swap.
LEMMA DrawShuffles ==
    ASSUME NEW m \in Nat, NEW n \in Nat, n < m, NEW l, NEW d, NEW h, Shuffled(l, d, n, m, h),
           NEW b \in 0..(m - n - 1)
    PROVE  \E g : Shuffled(Swap(l, n, n + b), Append(d, b), n + 1, m, g)
<1> DEFINE e == Append(d, b)
           w == Swap(l, n, n + b)
           g == [k \in 0..(n + 1) |-> IF k <= n THEN h[k] ELSE w]
<1>1. d \in Seq(Nat) /\ Len(d) = n /\ b \in Nat
  BY DEF Shuffled
<1>2. /\ e \in Seq(Nat) /\ Len(e) = n + 1 /\ e[n + 1] = b
      /\ \A k \in 0..(n - 1) : e[k + 1] = d[k + 1]
  BY <1>1
<1>3. l \in [0..(m - 1) -> 0..(m - 1)] /\ n \in 0..(m - 1) /\ n + b \in 0..(m - 1)
  BY DEF Shuffled
<1>4. w \in [0..(m - 1) -> 0..(m - 1)]
  BY <1>3, SwapIsTyped
<1> HIDE DEF e, w
<1>5. g \in [0..(n + 1) -> [0..(m - 1) -> 0..(m - 1)]]
  BY <1>4 DEF Shuffled
<1>6. g[0] = h[0] /\ g[n + 1] = w /\ g[n] = l
  BY DEF Shuffled
<1>7. ASSUME NEW k \in 0..n
      PROVE  e[k + 1] \in 0..(m - k - 1) /\ g[k + 1] = Swap(g[k], k, k + e[k + 1])
  <2>1. CASE k = n
    BY <1>2, <1>6, <2>1 DEF w
  <2>2. CASE k # n
    <3>1. k \in 0..(n - 1) /\ k + 1 \in 0..n
      BY <2>2
    <3>2. g[k] = h[k] /\ g[k + 1] = h[k + 1] /\ e[k + 1] = d[k + 1]
      BY <1>2, <3>1
    <3> QED
      BY <3>1, <3>2 DEF Shuffled
  <2> QED
    BY <2>1, <2>2
<1> HIDE DEF g
<1>8. (n + 1) - 1 = n
  OBVIOUS
<1>9. g[0] = [k \in 0..(m - 1) |-> k]
  BY <1>6 DEF Shuffled
<1>10. Shuffled(w, e, n + 1, m, g)
  BY <1>2, <1>5, <1>6, <1>7, <1>8, <1>9 DEF Shuffled
<1> QED
  BY <1>10 DEF w, e

\* The naturals a sampler may draw are below their bound.
LEMMA DrawIsShuffle ==
    ASSUME SamplingTypeOK, ListsAreShuffled, NEW s \in Sampler, DrawNatural(s)
    PROVE  ListsAreShuffled'
<1>1. PICK b \in Naturals(max - i[s]) :
        /\ list' = [list EXCEPT ![s] = Swap(list[s], i[s], i[s] + b)]
        /\ draws' = [draws EXCEPT ![s] = Append(draws[s], b)]
  BY DEF DrawNatural
<1>2. i' = [i EXCEPT ![s] = i[s] + 1] /\ max' = max /\ i[s] < count
  BY DEF DrawNatural
<1>3. b \in 0..(max - i[s] - 1)
  BY <1>1 DEF Naturals
<1>4. max \in Nat /\ i[s] \in Nat /\ i[s] < max
  BY <1>2 DEF SamplingTypeOK
<1>5. PICK h : Shuffled(list[s], draws[s], i[s], max, h)
  BY DEF ListsAreShuffled
<1>6. \E g : Shuffled(Swap(list[s], i[s], i[s] + b), Append(draws[s], b), i[s] + 1, max, g)
  BY <1>3, <1>4, <1>5, DrawShuffles
<1>7. DOMAIN list = Sampler /\ DOMAIN draws = Sampler /\ DOMAIN i = Sampler
  BY DEF SamplingTypeOK
<1>8. ASSUME NEW t \in Sampler
      PROVE  \E g : Shuffled(list'[t], draws'[t], i'[t], max', g)
  <2>1. CASE t = s
    <3>1. /\ list'[t] = Swap(list[s], i[s], i[s] + b) /\ draws'[t] = Append(draws[s], b)
          /\ i'[t] = i[s] + 1
      BY <1>1, <1>2, <1>7, <2>1
    <3> QED
      BY <1>2, <1>6, <3>1
  <2>2. CASE t # s
    <3>1. list'[t] = list[t] /\ draws'[t] = draws[t] /\ i'[t] = i[t]
      BY <1>1, <1>2, <1>7, <2>2
    <3> QED
      BY <1>2, <3>1 DEF ListsAreShuffled
  <2> QED
    BY <2>1, <2>2
<1> QED
  BY <1>8 DEF ListsAreShuffled

\* Shuffling is what the samplers do.
LEMMA ShufflingInductive == SamplingSpec => [](SamplingTypeOK /\ ListsAreShuffled)
<1>1. SamplingInit => ListsAreShuffled
  <2> SUFFICES ASSUME SamplingInit, NEW s \in Sampler
               PROVE  \E h : Shuffled(list[s], draws[s], i[s], max, h)
    BY DEF ListsAreShuffled
  <2> DEFINE l == [k \in 0..(max - 1) |-> k]
             h == [k \in 0..0 |-> l]
  <2>1. max \in Nat /\ list[s] = l /\ draws[s] = <<>> /\ i[s] = 0
    BY RequestsAssumption DEF SamplingInit
  <2>2. l \in [0..(max - 1) -> 0..(max - 1)]
    BY <2>1
  <2>3. Shuffled(l, <<>>, 0, max, h)
    BY <2>2 DEF Shuffled
  <2> QED
    BY <2>1, <2>3
<1>2. SamplingTypeOK /\ ListsAreShuffled /\ [SamplingNext]_sampling_vars => ListsAreShuffled'
  <2> SUFFICES ASSUME SamplingTypeOK, ListsAreShuffled, [SamplingNext]_sampling_vars
               PROVE  ListsAreShuffled'
    OBVIOUS
  <2>1. ASSUME NEW s \in Sampler, DrawNatural(s) PROVE ListsAreShuffled'
    BY <2>1, DrawIsShuffle
  <2>2. CASE UNCHANGED sampling_vars
    BY <2>2 DEF sampling_vars, ListsAreShuffled
  <2> QED
    BY <2>1, <2>2 DEF SamplingNext
<1> QED
  BY <1>1, <1>2, SamplingInductive, PTL DEF SamplingSpec

\* Every list of distinct columns is as likely as any other: the columns returned determine
\* the naturals drawn, and each natural comes from as many byte strings as any other.
THEOREM ColumnsAreUnbiased == SamplingSpec => []SamplingUnbiased
<1>1. SamplingTypeOK /\ ListsAreShuffled => ResultDeterminesDraws
  <2> SUFFICES ASSUME SamplingTypeOK, ListsAreShuffled, NEW s \in Sampler, NEW t \in Sampler,
                      i[s] = count, i[t] = count, Result(s) = Result(t)
               PROVE  draws[s] = draws[t]
    BY DEF ResultDeterminesDraws
  <2>1. max \in Nat /\ count \in Nat /\ count < max
    BY DEF SamplingTypeOK
  <2>2. PICK h : Shuffled(list[s], draws[s], count, max, h)
    BY DEF ListsAreShuffled
  <2>3. PICK g : Shuffled(list[t], draws[t], count, max, g)
    BY DEF ListsAreShuffled
  <2>4. \A k \in 0..(count - 1) : list[s][k] = list[t][k]
    <3>1. ASSUME NEW k \in 0..(count - 1) PROVE list[s][k] = list[t][k]
      <4>1. Result(s)[k] = list[s][k] /\ Result(t)[k] = list[t][k]
        BY DEF Result
      <4> QED
        BY <4>1
    <3> QED
      BY <3>1
  <2> QED
    BY <2>1, <2>2, <2>3, <2>4, DrawsDetermined
<1>2. SamplingTypeOK => NaturalsUniform
  <2> SUFFICES ASSUME SamplingTypeOK, NEW s \in Sampler, i[s] < count
               PROVE  LET m == max - i[s]
                          strings(n) ==
                            {bytes \in SampledBytes(m) : MaskedValue(bytes, m) = n}
                      IN  \A n \in 0..(m - 1) :
                            /\ Cardinality(strings(n)) > 0
                            /\ Cardinality(strings(n)) = Cardinality(strings(0))
    BY DEF NaturalsUniform
  <2>1. max - i[s] \in Nat \ {0}
    BY DEF SamplingTypeOK
  <2> QED
    BY <2>1, NaturalsAreUniform
<1>3. SamplingTypeOK /\ ListsAreShuffled => SamplingUnbiased
  BY <1>1, <1>2 DEF SamplingUnbiased
<1> QED
  BY <1>3, ShufflingInductive, PTL
=============================================================================
